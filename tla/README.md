# TLA+ models of DIANA's tooling

This directory holds TLA+ models of the Python tools in the repository that have state and control
flow worth checking:

- the FV1 bitmap-font encoder `src/utils/fontdump/font_parser.py`;
- the release packager `src/redemption/tools/packager.py`;
- the translation lookup of the session manager, `src/tools/sesman/sesmanworker/sesmanconf.py`.

Each model is translated from the source. `PROJECT.json` maps every definition that stands for
code to the lines it models. It also lists the runs, mutants, findings and hazards.

## The system and its parts

| Part | Source | Module(s) | Status |
|---|---|---|---|
| Glyph normalizer (sizes → cell, baseline, advance, offset) | font_parser.py 109-155 | `FontParser` | modelled |
| Bitstream packer (`doBitmap`, pixel loop, pad to 4) | font_parser.py 47-69, 156-181 | `FontParser` | modelled |
| Container writer (header, records) | font_parser.py 80-107 | `FontParser`, `FV1Layout`, `FontStream` | modelled |
| Rasterizer (PIL `ImageFont`) | external | oracle in `FontParser` | not modelled (collaborator) |
| Release packager: main flow (tag, changelog, version, commit, push, cleanup) | packager.py 104-113, 187-470 | `Packager` | modelled |
| Release packager: debian/ build (target file, distro, architecture, rendered files) | packager.py 59-101, 136-146, 331-336, 372-454 | `PackagerDebian` | modelled |
| Template substitution (`replace_dict_line`, `replace_dict_file`) | packager.py 150-177 | `DictSubst` | modelled |
| Sesman config and `TR()` translation | sesmanconf.py 6-148 | `Sesmanconf` | modelled |

**Font encoder.** The script is one sequential loop. It writes the header, then one record for
each codepoint in 32..CHARSET_SIZE-1. The parts interact only through the open file and through
three loop variables that carry over from glyph to glyph: `byteBitmap`, `cptPix` and `totBytes`.
The rasterizer is a collaborator. For every glyph it answers a raw size and a mask, or it raises.
`getabc` may also raise. No property depends on PIL's rendering, so the model chooses the answer
nondeterministically from small sets.

**Packager.** A release runs a fixed sequence of steps against a git repository:

1. the clean check;
2. the local and remote tag checks;
3. the changelog and `version.hpp` rewrite;
4. `git commit -am`, push, tag and push of tags;
5. the `git describe` check;
6. writing `debian/` from templates;
7. `dpkg-buildpackage`.

Any exception jumps to the handler at lines 456-470, which runs `git stash; git stash drop`.
The build step's `opts.config` dictionary gets its values from four places, in this order:
1. the class defaults;
2. `--package-distribution`;
3. the target parameter file;
4. the detected distro and architecture.

Every `debian/` file is then rendered from a template by replacing each `%KEY%` with its config
value.

**Sesman translation.** `SESMANCONF` is a singleton holding a language and a table of sections.
`TR(key)` looks the key up in the language's section. An unknown language falls back to `en`, and
a missing key falls back to the key itself. Callers outside this repository format the result with
`TR(key) % args`.
Each shell command may fail. The developer's own work may already be in the work tree or the
index when the script starts.

## Modules

- **`FV1Layout`** is the reader's side of the format: a 48-byte header, then records of `nf`
  16-bit fields, 6 reserved bytes and a bitmap padded to 4 bytes. The reader recomputes each
  bitmap's length from the record's width and height. Records are parsed from a byte sequence
  with RECURSIVE operators. Nothing in the repository reads FV1, so this module is the format's
  contract, taken from spec.md 4.3. It is used by the properties and by the refinement mapping.
  It is not mapped to code.
- **`FontStream`** is the abstract specification of an encode. A header is written, then one
  record is appended for each codepoint. Each record is derived from that glyph's rasterizer
  answer alone: the cell rounded up to a multiple of 8, and the bitmap packed row-major, most
  significant bit first. The encode may fail at any time. Its bitmap is a pure operator
  (`PackedGrid`), the reference for the code's incremental packer.
- **`FontParser`** is the script at the granularity of one pixel. Its variables are the script's
  own:
  - the loop indices `i`, `ix` and `iy`;
  - the glyph variables `x`, `y`, `msk`, `fullW` and `fullH`;
  - the packer's `cptPix`, `byteBitmap` and `totBytes`;
  - the file `out`, a sequence of bytes.

  These actions have `pc` values that mirror the statement order:
  - `WriteHeader`;
  - `StartGlyph`: getsize, getmask and the first three shorts;
  - `RasterFail`;
  - `WriteAdvance`: getabc, the advance, the 6-byte pad and the reset;
  - `AbcFail`;
  - `PixelStep`: one pixel through `DoBitmap`;
  - `EndGlyph`: the pad-to-4 loop;
  - `Terminated`.

  Python 2 `/` on ints is floor division, which is `\div`. `struct.pack('h')` raises for a value
  outside -32768..32767 (`InShort`). `StartGlyph` writes the fields before the first such value and
  then fails. Otherwise `PackH` gives the two's-complement bytes in the host's order, given by the
  constant `Endian`. The refinement mapping
  parses `out` with `FV1Layout` and instantiates `FontStream`. `StreamRefined` is that
  specification as a temporal property.
- **`Packager`** has these variables:
  - the option set `opts`;
  - the repository, as functions from {version, changelog, other} to contents: work tree `wt`,
    index `idx` and `head`;
  - the local and remote tag sets, whether HEAD is tagged, and what was pushed;
  - the `debian/` state and the build result.

  Python 3 values are tagged `<<"str",t>>` or `<<"bytes",t>>`, so the code's str-vs-bytes
  comparisons evaluate as they do at run time. There is one action per step of the main flow,
  plus `ExceptHandler`. Every git command can fail (`Raise`); the handler's `git stash` can fail
  too, and its status is ignored. A variable `userStash` records whether the developer has a
  stash entry of their own, which the following `git stash drop` can delete.
- **`PackagerDebian`** is the `--build-package` half of the packager, one action per step of
  lines 372-454:
  - `VersionCheck`: the describe check, which always fails without `--force-build`;
  - `Mkdir`;
  - `ReadTarget`: `parse_target_param`;
  - `CheckDistro`: the detection and its truthy overrides;
  - `CheckArchi`: the check, then `archi_to_control_archi`;
  - `WriteInstall`, `WritePostinst` (errno 2 ignored), `WriteRules`, `WriteChangelog` and
    `WriteControl`;
  - `Dpkg`.

  `config` is the dictionary; a key is a string such as `"%ARCHI%"`. A rendered file is abstracted
  to the config it was rendered with. `Packager` keeps all of this as its single `Prepare` step.
- **`DictSubst`** is the substitution itself, over text as a sequence of one-character strings:
  - `MatchEnd` and `Finditer` are `rgx_var` and `finditer`;
  - `replace_dict_line` splices from the last match to the first, using `ReplaceSubSeqAt` and
    `FoldLeft` from SequencesExt;
  - the file loop and `writeall` are actions.

  `Substituted` is the reference: the whole file read left to right.
- **`Sesmanconf`** keeps the fr and en tables entry by entry. Each entry is the key's name with the
  number of `%s` in the key and in the message, as in lines 50-137. `Get` and `TR` are operators.
  The caller is the environment: it sets `language` to a section name or to an unknown language,
  and asks for any key.
- `MCFontParser` and `MCPackager` supply the model values: four mask shapes (blank, dot, diagonal,
  full), a short, a 32-character and a 33-character name, and the tags v1 and v2.

## Runs

| Run | cfg | Expect | What it shows |
|---|---|---|---|
| fv1_refinement | MCFontParser.cfg | pass | `TypeOK`, `BitmapFlushedWhole`: at every pad step the packer has flushed exactly fullW·fullH/8 bytes with no partial byte pending, and the record ends on a 4-byte boundary. `StreamRefined`: every file state parses as a prefix of the abstract record stream, so the continuous bit cursor, MSB-first order and per-glyph reset produce exactly the row-major packing. `DimensionsReadBack`: while a glyph is encoded, the width, height and baseline at its record's offset read back as the values the code computed. A cell of 32768 makes `struct.pack` raise with the record truncated; it is never written as a wrapped negative size. Through `FontStream`'s `Finish`, a file reaches `done` only with a record for every codepoint, and through `HeaderOf` the 32-byte name leaves size and style at offsets 37 and 39. |
| fv1_spec_layout | MCFontParser_layout.cfg | violation | A finished file does not walk with spec 4.3's 5-field layout. The offset is computed and never written (finding). This run packs big-endian, so the host byte order of `struct.pack` is exercised both ways. |
| fv1_long_name | MCFontParser_name.cfg | violation | A 33-character name is written whole and moves size and style off their offsets. The spec says it is rejected. |
| packager_cleanup | MCPackager.cfg | pass | Over all option sets, prior user changes, developer stashes, tag situations and failure points: `HalfPublishedResumable`: a run that fails after `git push` has published its version commit leaves HEAD at that commit, carrying the new version, with a clean tree. The release can then be finished by tagging by hand. `ReleaseCarriedThrough` (under `FairSpec`): every run ends, and one that ends without an exception after a committed version update has done every push and tag step its options asked for. |
| packager_existing_tag | MCPackager_tag.cfg | violation | The local tag check (str vs bytes) never fires, so the version bump is committed over an existing tag. |
| packager_version_check | MCPackager_build.cfg | violation | `git describe` output (bytes) never equals the version (str), so a correctly tagged HEAD is refused. |
| packager_stash | MCPackager_stash.cfg | violation | The handler ignores the status of `git stash; git stash drop`. A failed stash leaves the script's edits and the drop deletes the developer's own stash entry; a working stash destroys a staged change that passed the clean check. |
| debian_config | MCPackagerDebian.cfg | pass | `ChangelogPrecedence`: the changelog's distribution is the codename off Ubuntu, else the target file's, else the option's, else `unstable`; its target name is the target file's, even `""`, else `+codename` on Ubuntu. A target with an empty distro and an empty target name reaches the changelog on both distros: the empty distro is falsy and leaves the detected one, the empty name is present and is kept. |
| debian_distribution | MCPackagerDebian_dist.cfg | violation | `--package-distribution`, offered by the usage text, is overwritten by the codename off Ubuntu and by a target file's value. |
| dict_subst | MCDictSubst.cfg | pass | `RenderMatchesReference`: the reversed splice over the original offsets, applied line by line, equals a left-to-right substitution of the whole file. |
| sesman_params | MCSesmanconf.cfg | pass | `ParamsPreserved`: for every language and key, including the fallbacks, TR returns a message with as many `%s` as the key, so `TR(key) % args` cannot raise. |
| sesman_keys | MCSesmanconf_keys.cfg | violation | The fr table keys `not_display_message %s` and the en table `not_display_message`, so one language shows the raw key. |

Each property of a passing run has a mutant in `PROJECT.json`. Each mutant is a plausible
slip in the code that the property catches:
- a flush that checks the cursor one step late;
- LSB-first packing;
- cell rounding without the `+1`;
- `get_current_tag` returning bytes;
- splicing the matches first to last;
- a target file that only fills in missing keys;
- `key.replace` assigned and used in the lookup and the fallback;
- `git commit` without `-a`;
- the three fields packed modulo 2^16 instead of raising;
- the tag push keyed on `--git-push` instead of `--git-push-tag`.

## Bounds and why they suffice

**Font runs.** The passing run uses a 32-byte name, which fills the name field with no padding;
the violation run uses 33 bytes. CHARSET_SIZE = 34 gives two glyphs: a record followed by another is what exposes
the per-glyph reset and the offset of the second record. The raw widths are {0, 1, 8, 9, 32761}:
- 0 exercises the floor-division case `(0-1)/8 = -1`;
- 8 is an exact multiple of 8;
- 1 and 9 round up, to 8 and to 16;
- 32761 rounds up to 32768, the first cell size a short cannot hold.

The raw heights are {0, 1, 9, 32761}. With a large height, the width is written and the height
raises; with a large width, nothing of the record is written. The side of the boundary that still
fits (cells of 32760) is not enumerated: its pixel loop would run 32760 × 8 steps, and the
packing logic it would exercise is already reached by the small cells. The masks cover no ink, one pixel, a diagonal that crosses byte
and row boundaries, and full ink. A 16-wide cell with a 9-pixel glyph makes rows end mid-byte
relative to the glyph, while 8×8 cells end rows on byte boundaries. Together these hit every
branch of the packer.

**Packager.** The tags are v1 (current) and v2 (new). Each tag set is either {v1} or {v1, v2},
locally and remotely. All 2^10 option sets are enumerated, `--no-entry-changelog` (which skips the editor and its failure) among them. The user's prior change is one of:
none, unstaged or staged. The developer may or may not have a stash entry of their own. Every command may fail, the handler's `git stash` included.

**Debian build.** There are two values of `--package-distribution` (none and `testing`). There
are three target files:
- one that sets the distribution;
- one that forces ubuntu on x86_64;
- one with an empty distro and an empty target name.

A missing target file and no target file are also covered. There are two detected distros (debian
buster, ubuntu bionic) and three devices (x86_64, armv7l and `""`). Together these reach every
branch of the precedence: a changelog is rendered with no target and with the `stable`
and `named` targets on both distros, and with the `ubuntu64` target (which forces ubuntu) on x86_64, and the architecture check both passes and raises.

**Substitution.** One-line templates have up to 6 characters, so a line can hold two matches.
Two-line templates have up to 3 characters per line, so a `%KEY%` can straddle a line end. The
alphabet is `%`, a letter, a digit and one other character. The dictionary has one key with a
shorter value, one with a longer value and one with an empty value; a fourth key is missing. A
forward splice goes wrong only when values and keys differ in length, which these cover.

**Sesman.** Every key of both tables is asked for, plus an unknown key with and without `%s`, in
every section name and in one unknown language.

## Fairness and liveness

The programs are single-threaded scripts with bounded `for` loops (TR is a lookup), and nothing waits on
anything else. The only fairness the code justifies is that a running script keeps running.
`Packager` states this as `FairSpec == Spec /\ WF_vars(Next)`. Each git command and build step runs through `os.system` and
returns, with success or failure. `ReleaseCarriedThrough` says that every run ends, and one that
ends without an exception after a committed version update has done the push, tag and tag push
its options asked for. These steps are nested under several flags; keying the tag push on the
wrong flag breaks the property. It does not flag the combinations the script ignores by design:
`--git-push-tag` without `--git-tag`, or `--git-push` with `--no-git-commit`, do nothing.

`FontParser` states no liveness. An encode that stops early cannot reach `done` without
breaking `StreamRefined`, since `FontStream`'s `Finish` needs every record, and its loops run over
fixed ranges.

The remaining modules state no liveness: their runs end in a few fixed steps. Each module has a
`Terminated` stuttering step, which keeps TLC's deadlock check on. The deadlock check then reports
any state where a model is stuck before `done` or `failed`.

## What is not modelled, and why

- PIL rendering, font files and the file system are external. Only their answers and
  exceptions are modelled.
- Packager: the getopt parsing is replaced by the resulting option set. `Packager` and
  `PackagerDebian` are separate models. The first abstracts the build into `Prepare` and `Dpkg`;
  the second starts at line 372. The character-level grammar of `parse_config_line` is abstracted to
  the assignments a target file yields. The template files live outside this repository, so which
  keys each template uses is unknown. `check_matching_version_changelog` and `copy_and_replace`
  are never called.
- Sesman: `parse_conf_file` (module `fileconf`) is not in this repository, so the model uses the
  tables as the constructor builds them. `get()` ignores its `default` argument, but nothing in the
  repository passes one.
- The spec's requirement that a failed encode leave no file that passes for a container
  (section 6) is not checked as its own run. The script writes in place, and the spec says the
  reference does not guarantee it.
- `struct.pack('h')` overflow cannot happen with the script's own 10-pixel font. It is modelled
  for a rasterizer that reports very large sizes, and the header's `FONT_SIZE` is a fixed small
  constant.
- Tags are opaque model values. The remote tag check keeps only the text after the last `/` of
  each ref (line 270), so tag names with a slash are mishandled. That is listed as a hazard with
  no property.

## Plan for later work

1. Compose `Packager` with `PackagerDebian`, with `Prepare` refined by the detailed build steps.
2. Font: a big-endian run of the refinement itself; the big-endian host is so far exercised only by the layout run.
