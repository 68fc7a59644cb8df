------------------------------ MODULE Packager ------------------------------
(***************************************************************************)
(* src/redemption/tools/packager.py: the release script.  With            *)
(* --update-version it checks the work tree is clean and the tag is new,   *)
(* rewrites include/main/version.hpp (and the changelog template with      *)
(* --add-changelog), commits, pushes and tags; with --build-package it     *)
(* checks HEAD is tagged with the version, fills debian/ and runs          *)
(* dpkg-buildpackage.  Any exception goes to the handler of lines 456-470, *)
(* which throws away the work tree's differences with git stash followed   *)
(* by git stash drop when the run had checked the tree was clean.          *)
(*                                                                         *)
(* The repository is three tracked files in the work tree wt, the index    *)
(* idx and the HEAD commit head: version.hpp (holding a tag name), the     *)
(* changelog template, and "other", a file the developer may have changed  *)
(* before the run.  Python 3 values keep their type: git's output is bytes *)
(* and the tag name a str, and the two never compare equal.  Every git     *)
(* command run through try_system may fail, and so may the file copies of  *)
(* the build; the text of the debian/ files is left out.                   *)
(***************************************************************************)
EXTENDS Naturals, FiniteSets

CONSTANTS
  CurTag,   \* the VERSION of include/main/version.hpp at the start
  NewTag    \* the argument of --update-version

ASSUME CurTag # NewTag

Tags == {CurTag, NewTag}
Files == {"version", "changelog", "other"}

\* Options the getopt loop (lines 73-101) can leave set in opts; git_commit
\* is on unless --no-git-commit is given.
Flags == {"update", "build", "force_build", "add_changelog", "git_commit",
          "git_push", "git_tag", "git_push_tag", "force_target",
          "no_entry_changelog"}

\* Python 3 values: a str and a bytes object are never equal.
Str(t) == <<"str", t>>
Bytes(t) == <<"bytes", t>>
None == <<"None">>

VARIABLES
  pc,          \* the statement the script is at
  opts,        \* the options set on the command line
  wt, idx, head, \* each file's content in the work tree, the index, HEAD
  headTagged,  \* HEAD carries the tag named in its version.hpp
  localTags, remoteTags,
  pushed,      \* the script's commit reached origin
  userStash,   \* the developer has a stash entry of their own
  removeDiff,  \* remove_diff (line 342)
  tag,         \* opts.tag once the build reads it back (line 372)
  debian,      \* the debian/ directory exists
  built,       \* dpkg-buildpackage succeeded
  err          \* the failure that sent the script to the handler

vars == <<pc, opts, wt, idx, head, headTagged, localTags, remoteTags,
          pushed, userStash, removeDiff, tag, debian, built, err>>

repo == <<wt, idx, head, headTagged, localTags, remoteTags, pushed, userStash>>

UpdateTag == "update" \in opts
Goto(l) == pc' = l
Raise(e) == pc' = "except" /\ err' = e

\* Where the script goes once the update part is over (line 371).
AfterUpdate == IF "build" \in opts THEN "build" ELSE "done"

\* Lines 104-113: print usage and exit(1) unless there is work to do, then
\* remove any debian/ directory left from an earlier run.
Start ==
  /\ pc = "start"
  /\ IF "build" \notin opts /\ ~UpdateTag
     THEN Goto("usage") /\ UNCHANGED debian
     ELSE Goto("check_clean") /\ debian' = FALSE
  /\ UNCHANGED <<opts, repo, removeDiff, tag, built, err>>

\* check_uncommited_changes (lines 247-256): git diff --shortstat compares
\* the work tree with the index; staged changes pass unseen.
Dirty == wt # idx

\* Lines 344-347.
CheckClean ==
  /\ pc = "check_clean"
  /\ IF UpdateTag \/ ("build" \in opts /\ "force_build" \notin opts)
     THEN IF Dirty
          THEN Raise("uncommitted") /\ UNCHANGED removeDiff
          ELSE /\ removeDiff' = TRUE
               /\ Goto(IF UpdateTag THEN "check_tag" ELSE "build")
               /\ UNCHANGED err
     ELSE Goto(AfterUpdate) /\ UNCHANGED <<removeDiff, err>>
  /\ UNCHANGED <<opts, repo, tag, debian, built>>

\* check_new_tag_version_with_local_and_remote_tags (lines 260-278): the
\* local list holds bytes (one per line, and the empty last line) and is
\* searched for the str tag; the remote list is searched for its encoding.
LocalTagList == {Bytes(t) : t \in localTags} \cup {Bytes("")}
RemoteTagList == {Bytes(t) : t \in remoteTags} \cup {Bytes("")}

CheckTag ==
  /\ pc = "check_tag"
  /\ CASE Str(NewTag) \in LocalTagList  -> Raise("tag_local")
       [] Bytes(NewTag) \in RemoteTagList -> Raise("tag_remote")
       [] OTHER -> Goto("changelog") /\ UNCHANGED err
  /\ UNCHANGED <<opts, repo, removeDiff, tag, debian, built>>

\* Lines 354-357: add_current_tag_changelog_file rewrites the template,
\* then update_changelog_template, unless --no-entry-changelog, runs the
\* editor and reads its temporary file, whose open may raise.
Changelog ==
  /\ pc = "changelog"
  /\ IF "add_changelog" \in opts
     THEN /\ wt' = [wt EXCEPT !["changelog"] = "edited"]
          /\ \/ Goto("version") /\ UNCHANGED err
             \/ "no_entry_changelog" \notin opts /\ Raise("editor")
     ELSE Goto("version") /\ UNCHANGED <<wt, err>>
  /\ UNCHANGED <<opts, idx, head, headTagged, localTags, remoteTags, pushed,
                 userStash, removeDiff, tag, debian, built>>

\* update_version_file (lines 216-221, called at 358).
UpdateVersion ==
  /\ pc = "version"
  /\ wt' = [wt EXCEPT !["version"] = NewTag]
  /\ Goto(IF "git_commit" \in opts THEN "commit" ELSE AfterUpdate)
  /\ UNCHANGED <<opts, idx, head, headTagged, localTags, remoteTags, pushed,
                 userStash, removeDiff, tag, debian, built, err>>

\* Mutant: git commit without -a commits only what the index holds.
CommitIndexOnly ==
  /\ pc = "commit"
  /\ \/ /\ head' = idx /\ idx' = idx
        /\ headTagged' = FALSE
        /\ Goto(IF "git_push" \in opts THEN "push"
                ELSE IF "git_tag" \in opts THEN "tag" ELSE AfterUpdate)
        /\ UNCHANGED err
     \/ Raise("commit") /\ UNCHANGED <<head, idx, headTagged>>
  /\ UNCHANGED <<opts, wt, localTags, remoteTags, pushed, removeDiff, tag,
                 userStash, debian, built>>

\* git commit -am (line 362) commits every tracked file as it is in the
\* work tree, together with whatever the index already held.
Commit ==
  /\ pc = "commit"
  /\ \/ /\ head' = wt /\ idx' = wt
        /\ headTagged' = FALSE
        /\ Goto(IF "git_push" \in opts THEN "push"
                ELSE IF "git_tag" \in opts THEN "tag" ELSE AfterUpdate)
        /\ UNCHANGED err
     \/ Raise("commit") /\ UNCHANGED <<head, idx, headTagged>>
  /\ UNCHANGED <<opts, wt, localTags, remoteTags, pushed, removeDiff, tag,
                 userStash, debian, built>>

\* git push (line 364).
Push ==
  /\ pc = "push"
  /\ \/ /\ pushed' = TRUE
        /\ Goto(IF "git_tag" \in opts THEN "tag" ELSE AfterUpdate)
        /\ UNCHANGED err
     \/ Raise("push") /\ UNCHANGED pushed
  /\ UNCHANGED <<opts, wt, idx, head, headTagged, localTags, remoteTags,
                 userStash, removeDiff, tag, debian, built>>

\* Mutant: the tag push is keyed on --git-push instead of --git-push-tag.
TagHeadPushFlag ==
  /\ pc = "tag"
  /\ \/ /\ NewTag \notin localTags
        /\ localTags' = localTags \cup {NewTag}
        /\ headTagged' = TRUE
        /\ Goto(IF "git_push" \in opts THEN "push_tag" ELSE AfterUpdate)
        /\ UNCHANGED err
     \/ Raise("tag") /\ UNCHANGED <<localTags, headTagged>>
  /\ UNCHANGED <<opts, wt, idx, head, remoteTags, pushed, removeDiff, tag,
                 userStash, debian, built>>

\* git tag (line 366) fails when the tag exists, and may fail for any
\* other reason.
TagHead ==
  /\ pc = "tag"
  /\ \/ /\ NewTag \notin localTags
        /\ localTags' = localTags \cup {NewTag}
        /\ headTagged' = TRUE
        /\ Goto(IF "git_push_tag" \in opts THEN "push_tag" ELSE AfterUpdate)
        /\ UNCHANGED err
     \/ Raise("tag") /\ UNCHANGED <<localTags, headTagged>>
  /\ UNCHANGED <<opts, wt, idx, head, remoteTags, pushed, removeDiff, tag,
                 userStash, debian, built>>

\* git push --tags (line 368).
PushTag ==
  /\ pc = "push_tag"
  /\ \/ /\ remoteTags' = remoteTags \cup localTags
        /\ Goto(AfterUpdate)
        /\ UNCHANGED err
     \/ Raise("push_tag") /\ UNCHANGED remoteTags
  /\ UNCHANGED <<opts, wt, idx, head, headTagged, localTags, pushed,
                 userStash, removeDiff, tag, debian, built>>

\* Mutant: the version is read with the file opened in binary mode.
GetVersionBytes ==
  /\ pc = "build"
  /\ tag' = Bytes(wt["version"])
  /\ Goto("version_check")
  /\ UNCHANGED <<opts, repo, removeDiff, debian, built, err>>

\* get_current_tag_from_version_file (lines 187-201, called at 372).
GetVersion ==
  /\ pc = "build"
  /\ tag' = Str(wt["version"])
  /\ Goto("version_check")
  /\ UNCHANGED <<opts, repo, removeDiff, debian, built, err>>

\* What git describe --tags prints on its first line, as bytes.
Describe == IF headTagged THEN Bytes(head["version"]) ELSE Bytes("describe-ahead")

\* check_last_version_commited_match_current_version (lines 309-319,
\* called at 373-374) compares the str tag with git's bytes output.
VersionCheck ==
  /\ pc = "version_check"
  /\ IF "force_build" \notin opts /\ tag # Describe
     THEN Raise("head_mismatch")
     ELSE Goto("prepare") /\ UNCHANGED err
  /\ UNCHANGED <<opts, repo, removeDiff, tag, debian, built>>

\* Lines 376-449: create debian/ and fill it.  The target parameter file of
\* --force-target may be missing (386), its ARCHI may not match the device
\* (402), and a template or the copyright may fail to be copied.
Prepare ==
  /\ pc = "prepare"
  /\ debian' = TRUE
  /\ \/ Goto("dpkg") /\ UNCHANGED err
     \/ "force_target" \in opts /\ Raise("target")
     \/ Raise("copy")
  /\ UNCHANGED <<opts, repo, removeDiff, tag, built>>

\* dpkg-buildpackage (line 454).
Dpkg ==
  /\ pc = "dpkg"
  /\ \/ built' = TRUE /\ Goto("done") /\ UNCHANGED err
     \/ Raise("dpkg") /\ UNCHANGED built
  /\ UNCHANGED <<opts, repo, removeDiff, tag, debian>>

\* Lines 456-470: when remove_diff is set and git diff --shortstat shows a
\* difference, the handler runs git stash, then git stash drop, through
\* os.system, whose exit status it ignores; then exit(-1).  A stash that
\* works saves work tree and index and resets both to HEAD, and the drop
\* throws the saved state away.  A stash that fails (no user identity, a
\* locked index) changes nothing, and the drop then throws away the newest
\* entry there is: the developer's own, if any.  (A drop that fails after
\* a good stash only leaves the script's entry behind.)
ExceptHandler ==
  /\ pc = "except"
  /\ IF removeDiff /\ Dirty
     THEN \/ wt' = head /\ idx' = head /\ UNCHANGED userStash
          \/ userStash' = FALSE /\ UNCHANGED <<wt, idx>>
     ELSE UNCHANGED <<wt, idx, userStash>>
  /\ Goto("failed")
  /\ UNCHANGED <<opts, head, headTagged, localTags, remoteTags, pushed,
                 removeDiff, tag, debian, built, err>>

Terminated ==
  /\ pc \in {"usage", "done", "failed"}
  /\ UNCHANGED vars

\* The developer's change to "other" may be absent, in the work tree only,
\* or staged; HEAD may or may not carry its version's tag; either tag may
\* already exist locally or on origin.
Init ==
  /\ pc = "start"
  /\ opts \in SUBSET Flags
  /\ head = [f \in Files |-> IF f = "version" THEN CurTag ELSE "base"]
  /\ \E change \in {"none", "unstaged", "staged"} :
       /\ wt = [head EXCEPT !["other"] = IF change = "none" THEN "base" ELSE "user"]
       /\ idx = [head EXCEPT !["other"] = IF change = "staged" THEN "user" ELSE "base"]
  /\ headTagged \in BOOLEAN
  /\ userStash \in BOOLEAN
  /\ localTags \in {{CurTag}, Tags}
  /\ remoteTags \in {{CurTag}, Tags}
  /\ pushed = FALSE
  /\ removeDiff = FALSE
  /\ tag = None
  /\ debian \in BOOLEAN
  /\ built = FALSE
  /\ err = "none"

Next ==
  \/ Start \/ CheckClean \/ CheckTag \/ Changelog \/ UpdateVersion
  \/ Commit \/ Push \/ TagHead \/ PushTag
  \/ GetVersion \/ VersionCheck \/ Prepare \/ Dpkg
  \/ ExceptHandler \/ Terminated

Spec == Init /\ [][Next]_vars

\* The script is a single thread whose git commands and build steps each
\* return, with success or failure: a step it can take is eventually taken.
FairSpec == Spec /\ WF_vars(Next)

-----------------------------------------------------------------------------
(* Properties *)

\* Every variable holds a value of its type; in particular opts.tag is a
\* str, the type the version check compares against git's output.
TypeOK ==
  /\ opts \subseteq Flags
  /\ \A f \in Files : wt[f] \in Tags \cup {"base", "edited", "user"}
  /\ localTags \subseteq Tags /\ remoteTags \subseteq Tags
  /\ tag \in {Str(t) : t \in Tags} \cup {None}
  /\ removeDiff \in BOOLEAN /\ built \in BOOLEAN /\ debian \in BOOLEAN

\* Line 267: a run whose tag already exists locally stops before it
\* commits: no commit is made while NewTag is a local tag.
NoCommitOverExistingTag ==
  [][(NewTag \in localTags) => (head' = head)]_vars

\* Lines 309-319: the build is refused only when HEAD is not at the tag of
\* the version in version.hpp.
VersionCheckAcceptsTaggedHead ==
  err = "head_mismatch" => ~headTagged

\* The developer's own change to "other", made before the run, is never
\* lost: it stays in the work tree, the index or a commit; and neither is
\* a stash entry of theirs, which the handler's git stash drop must not
\* reach.
UserWork == "user" \in {wt["other"], idx["other"], head["other"]}

UserWorkKept == [][/\ UserWork => UserWork'
                   /\ userStash => userStash']_vars

\* Lines 362-368 publish in steps: when git push has put the version commit
\* on origin and git tag or git push --tags then fails, the handler leaves
\* HEAD at that commit, carrying the new version, with nothing left to
\* stash, so the release can be finished by tagging by hand.
HalfPublishedResumable ==
  (pc = "failed" /\ pushed) =>
    /\ head["version"] = NewTag
    /\ wt = head /\ idx = head

\* What the options ask lines 361-368 to publish: the version commit as
\* HEAD, on origin with --git-push, tagged with --git-tag, and the tag on
\* origin with --git-tag --git-push-tag.
Published ==
  /\ head["version"] = NewTag
  /\ "git_push" \in opts => pushed
  /\ "git_tag" \in opts => headTagged /\ NewTag \in localTags
  /\ {"git_tag", "git_push_tag"} \subseteq opts => NewTag \in remoteTags

\* Every run ends, and one that ends without an exception after updating
\* the version with git commits on has carried out every publishing step
\* its options asked for: none of the nested flags of lines 361-368 is
\* skipped on the way to the build or the end of the script.
ReleaseCarriedThrough ==
  <>(\/ pc \in {"usage", "failed"}
     \/ pc = "done" /\ (UpdateTag /\ "git_commit" \in opts => Published))
=============================================================================
