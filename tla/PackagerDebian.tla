---------------------------- MODULE PackagerDebian ----------------------------
(***************************************************************************)
(* The --build-package half of packager.py (lines 372-454): the version    *)
(* check, the debian/ directory, the target parameter file, the distro and *)
(* architecture detection, and the debian/ files rendered from templates   *)
(* with opts.config, ending in dpkg-buildpackage.  Packager.tla abstracts  *)
(* all of it into its Prepare and Dpkg steps; this module keeps the config *)
(* dictionary, whose values come from four places: the class defaults, the *)
(* command line, the target file and the detected distro.                  *)
(*                                                                         *)
(* A rendered file is abstracted to the config it was rendered with;       *)
(* DictSubst checks the substitution itself.  Config values are strings,   *)
(* "" the falsy one.                                                       *)
(***************************************************************************)
EXTENDS Naturals, Sequences, TLC

CONSTANTS
  DistOptions,   \* values of --package-distribution, or "none"
  TargetFiles,   \* a target name to what parse_target_param reads from its file
  Distros,       \* (distro, release, codename) triples distroinfo may return
  DeviceArchis   \* what platform.machine() may return, "" included

VARIABLES
  opts,      \* [dist, forceBuild, debug, forceTarget]: the command line
  config,    \* opts.config: a function from keys to strings
  distro,    \* the local distro, distro_codename of lines 389-396
  codename,
  device,    \* device_archi
  debian,    \* debian/: a file name to the config it was rendered with
  pc

vars == <<opts, config, distro, codename, device, debian, pc>>

Missing == "missing"   \* a --force-target whose file does not exist

Put(f, key, v) == [k \in DOMAIN f \cup {key} |-> IF k = key THEN v ELSE f[k]]

\* dict.get(key) is truthy
Truthy(f, key) == key \in DOMAIN f /\ f[key] # ""

\* class opts: the config defaults (the paths abstracted to one value).
Defaults ==
  [k \in {"%PREFIX%", "%ETC_PREFIX%", "%CERT_PREFIX%", "%METRICS_PATH%",
          "%RECORD_PATH%", "%RECORD_TMP_PATH%", "%PKG_DISTRIBUTION%",
          "%ARCHI%", "%REDEMPTION_USER%"} |->
     CASE k = "%PKG_DISTRIBUTION%" -> "unstable"
       [] k = "%ARCHI%"            -> "any"
       [] k = "%REDEMPTION_USER%"  -> ""
       [] OTHER                    -> "path"]

\* The target file filling in only the keys the config does not hold yet.
ParseTargetKeepExisting(cfg, file) ==
  [k \in DOMAIN cfg \cup DOMAIN file |-> IF k \in DOMAIN cfg THEN cfg[k] ELSE file[k]]

\* parse_target_param: every "KEY = value" line of the file sets
\* config["%KEY%"], a later line overriding an earlier one.
ParseTarget(cfg, file) == [k \in DOMAIN cfg \cup DOMAIN file |->
                             IF k \in DOMAIN file THEN file[k] ELSE cfg[k]]

\* get_device_architecture: platform.machine(), which raises when empty.
DeviceFound(a) == a # ""

\* archi_to_control_archi
ArchiToControl(a) == CASE a \in {"x86_64", "amd64"} -> "amd64"
                       [] a \in {"i686", "i386"}    -> "i386"
                       [] OTHER                     -> "any"

Raise == pc' = "failed"

\* copy_and_replace_dict_file: the file is written with the config as it
\* is after the step's own assignments.
Render(f, cfg) == debian' = (f :> cfg) @@ debian

Init ==
  /\ opts \in [dist : DistOptions, forceBuild : BOOLEAN, debug : BOOLEAN,
               forceTarget : {"none", Missing} \cup DOMAIN TargetFiles]
  /\ config = IF opts.dist = "none" THEN Defaults
              ELSE Put(Defaults, "%PKG_DISTRIBUTION%", opts.dist)
  /\ distro = "none" /\ codename = "none" /\ device = "none"
  /\ debian = <<>>
  /\ pc = "version"

\* opts.tag = get_current_tag_from_version_file(); the describe check
\* compares str with bytes and raises unless --force-build.
VersionCheck ==
  /\ pc = "version"
  /\ IF opts.forceBuild THEN pc' = "mkdir" ELSE Raise
  /\ UNCHANGED <<opts, config, distro, codename, device, debian>>

\* os.mkdir("debian") fails when the earlier rmtree left it in place.
Mkdir ==
  /\ pc = "mkdir"
  /\ pc' \in {"target", "failed"}
  /\ UNCHANGED <<opts, config, distro, codename, device, debian>>

ReadTarget ==
  /\ pc = "target"
  /\ CASE opts.forceTarget = "none"   -> pc' = "distro" /\ UNCHANGED config
       [] opts.forceTarget = Missing  -> Raise /\ UNCHANGED config
       [] OTHER -> /\ config' = ParseTarget(config, TargetFiles[opts.forceTarget])
                   /\ pc' = "distro"
  /\ UNCHANGED <<opts, distro, codename, device, debian>>

\* distroinfo.get_distro(), each part overridden by a truthy config value.
CheckDistro ==
  /\ pc = "distro"
  /\ \E d \in Distros :
       /\ distro' = IF Truthy(config, "%DISTRO%") THEN config["%DISTRO%"]
                    ELSE d[1]
       /\ codename' = IF Truthy(config, "%DISTRO_CODENAME%")
                      THEN config["%DISTRO_CODENAME%"] ELSE d[3]
  /\ pc' = "archi"
  /\ UNCHANGED <<opts, config, device, debian>>

\* An unknown device raises; the target's ARCHI must be "any"
\* or the device's, and is then replaced by its control-file name.
CheckArchi ==
  /\ pc = "archi"
  /\ \E a \in DeviceArchis :
       /\ device' = a
       /\ IF DeviceFound(a) /\ (config["%ARCHI%"] = "any" \/ a = config["%ARCHI%"])
          THEN /\ config' = Put(config, "%ARCHI%", ArchiToControl(a))
               /\ pc' = "install"
          ELSE Raise /\ UNCHANGED config
  /\ UNCHANGED <<opts, distro, codename, debian>>

WriteInstall ==
  /\ pc = "install"
  /\ Render("redemption.install", config)
  /\ pc' = "postinst"
  /\ UNCHANGED <<opts, config, distro, codename, device>>

\* An IOError with errno 2 (no such template) is ignored, any other raised.
WritePostinst ==
  /\ pc = "postinst"
  /\ \/ Render("redemption.postinst", config) /\ pc' = "rules"
     \/ UNCHANGED debian /\ pc' = "rules"
     \/ UNCHANGED debian /\ Raise
  /\ UNCHANGED <<opts, config, distro, codename, device>>

WriteRules ==
  /\ pc = "rules"
  /\ config' = IF opts.debug THEN Put(config, "%DEBUG_OPT%", "debug")
               ELSE config
  /\ Render("rules", config')
  /\ pc' = "changelog"
  /\ UNCHANGED <<opts, distro, codename, device>>

\* On ubuntu the target name is "+codename"; on any other distro the
\* codename becomes the package distribution.  A TARGET_NAME already in
\* the config, even "", is kept.
WriteChangelog ==
  /\ pc = "changelog"
  /\ LET c1 == IF distro = "ubuntu" THEN config
               ELSE Put(config, "%PKG_DISTRIBUTION%", codename)
         target == IF distro = "ubuntu" THEN "+" \o codename ELSE ""
         c2 == IF "%TARGET_NAME%" \in DOMAIN c1 THEN c1
               ELSE Put(c1, "%TARGET_NAME%", target)
     IN /\ config' = Put(c2, "%REDEMPTION_VERSION%", "tag")
        /\ Render("changelog", config')
  /\ pc' = "control"
  /\ UNCHANGED <<opts, distro, codename, device>>

\* control is rendered; compat and docs/copyright are copied as they are.
WriteControl ==
  /\ pc = "control"
  /\ debian' = ("control" :> config) @@ ("compat" :> <<>>)
                  @@ ("copyright" :> <<>>) @@ debian
  /\ pc' = "dpkg"
  /\ UNCHANGED <<opts, config, distro, codename, device>>

Dpkg ==
  /\ pc = "dpkg"
  /\ pc' \in {"done", "failed"}
  /\ UNCHANGED <<opts, config, distro, codename, device, debian>>

Terminated ==
  /\ pc \in {"done", "failed"}
  /\ UNCHANGED vars

Next ==
  \/ VersionCheck \/ Mkdir \/ ReadTarget \/ CheckDistro \/ CheckArchi
  \/ WriteInstall \/ WritePostinst \/ WriteRules \/ WriteChangelog
  \/ WriteControl \/ Dpkg \/ Terminated

Spec == Init /\ [][Next]_vars

-----------------------------------------------------------------------------

\* What the target file, if any, sets for key.
TargetSets(key) ==
  /\ opts.forceTarget \notin {"none", Missing}
  /\ key \in DOMAIN TargetFiles[opts.forceTarget]

TargetValue(key) == TargetFiles[opts.forceTarget][key]

\* The distribution and target name written into debian/changelog follow
\* one precedence over the four places they come from: on a distro other
\* than ubuntu the codename, else the target file's value, else the
\* --package-distribution option, else the default "unstable"; the target
\* name is the target file's value, even "", else "+codename" on ubuntu.
ChangelogPrecedence ==
  "changelog" \in DOMAIN debian =>
    LET cl == debian["changelog"] IN
    /\ cl["%PKG_DISTRIBUTION%"] =
         CASE distro # "ubuntu"              -> codename
           [] TargetSets("%PKG_DISTRIBUTION%") ->
                TargetValue("%PKG_DISTRIBUTION%")
           [] opts.dist # "none"             -> opts.dist
           [] OTHER                          -> "unstable"
    /\ cl["%TARGET_NAME%"] =
         CASE TargetSets("%TARGET_NAME%") -> TargetValue("%TARGET_NAME%")
           [] distro = "ubuntu"          -> "+" \o codename
           [] OTHER                      -> ""

\* The usage text (line 18) offers --package-distribution name for a
\* build: the distribution written into debian/changelog is the one given.
DistributionHonoured ==
  ("changelog" \in DOMAIN debian /\ opts.dist # "none")
    => debian["changelog"]["%PKG_DISTRIBUTION%"] = opts.dist
=============================================================================
