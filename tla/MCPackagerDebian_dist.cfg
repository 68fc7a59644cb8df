\* On a distro other than ubuntu the codename replaces --package-distribution.
CONSTANTS
  DistOptions = {"none", "testing"}
  TargetFiles <- MCTargetFiles
  Distros <- MCDistros
  DeviceArchis = {"x86_64", "armv7l", ""}
SPECIFICATION Spec
INVARIANT DistributionHonoured
