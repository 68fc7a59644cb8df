--------------------------- MODULE MCPackagerDebian ---------------------------
EXTENDS PackagerDebian

\* Target files setting the distribution; forcing ubuntu on an x86_64
\* device; and giving an empty distro (falsy, so the detected one stays)
\* with an empty target name (present, so it is kept).
MCTargetFiles ==
  ("stable"  :> ("%PKG_DISTRIBUTION%" :> "stable")) @@
  ("ubuntu64" :> (("%DISTRO%" :> "ubuntu") @@ ("%ARCHI%" :> "x86_64"))) @@
  ("named"   :> (("%DISTRO%" :> "") @@ ("%TARGET_NAME%" :> "")))

MCDistros == {<<"debian", "10", "buster">>, <<"ubuntu", "18.04", "bionic">>}
=============================================================================
