---------------------------- MODULE MCSesmanconf ----------------------------
EXTENDS Sesmanconf

\* A key no table holds, with and without a parameter.
MCOtherKeys == {K("no_such_key", 0), K("no_such_key", 1)}
=============================================================================
