----------------------------- MODULE MCDumpThread -----------------------------
EXTENDS DumpThread

\* The clock stays as it is, or is set back or forth, by whole seconds or not.
MCClockStep == {-4, -3, 0, 2}
=============================================================================
