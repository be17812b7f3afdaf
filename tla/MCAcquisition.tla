---------------------------- MODULE MCAcquisition ----------------------------
(* Instances of Acquisition for TLC: one file; and two files of a season,    *)
(* asked for together or one by one, so that an eviction may reach the file  *)
(* the running invocation did not select.                                    *)
EXTENDS Acquisition

OneFile == {{1}}
Selected == {{1}, {2}, {1, 2}}
=============================================================================
