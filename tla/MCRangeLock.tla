---------------------------- MODULE MCRangeLock ----------------------------
(* Requests and bounds for checking RangeLock with TLC.                    *)
EXTENDS RangeLock

Req(op, off, len) == [op |-> op, off |-> off, len |-> len]

(* Readers that overlap in every way, one past the last offset; a writer,  *)
(* an appender and a truncation of a file that starts empty.               *)
FileReqs == {Req("read", 0, 3), Req("read", 1, 1), Req("read", 1, 2),
             Req("read", 2, UINT64_MAX), Req("write", 1, 2),
             Req("append", 0, 1), Req("trunc", 0, UINT64_MAX)}
=============================================================================
