---------------------------- MODULE MCHijacking ----------------------------
(* Hijacking with a few kinds of hook and few calls.                        *)
EXTENDS Hijacking

ZoneKinds == {"Func", "ZoneStart", "ZoneStop"}
ManyKinds == ZoneKinds \cup {"OutputDbg", "Alloc"}

=============================================================================
