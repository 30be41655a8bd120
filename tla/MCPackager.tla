----------------------------- MODULE MCPackager -----------------------------
(* Names that differ in case and in a zero byte at the end, one that       *)
(* begins with a zero byte, and none; one has a byte above 127.  Values    *)
(* are empty, or messages themselves, after such a byte: one without       *)
(* pairs, then one with a pair.                                            *)
EXTENDS Packager

MCNames == {<<97, 225, 0>>, <<65, 225>>, <<0, 98>>, <<>>}
EmptyPackage == <<0, 1, 0, 0, 0, 0, 0, 0>>
OnePackage == <<98, 0, 7, 0, 0>> \o Int32(1) \o Int32(1) \o Int32(PACK_VERSION) \o Int32(1)
MCValues == {<<>>, <<255>> \o EmptyPackage \o OnePackage}
=============================================================================
