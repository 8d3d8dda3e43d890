------------------------------ MODULE MCBPlusTree ------------------------------
(* A small index: every key has an RID of its own. *)
EXTENDS BPlusTree

Entries == {<<1, "a">>, <<2, "b">>, <<3, "c">>, <<4, "d">>, <<5, "e">>}
================================================================================
