---------------------------- MODULE MCCuckooHash ----------------------------
EXTENDS CuckooHash, Bitwise, TLC

MCBitXor(a, b) == a ^^ b

Key(id, prim, sig, head) == [id |-> id, prim |-> prim, sig |-> sig, head |-> head]

\* Six keys over four buckets of one entry, so that paths get long: the moves
\* chain through the buckets, four of the keys compete for the buckets 0 to 2,
\* and two of these have the same signature.
PathTable ==
  [entries |-> 4, bucket_entries |-> 1, key_len |-> 13, queue |-> 6,
   extra_flag |-> {},
   keys |-> {Key("a", 0, 1, 1), Key("b", 1, 3, 2), Key("c", 0, 2, 3),
             Key("d", 2, 1, 4), Key("e", 3, 0, 5), Key("f", 0, 1, 6)},
   writers |-> 1, adds |-> 6]

\* Four keys that start in the same bucket, one of which cannot leave it.
CrowdTable ==
  [entries |-> 4, bucket_entries |-> 2, key_len |-> 13, queue |-> 6,
   extra_flag |-> {"MULTI_WRITER_ADD"},
   keys |-> {Key("a", 0, 1, 1), Key("b", 0, 1, 2), Key("c", 0, 0, 3),
             Key("d", 0, 1, 4)},
   writers |-> 2, adds |-> 4]

\* Keys that can only be in bucket 0 and its chain, and one that can move.
SinkKeys == {Key("a", 0, 0, 1), Key("b", 0, 0, 2), Key("c", 0, 0, 3),
             Key("d", 0, 0, 4), Key("e", 0, 1, 5)}
SinkTable ==
  [entries |-> 2, bucket_entries |-> 1, key_len |-> 13, queue |-> 4,
   extra_flag |-> {"MULTI_WRITER_ADD", "EXT_TABLE"},
   keys |-> SinkKeys, writers |-> 2, adds |-> 4]
ChainTable ==
  [entries |-> 3, bucket_entries |-> 2, key_len |-> 13, queue |-> 8,
   extra_flag |-> {"EXT_TABLE"},
   keys |-> SinkKeys \cup {Key("f", 0, 0, 6)}, writers |-> 1, adds |-> 6]

\* Keys with the same first eight bytes: "b" has the hash of "a" as well, "c" its
\* primary bucket only, and "d" starts in its secondary one.
TwinTable ==
  [entries |-> 3, bucket_entries |-> 2, key_len |-> 13, queue |-> 6,
   extra_flag |-> {"MULTI_WRITER_ADD"},
   keys |-> {Key("a", 0, 1, 1), Key("b", 0, 1, 1), Key("c", 0, 0, 1), Key("d", 1, 1, 1)},
   writers |-> 2, adds |-> 4]

\* Parameters that are refused, and so no table.
RefusedTables == {[PathTable EXCEPT !.extra_flag = {"RW_CONCURRENCY", "RW_CONCURRENCY_LF"}]}

AllTables == RefusedTables \cup {PathTable, CrowdTable, SinkTable, ChainTable, TwinTable}
SharedPathTables == {[PathTable EXCEPT !.writers = 2, !.adds = 2,
                                        !.extra_flag = {"MULTI_WRITER_ADD"}]}

WriterSymmetry == Permutations(Writers)

=============================================================================
