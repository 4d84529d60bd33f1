---------------------------- MODULE MCRteLibrary ----------------------------
(* Model-checking instances of the smaller parts, each by itself: the        *)
(* circular receive buffer, the codec of messages, the lists, the creation   *)
(* of rings, the registry of tail queues, the bitmap, the hash function, the *)
(* cycle counter, the atomic counters and the word operations.  The          *)
(* variables of the other parts keep one value.                              *)
EXTENDS CircularReceiveBuffer, RpcCodec, SysQueue, RteRingCreate, RteTailqs,
        RteBitmap, RteJhash, RteTime, RteAtomic, RteWords

VARIABLE part  \* which of them runs; never changes

Parts == {"cbuf", "codec", "lists", "rings", "tailqs", "bitmap", "jhash", "time",
          "atomic", "words"}

libraryVars == <<part, cbufVars, codecVars, listVars, regVars, tailqVars,
                 bitmapVars, key, timeVars, atomicVars, operand>>

\* Two messages one after the other in the same buffer.
MCPayloads == {<< >>, <<9>>, <<200, 8, 7>>}

\* A ring of 4 slots, one of exactly 9 objects (16 slots) with RTS producers,
\* one with contradictory flags, and one whose 16 slots of 8 bytes wrap around
\* UintMod.
MCRequests ==
  {[esize |-> 4, count |-> 4, flags |-> {}],
   [esize |-> 4, count |-> 9, flags |-> {"EXACT_SZ", "MP_RTS_ENQ"}],
   [esize |-> 4, count |-> 4, flags |-> {"SP_ENQ", "MP_HTS_ENQ"}],
   [esize |-> 8, count |-> 9, flags |-> {"EXACT_SZ"}]}

\* Names of which one is the start of another, and one too long to be stored.
MCTailqNames == {<<"a">>, <<"a", "b">>, <<"a", "c">>, <<"a", "b", "c">>}

MCSlabValues == {{}, {0, 1}}

MCMemories == {[i \in 1..36 |-> ((i * k) + (i \div 5)) % 4] : k \in {1, 3}}

-----------------------------------------------------------------------------
\* One initial state of the parts that do not run.
LibraryInit ==
  /\ part \in Parts
  /\ CBufInit /\ RegInit /\ TailqInit /\ BitmapInit
  /\ CodecInit /\ (part # "codec" => base = CHOOSE b \in Bases : TRUE)
  /\ ListInit /\ (part # "lists" => kind = "TAILQ")
  /\ JhashInit /\ (part # "jhash" => key = CHOOSE k \in JhashKeys : k.length = 0)
  /\ TimeInit /\ (part # "time" => tc.cycle_last = 0)
  /\ AtomicInit
  /\ part # "atomic" => use = [width |-> 16, lp64 |-> TRUE, one_core |-> TRUE, for |-> "sum"]
  /\ IF part = "words" THEN WordInit ELSE operand = [a |-> 0, d |-> 1]

LibraryNext ==
  /\ UNCHANGED <<part, key, operand>>
  /\ \/ /\ part = "cbuf" /\ CBufNext
        /\ UNCHANGED <<codecVars, listVars, regVars, tailqVars, bitmapVars, timeVars, atomicVars>>
     \/ /\ part = "codec" /\ CodecNext
        /\ UNCHANGED <<cbufVars, listVars, regVars, tailqVars, bitmapVars, timeVars, atomicVars>>
     \/ /\ part = "lists" /\ ListNext
        /\ UNCHANGED <<cbufVars, codecVars, regVars, tailqVars, bitmapVars, timeVars, atomicVars>>
     \/ /\ part = "rings" /\ RegNext
        /\ UNCHANGED <<cbufVars, codecVars, listVars, tailqVars, bitmapVars, timeVars, atomicVars>>
     \/ /\ part = "tailqs" /\ TailqNext
        /\ UNCHANGED <<cbufVars, codecVars, listVars, regVars, bitmapVars, timeVars, atomicVars>>
     \/ /\ part = "bitmap" /\ BitmapNext
        /\ UNCHANGED <<cbufVars, codecVars, listVars, regVars, tailqVars, timeVars, atomicVars>>
     \/ /\ part = "time" /\ TimeNext
        /\ UNCHANGED <<cbufVars, codecVars, listVars, regVars, tailqVars, bitmapVars, atomicVars>>
     \/ /\ part = "atomic" /\ AtomicNext
        /\ UNCHANGED <<cbufVars, codecVars, listVars, regVars, tailqVars, bitmapVars, timeVars>>

LibrarySpec == LibraryInit /\ [][LibraryNext]_libraryVars

=============================================================================
