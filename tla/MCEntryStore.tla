---------------------------- MODULE MCEntryStore ----------------------------
(* EntryStore on bytes of two bits: an item of five dimensions takes two words. *)
EXTENDS EntryStore

MCDistance == {"cosine", "bq cosine", "hamming"}
MCNameOf == [d \in MCDistance |-> CASE d = "cosine" -> <<3>> [] d = "bq cosine" -> <<2, 3>>
                                    [] d = "hamming" -> <<3, 3>>]
MCCodecOf == [d \in MCDistance |-> CASE d = "cosine" -> "f32" [] d = "hamming" -> "binary"
                                     [] d = "bq cosine" -> "binary quantized"]
MCHeaderBytes == [d \in MCDistance |-> IF d = "hamming" THEN 8 ELSE 4]
MCBqPrefix == <<2>>

MCVector == {<<One, Zero, MinusOne, NegZero, One>>, <<MinusOne, One, One, Zero, NegZero>>}

\* Changes that do not take the padding of a word for coordinates.
MCMoves == {<<"cosine", "bq cosine">>, <<"cosine", "hamming">>, <<"bq cosine", "hamming">>}

\* All of them.
MCAllMoves == {m \in MCDistance \X MCDistance : m[1] # m[2]}
=============================================================================
