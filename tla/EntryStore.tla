----------------------------- MODULE EntryStore -----------------------------
(***************************************************************************)
(* The entries of the LMDB database byte for byte: several indexes in one  *)
(* database, keys and values as the codecs write them, and the operations  *)
(* of src/writer.rs that find, read, rewrite and delete entries through    *)
(* prefixes of keys.  Every operation is done and committed at once;       *)
(* HannoyIndex has the transactions, the failures and the steps of builds. *)
(***************************************************************************)
EXTENDS Codecs

CONSTANTS Index,         \* indexes of the database, u16
          Item,          \* item ids, u32
          Dims,          \* dimensions of the vectors
          Vector,        \* the vectors a client may store
          NoVector,      \* the item is not in the index
          Level,         \* the levels an item may be drawn for
          BqPrefix,      \* the bytes of "binary quantized "
          Moves,         \* the pairs of distances a client changes between
          FromArroy,     \* indexes that hold what arroy has written
          MaxOps         \* bound: operations

ASSUME VectorAssumption == /\ Vector \subseteq [1 .. Dims -> Float] /\ Vector # {}
                           /\ NoVector \notin [1 .. Dims -> Float]
ASSUME DimsAssumption == Dims \in 0 .. Weight(4) - 1
ASSUME IndexAssumption == Index \subseteq 0 .. Weight(2) - 1 /\ FromArroy \subseteq Index
\* Four bytes have room for an item id, and for the size of a bitmap of all of them.
ASSUME ItemAssumption == /\ Item \subseteq 0 .. Weight(4) - 1
                         /\ 4 + 4 * Cardinality(Item) \in 0 .. Weight(4) - 1
ASSUME LevelAssumption == /\ Level \subseteq 0 .. Radix - 1 /\ 0 \in Level
                          /\ \A l \in Level : 0 .. l \subseteq Level

NotBuilt == [dist |-> "none"]

VARIABLES entries,   \* the database: from keys to values, both sequences of bytes
          dist,      \* the distance of the writer the client uses for each index
          given,     \* the vectors of each index, as a client counts on them
          built,     \* what the last build of each index wrote as metadata
          ops        \* operations so far, to bound them

vars == <<entries, dist, given, built, ops>>

-----------------------------------------------------------------------------
(* LMDB: put, delete, and the keys a prefix iterator meets. *)

Over(f, db) == [b \in DOMAIN f \cup DOMAIN db |-> IF b \in DOMAIN f THEN f[b] ELSE db[b]]

Put(db, k, v) == Over([b \in {KeyBytes(k)} |-> v], db)

PutAll(db, keys, v(_)) == Over([b \in {KeyBytes(k) : k \in keys} |-> v(ReadKey(b))], db)

Drop(db, bytes) == [b \in DOMAIN db \ bytes |-> db[b]]

Has(db, k) == KeyBytes(k) \in DOMAIN db

Under(db, prefix) == {b \in DOMAIN db : IsPrefix(prefix, b)}

\* The order in which an iterator meets them.
Before(a, b) == \E n \in 1 .. Len(a) : /\ SubSeq(a, 1, n - 1) = SubSeq(b, 1, n - 1)
                                       /\ a[n] < b[n]

Marks(x) == Under(entries, PrefixOf(x, UpdatedMode))
Items(x) == Under(entries, PrefixOf(x, ItemMode))

IdOf(b) == ReadKey(b).item

-----------------------------------------------------------------------------
(* What arroy leaves in an index: items as hannoy has them, marks without content, a   *)
(* tree of bitmaps and split planes where hannoy has links, metadata without a height. *)

ArroyVector(d) == FromSlice(CodecOf[d], CHOOSE v \in Vector : TRUE)

ArroyKeys(x) == {ItemKey(x, i) : i \in Item} \cup {UpdatedKey(x, i) : i \in Item}
                \cup {LinksKey(x, 0, 0), LinksKey(x, 1, 0), MetadataKey(x)}

ArroyValue(d, k) ==
    CASE k.mode = ItemMode                      -> ItemNode(d, ArroyVector(d))
      [] k.mode = UpdatedMode                   -> <<>>
      [] k.mode = LinksMode /\ k.item = 0       -> LinksNode(Item)
      [] k.mode = LinksMode /\ k.item # 0       -> <<2>> \o ArroyVector(d)
      [] k.mode = MetadataMode ->
           Front(MetadataBytes([dist |-> d, dims |-> Dims, items |-> Item,
                                eps |-> <<1>>, top |-> 0]))

\* What a codec keeps of a coordinate: its sign, or whether it is positive.
Kept(codec, c) == CASE codec = "f32" -> c
                    [] codec = "binary" -> IF c = One THEN One ELSE Zero
                    [] codec = "binary quantized" -> IF c \in {Zero, One} THEN One ELSE MinusOne

KeptVector(d, v) == IF v = NoVector THEN NoVector
                    ELSE [k \in 1 .. Dims |-> Kept(CodecOf[d], v[k])]

Init == \E d \in Distance :
    /\ dist = [x \in Index |-> d]
    /\ entries = [b \in {KeyBytes(k) : k \in UNION {ArroyKeys(x) : x \in FromArroy}} |->
                    ArroyValue(d, ReadKey(b))]
    /\ given = [x \in Index |-> [i \in Item |->
                  IF x \in FromArroy THEN KeptVector(d, CHOOSE v \in Vector : TRUE)
                                     ELSE NoVector]]
    /\ built = [x \in Index |-> NotBuilt]
    /\ ops = 0

Does(x, db, vs, b) == /\ ops < MaxOps
                      /\ entries' = db
                      /\ given' = [given EXCEPT ![x] = vs]
                      /\ built' = [built EXCEPT ![x] = b]
                      /\ ops' = ops + 1

Marked(db, x, ids, mark) ==
    PutAll(db, {UpdatedKey(x, i) : i \in ids}, LAMBDA k : StatusBytes(mark))

-----------------------------------------------------------------------------
(* Writer::add_item, del_item and clear. *)

Encoded(d, v) == ItemNode(d, FromSlice(CodecOf[d], v))

AddItem(x, i, v) ==
    /\ Does(x, Marked(Put(entries, ItemKey(x, i), Encoded(dist[x], v)), x, {i}, "Updated"),
            [given[x] EXCEPT ![i] = KeptVector(dist[x], v)], built[x])
    /\ UNCHANGED dist

DelItem(x, i) ==
    /\ Has(entries, ItemKey(x, i))
    /\ Does(x, Marked(Drop(entries, {KeyBytes(ItemKey(x, i))}), x, {i}, "Removed"),
            [given[x] EXCEPT ![i] = NoVector], built[x])
    /\ UNCHANGED dist

Clear(x) ==
    /\ Does(x, Drop(entries, Under(entries, PrefixAll(x))), [i \in Item |-> NoVector], NotBuilt)
    /\ UNCHANGED dist

-----------------------------------------------------------------------------
(* Writer::prepare_changing_distance and prepare_arroy_conversion. *)

\* Mutant: a vector that is only quantized is left as it is.
Reencoded_kept(d, nd, b) == IF NameOf[nd] = BqPrefix \o NameOf[d] THEN entries[b]
                            ELSE Encoded(nd, ToVec(CodecOf[d], ReadNode(d, entries[b]).vector))

\* All coordinates of the old vector are encoded anew, those of its padding too.
Reencoded(d, nd, b) == Encoded(nd, ToVec(CodecOf[d], ReadNode(d, entries[b]).vector))

PrepareChangingDistance(x, nd) ==
    LET d    == dist[x]
        keep == NameOf[nd] = BqPrefix \o NameOf[d]
        rest == IF keep THEN entries
                ELSE Drop(entries, Under(entries, PrefixOf(x, LinksMode))
                                   \cup {KeyBytes(MetadataKey(x))})
    IN  /\ <<d, nd>> \in Moves
        /\ Does(x, Marked(Over([b \in Items(x) |-> Reencoded(d, nd, b)], rest),
                          x, {IdOf(b) : b \in Items(x)}, "Updated"),
                [i \in Item |-> KeptVector(nd, given[x][i])],
                IF keep THEN built[x] ELSE NotBuilt)
        /\ dist' = [dist EXCEPT ![x] = nd]

Panics(x, b) == ReadNode(dist[x], entries[b]).kind = "panic"

\* Mutant: everything that can be read as a node is kept.
Survives_nodes(x, b) == ReadNode(dist[x], entries[b]).kind # "error"

\* An entry of the index that the conversion leaves alone.
Survives(x, b) == /\ ReadKey(b).mode = ItemMode
                  /\ ReadNode(dist[x], entries[b]).kind = "item"

OnDiskDims(d) == CeilDiv(Dims, WordSize(CodecOf[d])) * WordSize(CodecOf[d])

HasOnDiskDims(d, node) ==
    node.kind = "item" => VectorLen(CodecOf[d], node.vector) = OnDiskDims(d)

\* Entries that are no items go; it panics on the marks hannoy writes.
PrepareArroyConversion(x) ==
    LET all  == Under(entries, PrefixAll(x))
        kept == {b \in all : Survives(x, b)}
    IN  /\ \A b \in all : ~Panics(x, b)
        /\ \A b \in kept : HasOnDiskDims(dist[x], ReadNode(dist[x], entries[b]))
        /\ Does(x, Marked(Drop(entries, all \ kept), x, {IdOf(b) : b \in kept}, "Updated"),
                given[x], NotBuilt)
        /\ UNCHANGED dist

-----------------------------------------------------------------------------
(* Writer::build, with a construction that draws one level for all it inserts. *)

StoredMetadata(x) ==
    IF Has(entries, MetadataKey(x)) THEN ReadMetadata(entries[KeyBytes(MetadataKey(x))])
    ELSE [items |-> {}, eps |-> <<>>, top |-> 0]

LevelsOf(db, x) == {<<IdOf(b), ReadKey(b).layer>> : b \in Under(db, PrefixOf(x, LinksMode))}

\* The links of the construction: everything on a level is linked to the rest of it.
WithLinks(db, x, keys) ==
    PutAll(db, {LinksKey(x, k[1], k[2]) : k \in keys},
           LAMBDA k : LinksNode({i \in Item : <<i, k.layer>> \in keys} \ {k.item}))

NewMetadata(d, items, keys) ==
    LET top == IF keys = {} THEN 0 ELSE Max({k[2] : k \in keys})
    IN  [dist |-> d, dims |-> Dims, items |-> items, top |-> top,
         eps |-> Ascending({i \in items : <<i, top>> \in keys})]

Build(x, l) ==
    LET all     == {IdOf(b) : b \in Marks(x)}
        removed == {IdOf(b) : b \in {m \in Marks(x) : ReadStatus(entries[m]) = "Removed"}}
        indices == ((all \ removed) \cup StoredMetadata(x).items) \ removed
        rest    == Drop(entries, Marks(x))
        keys    == {k \in LevelsOf(rest, x) : k[1] \in indices}
                   \cup {<<i, h>> : i \in indices \cap all, h \in 0 .. l}
        linked  == WithLinks(Drop(rest, {b \in Under(rest, PrefixOf(x, LinksMode)) :
                                           IdOf(b) \in all \ indices}), x, keys)
        m       == NewMetadata(dist[x], indices, keys)
    IN  /\ \A b \in Marks(x) : ReadStatus(entries[b]) # "error"
        /\ Does(x, Put(Put(linked, MetadataKey(x), MetadataBytes(m)),
                       VersionKey(x), VersionBytes(0, 1, 0)), given[x], m)
        /\ UNCHANGED dist

Next == \E x \in Index :
    \/ \E i \in Item, v \in Vector : AddItem(x, i, v)
    \/ \E i \in Item : DelItem(x, i)
    \/ Clear(x)
    \/ \E nd \in Distance : PrepareChangingDistance(x, nd)
    \/ PrepareArroyConversion(x)
    \/ \E l \in Level : Build(x, l)

Spec == Init /\ [][Next]_vars

-----------------------------------------------------------------------------
(* Properties. *)

OfIndex(db, x) == {<<b, db[b]>> : b \in {k \in DOMAIN db : ReadKey(k).index = x}}

\* Indexes that share a database do not touch each other's entries, whatever their
\* numbers: every loop over a prefix stays within its index.
IndexesApart == [][\E x \in Index : \A y \in Index \ {x} : OfIndex(entries', y) = OfIndex(entries, y)]_vars

\* An iterator over a prefix meets nothing of another kind or index, the ids in ascending
\* order ("The keys should be sorted by LMDB"), and the layers of an id one after the other.
CursorAscends ==
    \A x \in Index, mode \in {UpdatedMode, LinksMode, ItemMode} :
        LET met  == Under(entries, PrefixOf(x, mode))
            keys == {k \in [index : {x}, mode : {mode}, item : Item \cup {0, 1}, layer : Level] :
                       Has(entries, k)}
        IN  /\ met = {KeyBytes(k) : k \in keys}
            /\ \A k, n \in keys :
                 Before(KeyBytes(k), KeyBytes(n)) <=>
                   k.item < n.item \/ (k.item = n.item /\ k.layer < n.layer)

\* Whatever was added, re-encoded and converted, item_vector and the iterators return what
\* the codec keeps of the vector, both by to_vec and by iter.
VectorsReadBack ==
    \A x \in Index, i \in Item :
        IF ~Has(entries, ItemKey(x, i)) THEN given[x][i] = NoVector
        ELSE LET node == ReadNode(dist[x], entries[KeyBytes(ItemKey(x, i))])
             IN  /\ node.kind = "item"
                 /\ Truncated(ToVec(CodecOf[dist[x]], node.vector), Dims) = given[x][i]
                 /\ Truncated(Iter(CodecOf[dist[x]], node.vector), Dims) = given[x][i]

\* Readers get back from the metadata what the last build put there, also when there is
\* no entry point or the height is zero.
MetadataReadsBack ==
    \A x \in Index : built[x] # NotBuilt =>
        ReadMetadata(entries[KeyBytes(MetadataKey(x))]) = built[x]

\* "rewrote all the items for the new Distance format to be able to modify items safely":
\* an item is stored as it would be if it were read and added again.
StoredAsAdded ==
    \A x \in Index, i \in Item : Has(entries, ItemKey(x, i)) =>
        LET stored == entries[KeyBytes(ItemKey(x, i))]
            v      == Truncated(ToVec(CodecOf[dist[x]], ReadNode(dist[x], stored).vector), Dims)
        IN  stored = Encoded(dist[x], v)

\* The conversion leaves of an index its items, unchanged, and a mark for each of them.
ConversionKeepsItems ==
    [][\A x \in Index : PrepareArroyConversion(x) =>
         LET items == {KeyBytes(ItemKey(x, i)) : i \in {j \in Item : given[x][j] # NoVector}}
         IN  OfIndex(entries', x) =
               {<<b, entries[b]>> : b \in items}
               \cup {<<KeyBytes(UpdatedKey(x, IdOf(b))), StatusBytes("Updated")>> : b \in items}]_vars

\* Reading every entry of an index as a node, as the conversion does, panics on marks
\* only: not on metadata, versions, links or what arroy left.
OnlyMarksPanic ==
    \A b \in DOMAIN entries : Panics(ReadKey(b).index, b) => ReadKey(b).mode = UpdatedMode

Num(c) == CASE c = One -> 1 [] c = MinusOne -> -1 [] OTHER -> 0

SumOver(u, v, op(_, _)) == SumFunction([k \in 1 .. Dims |-> op(Num(u[k]), Num(v[k]))])

\* The quantized distances run over whole words, the padding of the last one included.  It
\* adds nothing to the squared euclidean and the manhattan distance, which are those of the
\* quantized vectors.  The hamming distance is not the number of positions that differ but
\* their share of the padded dimensions, and the cosine distance is that of the quantized
\* vectors but for the same divisor: both come out smaller by one factor for all items.
QuantizedDistances ==
    \A x \in Index : CodecOf[dist[x]] # "f32" =>
        \A i, j \in {k \in Item : given[x][k] # NoVector} :
            LET at(n) == ReadNode(dist[x], entries[KeyBytes(ItemKey(x, n))]).vector
                u == given[x][i]
                v == given[x][j]
                padded == OnDiskDims(dist[x])
            IN  IF CodecOf[dist[x]] = "binary"
                THEN HammingDistance(at(i), at(j))
                       = <<SumOver(u, v, LAMBDA p, q : IF p = q THEN 0 ELSE 1), padded>>
                ELSE /\ SquaredEuclidean(at(i), at(j)) = SumOver(u, v, LAMBDA p, q : (p - q) * (p - q))
                     /\ Manhattan(at(i), at(j)) = SumOver(u, v, LAMBDA p, q : IF p = q THEN 0 ELSE 2)
                     /\ CosineDistance(at(i), at(j))
                          = IF Dims = 0 THEN <<0, 1>>
                            ELSE <<Dims - SumOver(u, v, LAMBDA p, q : p * q), 2 * padded>>

\* The vector instructions of another host store the bytes that this one stores, for every
\* number of dimensions; binary quantized, they differ on minus zero.
HostsAgree ==
    \A x \in Index, i \in Item, codec \in Codec \ {"f32"} :
        LET v == given[x][i]
        IN  v # NoVector /\ (codec = "binary quantized" => \A k \in 1 .. Dims : v[k] # NegZero)
              => \A n \in 0 .. Dims : FromSliceNeon(codec, Truncated(v, n)) = FromSlice(codec, Truncated(v, n))
=============================================================================
