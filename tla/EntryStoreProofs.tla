-------------------------- MODULE EntryStoreProofs --------------------------
(***************************************************************************)
(* The entries of the database, for any number of indexes, items, distances*)
(* and levels and bytes of any width: indexes do not touch each other,     *)
(* iterators meet what they look for, in order, and every index holds byte *)
(* for byte what its clients and its builds gave it.                       *)
(***************************************************************************)
EXTENDS EntryStore, CodecsProofs

-----------------------------------------------------------------------------
(* The keys there are. *)

\* Marks and items have the ids of items and no layer; links may be arroy's, of its trees.
KeyOfIndex == [index : Index, mode : MetadataMode .. ItemMode,
               item : Item \cup {0, 1}, layer : Level]

StoredKey == {k \in KeyOfIndex :
                k.mode \in {UpdatedMode, ItemMode} => k.item \in Item /\ k.layer = 0}

StoredBytes == {KeyBytes(k) : k \in StoredKey}

\* They fit into their bytes.
LEMMA StoredFits == StoredKey \subseteq KeyOfIndex /\ KeyOfIndex \subseteq AnyKey
<1>1. 0 \in 0 .. Weight(4) - 1 /\ 1 \in 0 .. Weight(4) - 1
  <2> DEFINE w == Weight(3)
  <2>1. w \in Nat \ {0} /\ Weight(3 + 1) = Radix * w /\ Radix \in Nat /\ Radix >= 4 BY Weights
  <2> HIDE DEF w
  <2>2. Radix * w >= 4 BY <2>1
  <2>3. Weight(4) \in Nat /\ Weight(4) >= 4 BY <2>1, <2>2, 3 + 1 = 4
  <2> QED BY <2>3
<1>2. /\ Index \subseteq 0 .. Weight(2) - 1
      /\ Item \subseteq 0 .. Weight(4) - 1
      /\ Level \subseteq 0 .. Radix - 1
  BY IndexAssumption, ItemAssumption, LevelAssumption
<1> QED BY <1>1, <1>2 DEF StoredKey, KeyOfIndex, AnyKey

\* From the bytes of a key there is no other way back.
LEMMA StoredReadsBack ==
    /\ \A k \in StoredKey : KeyBytes(k) \in StoredBytes /\ ReadKey(KeyBytes(k)) = k
    /\ \A b \in StoredBytes : ReadKey(b) \in StoredKey /\ KeyBytes(ReadKey(b)) = b
<1>1. \A k \in StoredKey : ReadKey(KeyBytes(k)) = k BY StoredFits, KeyReadsBack
<1> QED BY <1>1 DEF StoredBytes

\* The keys that operations write are such keys.
LEMMA KeysFit ==
    ASSUME NEW x \in Index
    PROVE  /\ MetadataKey(x) \in StoredKey /\ VersionKey(x) \in StoredKey
           /\ \A i \in Item : UpdatedKey(x, i) \in StoredKey /\ ItemKey(x, i) \in StoredKey
           /\ \A i \in Item \cup {0, 1}, l \in Level : LinksKey(x, i, l) \in StoredKey
BY LevelAssumption DEF StoredKey, KeyOfIndex, MetadataKey, VersionKey, UpdatedKey, ItemKey, LinksKey, Key,
   MetadataMode, UpdatedMode, LinksMode, ItemMode

\* Prefix iterators meet the keys of their index, and of their kind.
LEMMA Meets ==
    ASSUME NEW db, DOMAIN db \subseteq StoredBytes, NEW x \in Index
    PROVE  /\ Under(db, PrefixAll(x)) = {b \in DOMAIN db : ReadKey(b).index = x}
           /\ \A mode \in MetadataMode .. ItemMode :
                Under(db, PrefixOf(x, mode))
                  = {b \in DOMAIN db : ReadKey(b).index = x /\ ReadKey(b).mode = mode}
<1>1. x \in 0 .. Weight(2) - 1 BY IndexAssumption
<1>2. ASSUME NEW b \in DOMAIN db PROVE ReadKey(b) \in AnyKey /\ b = KeyBytes(ReadKey(b))
  BY StoredReadsBack, StoredFits
<1>3. ASSUME NEW b \in DOMAIN db PROVE IsPrefix(PrefixAll(x), b) <=> ReadKey(b).index = x
  <2> DEFINE k == ReadKey(b)
  <2>1. k \in AnyKey /\ b = KeyBytes(k) BY <1>2
  <2> HIDE DEF k
  <2>2. IsPrefix(PrefixAll(x), b) <=> k.index = x BY <1>1, <2>1, FindsIndex
  <2> QED BY <2>2 DEF k
<1>4. ASSUME NEW b \in DOMAIN db, NEW mode \in MetadataMode .. ItemMode
      PROVE  IsPrefix(PrefixOf(x, mode), b) <=> ReadKey(b).index = x /\ ReadKey(b).mode = mode
  <2> DEFINE k == ReadKey(b)
  <2>1. k \in AnyKey /\ b = KeyBytes(k) BY <1>2
  <2>2. mode \in Byte BY Weights DEF Byte, MetadataMode, ItemMode
  <2> HIDE DEF k
  <2>3. IsPrefix(PrefixOf(x, mode), b) <=> k.index = x /\ k.mode = mode
    BY <1>1, <2>1, <2>2, FindsMode
  <2> QED BY <2>3 DEF k
<1> QED BY <1>3, <1>4 DEF Under

-----------------------------------------------------------------------------
(* Writing within an index. *)

\* Of what is stored, at most entries of index x differ.
Only(x, new, db) ==
    /\ DOMAIN new \subseteq StoredBytes
    /\ \A b \in StoredBytes : ReadKey(b).index # x =>
         /\ b \in DOMAIN new <=> b \in DOMAIN db
         /\ b \in DOMAIN db => new[b] = db[b]

\* Nothing differs when nothing is written, and in two steps what differs in either.
LEMMA OnlyAgain ==
    ASSUME NEW x, NEW db, NEW mid, NEW new, Only(x, mid, db), Only(x, new, mid)
    PROVE  Only(x, new, db)
BY DEF Only

\* New values under keys of the index.
LEMMA OnlyOver ==
    ASSUME NEW x, NEW old, NEW db, Only(x, db, old), NEW f, DOMAIN f \subseteq StoredBytes,
           \A b \in DOMAIN f : ReadKey(b).index = x
    PROVE  Only(x, Over(f, db), old)
<1>1. /\ DOMAIN Over(f, db) = DOMAIN f \cup DOMAIN db
      /\ \A b \in DOMAIN db : b \notin DOMAIN f => Over(f, db)[b] = db[b]
  BY DEF Over
<1> QED BY <1>1 DEF Only

\* One of them.
LEMMA OnlyPut ==
    ASSUME NEW x, NEW old, NEW db, Only(x, db, old), NEW k \in StoredKey, k.index = x, NEW v
    PROVE  Only(x, Put(db, k, v), old)
<1> DEFINE f == [b \in {KeyBytes(k)} |-> v]
<1>1. DOMAIN f = {KeyBytes(k)} OBVIOUS
<1>2. KeyBytes(k) \in StoredBytes /\ ReadKey(KeyBytes(k)).index = x BY StoredReadsBack
<1> HIDE DEF f
<1>3. Only(x, Over(f, db), old) BY <1>1, <1>2, OnlyOver
<1> QED BY <1>3 DEF Put, f

\* Marks of items.
LEMMA OnlyMarked ==
    ASSUME NEW x \in Index, NEW old, NEW db, Only(x, db, old), NEW ids, ids \subseteq Item, NEW mark
    PROVE  Only(x, Marked(db, x, ids, mark), old)
<1> DEFINE keys == {UpdatedKey(x, i) : i \in ids}
           f == [b \in {KeyBytes(k) : k \in keys} |-> StatusBytes(mark)]
<1>1. \A k \in keys : k \in StoredKey /\ k.index = x BY KeysFit DEF UpdatedKey, Key
<1>2. DOMAIN f = {KeyBytes(k) : k \in keys} OBVIOUS
<1>3. Marked(db, x, ids, mark) = Over(f, db) BY DEF Marked, PutAll
<1> HIDE DEF f, keys
<1>4. \A b \in DOMAIN f : b \in StoredBytes /\ ReadKey(b).index = x
  BY <1>1, <1>2, StoredReadsBack
<1>5. Only(x, Over(f, db), old) BY <1>4, OnlyOver
<1> QED BY <1>3, <1>5

\* Keys of the index that go.
LEMMA OnlyDrop ==
    ASSUME NEW x, NEW old, NEW db, Only(x, db, old), NEW bytes,
           \A b \in bytes \cap StoredBytes : ReadKey(b).index = x
    PROVE  Only(x, Drop(db, bytes), old)
<1>1. /\ DOMAIN Drop(db, bytes) = DOMAIN db \ bytes
      /\ \A b \in DOMAIN db \ bytes : Drop(db, bytes)[b] = db[b]
  BY DEF Drop
<1> QED BY <1>1 DEF Only

-----------------------------------------------------------------------------
(* The operations. *)

KeysStored == DOMAIN entries \subseteq StoredBytes

\* Marks, items and links of an index.
LEMMA OfKinds ==
    ASSUME NEW x \in Index, KeysStored
    PROVE  /\ \A b \in Marks(x) \cup Items(x) : /\ b \in StoredBytes /\ b \in DOMAIN entries
                                               /\ ReadKey(b).index = x /\ IdOf(b) \in Item
           /\ Under(entries, PrefixAll(x)) = {b \in DOMAIN entries : ReadKey(b).index = x}
<1>1. UpdatedMode \in MetadataMode .. ItemMode /\ ItemMode \in MetadataMode .. ItemMode
  BY DEF UpdatedMode, MetadataMode, ItemMode
<1>2. \A b \in Marks(x) \cup Items(x) : /\ b \in DOMAIN entries /\ ReadKey(b).index = x
                                        /\ ReadKey(b).mode \in {UpdatedMode, ItemMode}
  BY <1>1, Meets DEF Marks, Items, KeysStored
<1>3. \A b \in StoredBytes : ReadKey(b) \in StoredKey BY StoredReadsBack
<1>4. \A b \in Marks(x) \cup Items(x) : IdOf(b) \in Item BY <1>2, <1>3 DEF KeysStored, StoredKey, IdOf
<1> QED BY <1>2, <1>4, Meets DEF KeysStored

\* add_item writes the item and its mark.
LEMMA AddItemOnly ==
    ASSUME KeysStored, NEW x \in Index, NEW i \in Item, NEW v, AddItem(x, i, v)
    PROVE  Only(x, entries', entries)
<1> DEFINE k == ItemKey(x, i)
           db == Put(entries, k, Encoded(dist[x], v))
<1>1. k \in StoredKey /\ k.index = x BY KeysFit DEF ItemKey, Key
<1>2. Only(x, entries, entries) BY DEF Only, KeysStored
<1> HIDE DEF k
<1>3. Only(x, db, entries) BY <1>1, <1>2, OnlyPut
<1>4. entries' = Marked(db, x, {i}, "Updated") BY DEF AddItem, Does, k
<1> HIDE DEF db
<1> QED BY <1>3, <1>4, OnlyMarked

\* del_item deletes the item and marks it.
LEMMA DelItemOnly ==
    ASSUME KeysStored, NEW x \in Index, NEW i \in Item, DelItem(x, i)
    PROVE  Only(x, entries', entries)
<1> DEFINE k == ItemKey(x, i)
           db == Drop(entries, {KeyBytes(k)})
<1>1. k \in StoredKey /\ k.index = x BY KeysFit DEF ItemKey, Key
<1>2. Only(x, entries, entries) BY DEF Only, KeysStored
<1>3. entries' = Marked(db, x, {i}, "Removed") BY DEF DelItem, Does
<1> HIDE DEF k
<1>4. \A b \in {KeyBytes(k)} : ReadKey(b).index = x BY <1>1, StoredReadsBack
<1>5. Only(x, db, entries) BY <1>2, <1>4, OnlyDrop
<1> HIDE DEF db
<1> QED BY <1>3, <1>5, OnlyMarked

\* clear deletes what the prefix of the index finds.
LEMMA ClearOnly ==
    ASSUME KeysStored, NEW x \in Index, Clear(x)
    PROVE  Only(x, entries', entries)
<1> DEFINE all == Under(entries, PrefixAll(x))
<1>1. \A b \in all : ReadKey(b).index = x BY OfKinds
<1>2. Only(x, entries, entries) BY DEF Only, KeysStored
<1>3. entries' = Drop(entries, all) BY DEF Clear, Does
<1> HIDE DEF all
<1> QED BY <1>1, <1>2, <1>3, OnlyDrop

\* prepare_changing_distance rewrites items, marks them, and may delete links and metadata.
LEMMA PrepareChangingDistanceOnly ==
    ASSUME KeysStored, NEW x \in Index, NEW nd, PrepareChangingDistance(x, nd)
    PROVE  Only(x, entries', entries)
<1> DEFINE d == dist[x]
           keep == NameOf[nd] = BqPrefix \o NameOf[d]
           gone == Under(entries, PrefixOf(x, LinksMode)) \cup {KeyBytes(MetadataKey(x))}
           rest == IF keep THEN entries ELSE Drop(entries, gone)
           f == [b \in Items(x) |-> Reencoded(d, nd, b)]
           ids == {IdOf(b) : b \in Items(x)}
<1>1. entries' = Marked(Over(f, rest), x, ids, "Updated") BY DEF PrepareChangingDistance, Does
<1>2. Only(x, entries, entries) BY DEF Only, KeysStored
<1>3. \A b \in gone : ReadKey(b).index = x
  <2>1. LinksMode \in MetadataMode .. ItemMode BY DEF LinksMode, MetadataMode, ItemMode
  <2>2. \A b \in Under(entries, PrefixOf(x, LinksMode)) : ReadKey(b).index = x
    BY <2>1, Meets DEF KeysStored
  <2>3. ReadKey(KeyBytes(MetadataKey(x))) = MetadataKey(x) BY KeysFit, StoredReadsBack
  <2> QED BY <2>2, <2>3 DEF MetadataKey, Key
<1> HIDE DEF gone, keep
<1>4. Only(x, Drop(entries, gone), entries) BY <1>2, <1>3, OnlyDrop
<1>5. Only(x, rest, entries) BY <1>2, <1>4
<1>6. /\ DOMAIN f = Items(x) /\ ids \subseteq Item
      /\ \A b \in Items(x) : b \in StoredBytes /\ ReadKey(b).index = x
  BY OfKinds
<1> HIDE DEF rest, f, ids
<1>7. Only(x, Over(f, rest), entries) BY <1>5, <1>6, OnlyOver
<1> QED BY <1>1, <1>6, <1>7, OnlyMarked

\* The conversion deletes entries and marks the items that stay.
LEMMA PrepareArroyConversionOnly ==
    ASSUME KeysStored, NEW x \in Index, PrepareArroyConversion(x)
    PROVE  Only(x, entries', entries)
<1> DEFINE all == Under(entries, PrefixAll(x))
           kept == {b \in all : Survives(x, b)}
           ids == {IdOf(b) : b \in kept}
<1>1. entries' = Marked(Drop(entries, all \ kept), x, ids, "Updated")
  BY DEF PrepareArroyConversion, Does
<1>2. all = {b \in DOMAIN entries : ReadKey(b).index = x} BY OfKinds
<1>3. ids \subseteq Item
  <2>1. \A b \in kept : ReadKey(b) \in StoredKey /\ ReadKey(b).mode = ItemMode
    BY <1>2, StoredReadsBack DEF KeysStored, Survives
  <2> QED BY <2>1 DEF StoredKey, KeyOfIndex, IdOf
<1>4. Only(x, entries, entries) BY DEF Only, KeysStored
<1>5. \A b \in all \ kept : ReadKey(b).index = x BY <1>2
<1> HIDE DEF all, kept, ids
<1>6. Only(x, Drop(entries, all \ kept), entries) BY <1>4, <1>5, OnlyDrop
<1> QED BY <1>1, <1>3, <1>6, OnlyMarked

\* A build deletes marks and links, and writes links, metadata and the version.
LEMMA BuildOnly ==
    ASSUME KeysStored, NEW x \in Index, NEW l \in Level, Build(x, l)
    PROVE  Only(x, entries', entries)
<1> DEFINE all     == {IdOf(b) : b \in Marks(x)}
           removed == {IdOf(b) : b \in {m \in Marks(x) : ReadStatus(entries[m]) = "Removed"}}
           indices == ((all \ removed) \cup StoredMetadata(x).items) \ removed
           rest    == Drop(entries, Marks(x))
           keys    == {k \in LevelsOf(rest, x) : k[1] \in indices}
                      \cup {<<i, h>> : i \in indices \cap all, h \in 0 .. l}
           gone    == {b \in Under(rest, PrefixOf(x, LinksMode)) : IdOf(b) \in all \ indices}
           linked  == WithLinks(Drop(rest, gone), x, keys)
           m       == NewMetadata(dist[x], indices, keys)
           first   == Put(linked, MetadataKey(x), MetadataBytes(m))
<1>1. entries' = Put(first, VersionKey(x), VersionBytes(0, 1, 0)) BY DEF Build, Does
<1>2. /\ all \subseteq Item
      /\ \A b \in Marks(x) : ReadKey(b).index = x
  BY OfKinds
<1> HIDE DEF all, removed, indices
<1>3. Only(x, entries, entries) BY DEF Only, KeysStored
<1>4. Only(x, rest, entries) BY <1>2, <1>3, OnlyDrop
<1>5. LinksMode \in MetadataMode .. ItemMode BY DEF LinksMode, MetadataMode, ItemMode
<1> HIDE DEF rest
<1>6. \A b \in Under(rest, PrefixOf(x, LinksMode)) : /\ b \in DOMAIN rest /\ b \in StoredBytes
                                                    /\ ReadKey(b).index = x
  BY <1>4, <1>5, Meets DEF Only
<1>7. LevelsOf(rest, x) \subseteq (Item \cup {0, 1}) \X Level
  <2>1. \A b \in Under(rest, PrefixOf(x, LinksMode)) :
          IdOf(b) \in Item \cup {0, 1} /\ ReadKey(b).layer \in Level
    BY <1>6, StoredReadsBack DEF StoredKey, KeyOfIndex, IdOf
  <2> QED BY <2>1 DEF LevelsOf
<1>8. keys \subseteq (Item \cup {0, 1}) \X Level BY <1>2, <1>7, LevelAssumption
<1>9. \A b \in gone : ReadKey(b).index = x BY <1>6
<1> HIDE DEF keys, gone, m
<1>10. Only(x, Drop(rest, gone), entries) BY <1>4, <1>9, OnlyDrop
<1>11. Only(x, linked, entries)
  <2> DEFINE db == Drop(rest, gone)
             links == {LinksKey(x, k[1], k[2]) : k \in keys}
             at == {KeyBytes(k) : k \in links}
             f == [b \in at |-> LinksNode({i \in Item : <<i, ReadKey(b).layer>> \in keys}
                                          \ {ReadKey(b).item})]
  <2>1. linked = Over(f, db) BY DEF WithLinks, PutAll
  <2>2. DOMAIN f = at OBVIOUS
  <2>3. \A k \in links : k \in StoredKey /\ k.index = x
    <3>1. ASSUME NEW k \in keys PROVE LET n == LinksKey(x, k[1], k[2])
                                      IN  n \in StoredKey /\ n.index = x
      BY <1>8, KeysFit DEF LinksKey, Key
    <3> QED BY <3>1
  <2> HIDE DEF db, links, f, linked
  <2>4. \A b \in at : b \in StoredBytes /\ ReadKey(b).index = x BY <2>3, StoredReadsBack
  <2>5. Only(x, db, entries) BY <1>10 DEF db
  <2>6. Only(x, Over(f, db), entries)
    <3> HIDE DEF at
    <3> QED BY <2>2, <2>4, <2>5, OnlyOver
  <2> QED BY <2>1, <2>6
<1> HIDE DEF linked
<1>12. /\ MetadataKey(x) \in StoredKey /\ MetadataKey(x).index = x
       /\ VersionKey(x) \in StoredKey /\ VersionKey(x).index = x
  BY KeysFit DEF MetadataKey, VersionKey, Key
<1>13. Only(x, first, entries) BY <1>11, <1>12, OnlyPut
<1> HIDE DEF first
<1> QED BY <1>1, <1>12, <1>13, OnlyPut

-----------------------------------------------------------------------------
(* Every step stays within an index. *)

\* Whatever the step.
LEMMA StepOnly ==
    ASSUME KeysStored, [Next]_vars
    PROVE  UNCHANGED vars \/ \E x \in Index : Only(x, entries', entries)
<1>1. CASE UNCHANGED vars BY <1>1
<1>2. CASE Next
  <2>1. PICK x \in Index :
          \/ \E i \in Item, v \in Vector : AddItem(x, i, v)
          \/ \E i \in Item : DelItem(x, i)
          \/ Clear(x)
          \/ \E nd \in Distance : PrepareChangingDistance(x, nd)
          \/ PrepareArroyConversion(x)
          \/ \E l \in Level : Build(x, l)
    BY <1>2 DEF Next
  <2>2. Only(x, entries', entries)
    BY <2>1, AddItemOnly, DelItemOnly, ClearOnly, PrepareChangingDistanceOnly,
       PrepareArroyConversionOnly, BuildOnly
  <2> QED BY <2>2
<1> QED BY <1>1, <1>2

\* What arroy leaves is under such keys.
LEMMA KeysStoredAtFirst == Init => KeysStored
<1> SUFFICES ASSUME Init PROVE KeysStored OBVIOUS
<1> DEFINE keys == UNION {ArroyKeys(x) : x \in FromArroy}
<1>1. DOMAIN entries = {KeyBytes(k) : k \in keys} BY DEF Init
<1>2. ASSUME NEW x \in FromArroy PROVE ArroyKeys(x) \subseteq StoredKey
  <2>1. x \in Index BY IndexAssumption
  <2> QED BY <2>1, KeysFit, LevelAssumption DEF ArroyKeys
<1>3. keys \subseteq StoredKey BY <1>2
<1> HIDE DEF keys
<1> QED BY <1>1, <1>3, StoredReadsBack DEF KeysStored

\* Whatever is in the database is under a key of an index, with the id of an item, or of
\* an item arroy left, and a layer: decoding a key never meets anything else.
THEOREM AlwaysKeysStored == Spec => []KeysStored
<1>1. KeysStored /\ [Next]_vars => KeysStored'
  <2> SUFFICES ASSUME KeysStored, [Next]_vars PROVE KeysStored' OBVIOUS
  <2>1. CASE UNCHANGED vars BY <2>1 DEF vars, KeysStored
  <2>2. CASE \E x \in Index : Only(x, entries', entries) BY <2>2 DEF Only, KeysStored
  <2> QED BY <2>1, <2>2, StepOnly
<1> QED BY <1>1, KeysStoredAtFirst, PTL DEF Spec

\* Indexes that share a database stay apart: a step changes, adds and deletes entries of
\* one index alone, for all numbers of indexes and however many bytes they take.
THEOREM StayApart == Spec => IndexesApart
<1>1. KeysStored /\ KeysStored' /\ [Next]_vars =>
        [\E x \in Index : \A y \in Index \ {x} : OfIndex(entries', y) = OfIndex(entries, y)]_vars
  <2> SUFFICES ASSUME KeysStored, [Next]_vars, NEW x \in Index, Only(x, entries', entries),
                      NEW y \in Index, y # x
               PROVE  OfIndex(entries', y) = OfIndex(entries, y)
    BY StepOnly
  <2> QED BY DEF Only, OfIndex, KeysStored
<1> QED BY <1>1, AlwaysKeysStored, PTL DEF Spec, IndexesApart

-----------------------------------------------------------------------------
(* The order of keys. *)

\* The first bytes are the same.
LEMMA FirstBytes ==
    ASSUME NEW s \in Seq(Byte), NEW t \in Seq(Byte), Len(s) = 8, Len(t) = 8, NEW p \in 1 .. 8
    PROVE  SubSeq(s, 1, p - 1) = SubSeq(t, 1, p - 1) <=> \A b \in 1 .. p - 1 : s[b] = t[b]
<1> DEFINE q == SubSeq(s, 1, p - 1)
           r == SubSeq(t, 1, p - 1)
<1>1. q = [b \in 1 .. p - 1 |-> s[b]] OBVIOUS
<1>2. r = [b \in 1 .. p - 1 |-> t[b]] OBVIOUS
<1> HIDE DEF q, r
<1>3. q = r <=> \A b \in 1 .. p - 1 : s[b] = t[b] BY <1>1, <1>2
<1> QED BY <1>3 DEF q, r

\* Keys of an index and a kind are in the order of their ids, and then of their layers.
LEMMA KeyOrder ==
    ASSUME NEW k \in AnyKey, NEW n \in AnyKey, k.index = n.index, k.mode = n.mode
    PROVE  Before(KeyBytes(k), KeyBytes(n))
             <=> k.item < n.item \/ (k.item = n.item /\ k.layer < n.layer)
<1> DEFINE s == KeyBytes(k)
           t == KeyBytes(n)
           c == BigEndian(k.item, 4)
           d == BigEndian(n.item, 4)
<1>1. /\ s \in Seq(Byte) /\ Len(s) = 8 /\ t \in Seq(Byte) /\ Len(t) = 8
      /\ \A b \in 1 .. 2 : s[b] = t[b]
      /\ s[3] = t[3] /\ s[8] = k.layer /\ t[8] = n.layer
      /\ \A b \in 1 .. 4 : s[b + 3] = c[b] /\ t[b + 3] = d[b]
  BY KeyParts
<1>2. k.item \in 0 .. Weight(4) - 1 /\ n.item \in 0 .. Weight(4) - 1 BY DEF AnyKey
<1>3. k.item \in Nat /\ n.item \in Nat BY <1>2, Weights
<1>4. ASSUME NEW p \in 1 .. 4, \A b \in 1 .. p - 1 : c[b] = d[b], c[p] < d[p]
      PROVE  k.item < n.item
  BY <1>2, <1>4, BytesOrder
<1>5. ASSUME NEW p \in 1 .. 4, \A b \in 1 .. p - 1 : c[b] = d[b], d[p] < c[p]
      PROVE  n.item < k.item
  BY <1>2, <1>5, BytesOrder
<1>6. (\A b \in 1 .. 4 : c[b] = d[b]) => k.item = n.item BY <1>2, SameBytes
<1>7. k.item = n.item => c = d OBVIOUS
<1>8. \A b \in 1 .. 4 : c[b] \in Int /\ d[b] \in Int
  <2>1. \A b \in 1 .. 4 : c[b] \in Byte /\ d[b] \in Byte BY <1>3, ByteAt
  <2> HIDE DEF c, d
  <2> QED BY <2>1, Weights DEF Byte
<1>9. \A b \in 1 .. 8 : s[b] \in Int /\ t[b] \in Int
  <2> HIDE DEF s, t
  <2>1. s \in Seq(Byte) /\ Len(s) = 8 /\ t \in Seq(Byte) /\ Len(t) = 8 BY <1>1
  <2>2. /\ \A b \in 1 .. Len(s) : s[b] \in Byte
        /\ \A b \in 1 .. Len(t) : t[b] \in Byte
    BY <2>1, ElementOfSeq
  <2>3. Len(s) = 8 /\ Len(t) = 8 /\ Byte \subseteq Int BY <2>1, Weights DEF Byte
  <2> QED BY <2>2, <2>3
<1> HIDE DEF s, t, c, d
<1>10. Before(s, t) <=> \E p \in 1 .. 8 : (\A b \in 1 .. p - 1 : s[b] = t[b]) /\ s[p] < t[p]
  BY <1>1, FirstBytes DEF Before
<1>11. ASSUME NEW p \in 1 .. 8, \A b \in 1 .. p - 1 : s[b] = t[b], s[p] < t[p]
       PROVE  k.item < n.item \/ (k.item = n.item /\ k.layer < n.layer)
  <2>1. p \notin 1 .. 2 /\ p # 3
    <3>1. s[p] \in Int /\ s[p] # t[p] BY <1>9, <1>11
    <3> QED BY <1>1, <3>1
  <2>2. CASE p \in 4 .. 7
    <3>1. p - 3 \in 1 .. 4 /\ (p - 3) + 3 = p BY <2>2
    <3>2. \A b \in 1 .. (p - 3) - 1 : b \in 1 .. 4 /\ b + 3 \in 1 .. p - 1 BY <2>2
    <3>3. \A b \in 1 .. (p - 3) - 1 : c[b] = d[b] BY <1>1, <1>11, <3>2
    <3>4. c[p - 3] < d[p - 3] BY <1>1, <1>11, <3>1
    <3> QED BY <1>4, <3>1, <3>3, <3>4
  <2>3. CASE p = 8
    <3>1. \A b \in 1 .. 4 : b + 3 \in 1 .. p - 1 BY <2>3
    <3>2. \A b \in 1 .. 4 : c[b] = d[b] BY <1>1, <1>11, <3>1
    <3> QED BY <1>1, <1>6, <1>11, <2>3, <3>2
  <2> QED BY <2>1, <2>2, <2>3
<1>12. ASSUME k.item < n.item
       PROVE  \E p \in 1 .. 8 : (\A b \in 1 .. p - 1 : s[b] = t[b]) /\ s[p] < t[p]
  <2> DEFINE Off == {b \in Nat : b \in 1 .. 4 /\ c[b] # d[b]}
  <2>1. Off # {} BY <1>3, <1>6, <1>12
  <2>2. PICK o \in Off : \A b \in Off : o <= b BY <2>1, LeastNat
  <2>3. o \in 1 .. 4 /\ c[o] # d[o] BY <2>2
  <2>4. \A b \in 1 .. o - 1 : b \in 1 .. 4 /\ c[b] = d[b] BY <2>2, <2>3
  <2>5. c[o] < d[o]
    <3>1. ~(d[o] < c[o]) BY <1>3, <1>5, <1>12, <2>3, <2>4
    <3> QED BY <1>8, <2>3, <3>1
  <2>6. o + 3 \in 1 .. 8 /\ s[o + 3] < t[o + 3] BY <1>1, <2>3, <2>5
  <2>7. ASSUME NEW b \in 1 .. (o + 3) - 1 PROVE s[b] = t[b]
    <3>1. b \in 1 .. 2 \/ b = 3 \/ (b - 3 \in 1 .. o - 1 /\ (b - 3) + 3 = b) BY <2>3
    <3>2. CASE b - 3 \in 1 .. o - 1 /\ (b - 3) + 3 = b BY <1>1, <2>4, <3>2
    <3> QED BY <1>1, <3>1, <3>2
  <2> QED BY <2>6, <2>7
<1>13. ASSUME k.item = n.item, k.layer < n.layer
       PROVE  \E p \in 1 .. 8 : (\A b \in 1 .. p - 1 : s[b] = t[b]) /\ s[p] < t[p]
  <2>1. ASSUME NEW b \in 1 .. 8 - 1 PROVE s[b] = t[b]
    <3>1. b \in 1 .. 2 \/ b = 3 \/ (b - 3 \in 1 .. 4 /\ (b - 3) + 3 = b) OBVIOUS
    <3>2. CASE b - 3 \in 1 .. 4 /\ (b - 3) + 3 = b BY <1>1, <1>7, <1>13, <3>2
    <3> QED BY <1>1, <3>1, <3>2
  <2> QED BY <1>1, <1>13, <2>1
<1> QED BY <1>10, <1>11, <1>12, <1>13 DEF s, t

\* Iterators over marks, links and items meet what is there, all of it, and in order.
THEOREM AlwaysAscends == Spec => []CursorAscends
<1>1. KeysStored => CursorAscends
  <2> SUFFICES ASSUME KeysStored, NEW x \in Index, NEW mode \in {UpdatedMode, LinksMode, ItemMode}
      PROVE  LET met  == Under(entries, PrefixOf(x, mode))
                 keys == {k \in [index : {x}, mode : {mode}, item : Item \cup {0, 1}, layer : Level] :
                            Has(entries, k)}
             IN  /\ met = {KeyBytes(k) : k \in keys}
                 /\ \A k, n \in keys :
                      Before(KeyBytes(k), KeyBytes(n)) <=>
                        k.item < n.item \/ (k.item = n.item /\ k.layer < n.layer)
    BY DEF CursorAscends
  <2> DEFINE R == [index : {x}, mode : {mode}, item : Item \cup {0, 1}, layer : Level]
             met  == Under(entries, PrefixOf(x, mode))
             keys == {k \in R : Has(entries, k)}
  <2>1. mode \in MetadataMode .. ItemMode
    BY DEF UpdatedMode, LinksMode, ItemMode, MetadataMode
  <2>2. met = {b \in DOMAIN entries : ReadKey(b).index = x /\ ReadKey(b).mode = mode}
    BY <2>1, Meets DEF KeysStored
  <2>3. \A k \in R : k \in AnyKey /\ k.index = x /\ k.mode = mode
    <3>1. \A k \in R : k \in KeyOfIndex /\ k.index = x /\ k.mode = mode BY <2>1 DEF KeyOfIndex
    <3> QED BY <3>1, StoredFits
  <2>4. \A k \in KeyOfIndex : k.index = x /\ k.mode = mode => k \in R BY DEF KeyOfIndex
  <2> HIDE DEF R, met
  <2>5. ASSUME NEW b \in met PROVE b \in {KeyBytes(k) : k \in keys}
    <3>1. b \in DOMAIN entries /\ ReadKey(b) \in R /\ b = KeyBytes(ReadKey(b))
      BY <2>2, <2>4, StoredReadsBack, StoredFits DEF KeysStored
    <3> QED BY <3>1 DEF Has
  <2>6. ASSUME NEW k \in keys PROVE KeyBytes(k) \in met
    <3>1. KeyBytes(k) \in DOMAIN entries BY DEF Has
    <3>2. ReadKey(KeyBytes(k)) = k /\ k.index = x /\ k.mode = mode BY <2>3, KeyReadsBack
    <3> QED BY <2>2, <3>1, <3>2
  <2>7. \A k, n \in keys : Before(KeyBytes(k), KeyBytes(n)) <=>
                             k.item < n.item \/ (k.item = n.item /\ k.layer < n.layer)
    BY <2>3, KeyOrder
  <2>8. met = {KeyBytes(k) : k \in keys} BY <2>5, <2>6
  <2> QED BY <2>7, <2>8 DEF met, R
<1> QED BY <1>1, AlwaysKeysStored, PTL

-----------------------------------------------------------------------------
(* What an index holds. *)

\* No change of distance makes of the padding of a word what counts as a coordinate.
PaddingStaysPadding ==
    \A d, nd \in Distance : <<d, nd>> \in Moves =>
      \/ CodecOf[d] = "f32"
      \/ CodecOf[nd] # "f32" /\ Bit(CodecOf[nd], OfBit(CodecOf[d], 0)) = 0

\* The bytes of an item are those of a vector that the codec takes for g, and those of g
\* itself if no padding has become part of it.
HoldsVector(d, bytes, g) ==
    /\ \E w \in Seq(Float) : /\ Len(w) >= Dims
                             /\ bytes = Encoded(d, w)
                             /\ g = [k \in 1 .. Dims |-> Kept(CodecOf[d], w[k])]
    /\ PaddingStaysPadding => bytes = Encoded(d, g)

\* What comes back of a vector begins with what the codec keeps of it.
LEMMA BackKeeps ==
    ASSUME NEW codec \in Codec, NEW w \in Seq(Float)
    PROVE  /\ Back(codec, w) \in Seq(Float) /\ Len(Back(codec, w)) >= Len(w)
           /\ \A k \in 1 .. Len(w) : Back(codec, w)[k] = Kept(codec, w[k])
<1> DEFINE n == Len(w)
           z == WordSize(codec)
           m == z * Words(codec, n)
           back(k) == IF codec = "f32" THEN w[k]
                      ELSE OfBit(codec, IF k <= n THEN Bit(codec, w[k]) ELSE 0)
<1>1. n \in Nat /\ z \in Nat \ {0} BY Sizes
<1>2. m \in Nat /\ n <= m
  <2>1. CeilDiv(n, z) \in Nat /\ n <= z * CeilDiv(n, z)
    <3> HIDE DEF n, z
    <3> QED BY <1>1, Ceiling
  <2>2. m = z * CeilDiv(n, z) BY DEF Words
  <2>3. z * CeilDiv(n, z) \in Nat
    <3> DEFINE c == CeilDiv(n, z)
    <3>1. c \in Nat BY <2>1
    <3> HIDE DEF c, z
    <3> QED BY <1>1, <3>1 DEF c
  <2> QED BY <2>1, <2>2, <2>3
<1>3. Back(codec, w) = [k \in 1 .. m |-> back(k)] BY DEF Back
<1>4. ASSUME NEW k \in 1 .. m PROVE back(k) \in Float
  <2>1. CASE codec = "f32"
    <3>1. m = n
      <4>1. z = 1 BY <2>1 DEF WordSize
      <4>2. CeilDiv(n, 1) = n BY <1>1 DEF CeilDiv
      <4> QED BY <1>1, <4>1, <4>2 DEF Words
    <3>2. w[k] \in Float BY <3>1, ElementOfSeq
    <3> QED BY <2>1, <3>2
  <2>2. CASE codec # "f32"
    <3>1. codec = "binary" \/ codec = "binary quantized" BY <2>2 DEF Codec
    <3>2. \A b : OfBit(codec, b) \in Float BY <3>1 DEF OfBit, Float
    <3> QED BY <2>2, <3>2
  <2> QED BY <2>1, <2>2
<1>5. ASSUME NEW k \in 1 .. n PROVE back(k) = Kept(codec, w[k])
  <2>1. w[k] \in Float BY ElementOfSeq
  <2> DEFINE c == w[k]
  <2>2. CASE codec = "f32" BY <2>2 DEF Kept
  <2>3. CASE codec # "f32"
    <3>1. codec = "binary" \/ codec = "binary quantized" BY <2>3 DEF Codec
    <3>2. k <= n BY <1>1
    <3>3. back(k) = OfBit(codec, Bit(codec, c)) BY <2>3, <3>2
    <3>4. c \in {0, 1, 2, 3} BY <2>1 DEF Float, Zero, One, NegZero, MinusOne
    <3> HIDE DEF c
    <3>5. CASE codec = "binary"
      <4>1. Bit(codec, c) = IF c = 1 THEN 1 ELSE 0 BY <3>4, <3>5 DEF Bit, IsPositive, NegZero
      <4>2. \A b : OfBit(codec, b) = IF b = 1 THEN 1 ELSE 0 BY <3>5 DEF OfBit, One, Zero
      <4>3. Kept(codec, c) = IF c = 1 THEN 1 ELSE 0 BY <3>5 DEF Kept, One, Zero
      <4> QED BY <3>3, <4>1, <4>2, <4>3 DEF c
    <3>6. CASE codec = "binary quantized"
      <4>4. Bit(codec, c) = IF c < 2 THEN 1 ELSE 0 BY <3>6 DEF Bit, IsSignPositive, NegZero
      <4>1. Bit(codec, c) = IF c \in {0, 1} THEN 1 ELSE 0 BY <3>4, <4>4
      <4>2. \A b : OfBit(codec, b) = IF b = 1 THEN 1 ELSE 3 BY <3>6 DEF OfBit, One, MinusOne
      <4>3. Kept(codec, c) = IF c \in {0, 1} THEN 1 ELSE 3 BY <3>6 DEF Kept, One, Zero, MinusOne
      <4> QED BY <3>3, <4>1, <4>2, <4>3 DEF c
    <3> QED BY <3>1, <3>5, <3>6
  <2> QED BY <2>2, <2>3
<1>6. \A k \in 1 .. n : k \in 1 .. m BY <1>1, <1>2
<1> HIDE DEF m, n, back
<1>7. Back(codec, w) \in Seq(Float) /\ Len(Back(codec, w)) = m BY <1>2, <1>3, <1>4
<1>8. \A k \in 1 .. n : Back(codec, w)[k] = Kept(codec, w[k]) BY <1>3, <1>5, <1>6
<1>9. m >= n BY <1>1, <1>2
<1> QED BY <1>7, <1>8, <1>9 DEF n

\* A coordinate stays one.
LEMMA KeptIsFloat ==
    ASSUME NEW codec \in Codec, NEW c \in Float
    PROVE  Kept(codec, c) \in Float
<1>1. codec \in {"f32", "binary", "binary quantized"} BY DEF Codec
<1> QED BY <1>1 DEF Kept, Float

\* What is kept has the same bit, and is kept as it is.
LEMMA KeptIsKept ==
    ASSUME NEW codec \in Codec, NEW c \in Float
    PROVE  /\ Kept(codec, Kept(codec, c)) = Kept(codec, c)
           /\ codec # "f32" => Bit(codec, Kept(codec, c)) = Bit(codec, c)
           /\ codec = "f32" => Kept(codec, c) = c
<1>1. c \in {0, 1, 2, 3} BY DEF Float, Zero, One, NegZero, MinusOne
<1>2. CASE codec = "f32" BY <1>2 DEF Kept
<1>3. CASE codec = "binary"
  <2>1. \A e : Kept(codec, e) = IF e = 1 THEN 1 ELSE 0 BY <1>3 DEF Kept, One, Zero
  <2>2. \A e \in {0, 1, 2, 3} : Bit(codec, e) = IF e = 1 THEN 1 ELSE 0
    BY <1>3 DEF Bit, IsPositive, NegZero
  <2> DEFINE e == Kept(codec, c)
  <2>3. (e = IF c = 1 THEN 1 ELSE 0) /\ Kept(codec, e) = e BY <1>1, <2>1
  <2> HIDE DEF e
  <2>4. e \in {0, 1, 2, 3} BY <2>3
  <2> QED BY <1>1, <1>3, <2>2, <2>3, <2>4 DEF e
<1>4. CASE codec = "binary quantized"
  <2> DEFINE e == Kept(codec, c)
  <2>1. \A b : Kept(codec, b) = IF b \in {0, 1} THEN 1 ELSE 3 BY <1>4 DEF Kept, One, Zero, MinusOne
  <2>2. (e = IF c \in {0, 1} THEN 1 ELSE 3) /\ Kept(codec, e) = e BY <1>1, <2>1
  <2>3. \A b : Bit(codec, b) = IF b < 2 THEN 1 ELSE 0 BY <1>4 DEF Bit, IsSignPositive, NegZero
  <2> HIDE DEF e
  <2>4. Bit(codec, e) = Bit(codec, c)
    <3>1. CASE c \in {0, 1}
      <4>1. e = 1 /\ e < 2 /\ c < 2 BY <2>2, <3>1
      <4> QED BY <2>3, <4>1
    <3>2. CASE c \in {2, 3}
      <4>1. e = 3 /\ ~(e < 2) /\ ~(c < 2) BY <2>2, <3>2
      <4> QED BY <2>3, <4>1
    <3> QED BY <1>1, <3>1, <3>2
  <2>5. codec # "f32" BY <1>4
  <2> QED BY <2>2, <2>4, <2>5 DEF e
<1> QED BY <1>2, <1>3, <1>4 DEF Codec

\* The bytes of a vector are those of what the codec keeps of it.
LEMMA KeptEncodes ==
    ASSUME NEW codec \in Codec, NEW v \in [1 .. Dims -> Float]
    PROVE  FromSlice(codec, [k \in 1 .. Dims |-> Kept(codec, v[k])]) = FromSlice(codec, v)
<1> DEFINE u == [k \in 1 .. Dims |-> Kept(codec, v[k])]
<1>1. Dims \in Nat BY DimsAssumption
<1>2. u \in [1 .. Dims -> Float] BY KeptIsFloat
<1>3. CASE codec = "f32"
  <2>1. \A k \in 1 .. Dims : Kept(codec, v[k]) = v[k] BY <1>3, KeptIsKept
  <2>2. u = v BY <2>1
  <2> QED BY <2>2
<1>4. CASE codec # "f32"
  <2>1. v \in Seq(Float) /\ u \in Seq(Float) /\ Len(v) = Dims /\ Len(u) = Dims BY <1>1, <1>2
  <2>2. \A k \in 1 .. Dims : Bit(codec, u[k]) = Bit(codec, v[k]) BY <1>4, KeptIsKept
  <2> HIDE DEF u
  <2>3. \A k \in 1 .. WordBits * Words(codec, Len(u)) : BitOf(codec, u, k) = BitOf(codec, v, k)
    <3> TAKE k \in 1 .. WordBits * Words(codec, Len(u))
    <3>1. k <= Dims => k \in 1 .. Dims BY <1>1
    <3> QED BY <2>1, <2>2, <3>1 DEF BitOf
  <2>4. FromSlice(codec, u) = FromSlice(codec, v)
    <3>1. codec \in Codec \ {"f32"} BY <1>4
    <3>2. Words(codec, Len(u)) = Words(codec, Len(v)) BY <2>1
    <3> QED BY <2>1, <2>3, <3>1, <3>2, SameSlice
  <2> QED BY <2>4 DEF u
<1> QED BY <1>3, <1>4

\* A vector that is read and encoded anew has the bytes of what is kept of it, unless padding
\* becomes part of it.
LEMMA ReencodedIsKept ==
    ASSUME NEW old \in Codec, NEW new \in Codec,
           old = "f32" \/ (new # "f32" /\ Bit(new, OfBit(old, 0)) = 0),
           NEW g \in [1 .. Dims -> Float], \A k \in 1 .. Dims : Kept(old, g[k]) = g[k]
    PROVE  FromSlice(new, Back(old, g)) = FromSlice(new, [k \in 1 .. Dims |-> Kept(new, g[k])])
<1> DEFINE back == Back(old, g)
           m == Words(old, Dims)
<1>1. Dims \in Nat BY DimsAssumption
<1>2. g \in Seq(Float) /\ Len(g) = Dims BY <1>1
<1>3. /\ back \in Seq(Float)
      /\ \A k \in 1 .. Dims : back[k] = g[k]
  <2>1. /\ back \in Seq(Float)
        /\ \A k \in 1 .. Len(g) : back[k] = Kept(old, g[k])
    BY <1>2, BackKeeps
  <2> QED BY <1>2, <2>1
<1>4. back = [k \in 1 .. WordSize(old) * m |->
                IF old = "f32" THEN g[k] ELSE OfBit(old, IF k <= Dims THEN Bit(old, g[k]) ELSE 0)]
  BY <1>2 DEF Back
<1>5. FromSlice(new, [k \in 1 .. Dims |-> Kept(new, g[k])]) = FromSlice(new, g) BY KeptEncodes
<1>6. CASE old = "f32"
  <2>1. WordSize(old) = 1 /\ m = Dims
    <3>1. CeilDiv(Dims, 1) = Dims BY <1>1 DEF CeilDiv
    <3> QED BY <1>6, <3>1 DEF Words, WordSize
  <2>2. back = g
    <3>1. 1 * Dims = Dims BY <1>1
    <3>2. back = [k \in 1 .. Dims |-> g[k]]
      <4> HIDE DEF back, m
      <4> QED BY <1>4, <1>6, <2>1, <3>1
    <3> HIDE DEF back
    <3> QED BY <3>2
  <2> QED BY <1>5, <2>2
<1>7. CASE old # "f32"
  <2>1. WordSize(old) = WordBits /\ WordSize(new) = WordBits BY <1>7 DEF WordSize
  <2>2. WordBits \in Nat \ {0} /\ m \in Nat /\ Dims <= WordBits * m
    BY <1>1, <2>1, Sizes, Ceiling DEF Words
  <2> DEFINE w == WordBits
             n == w * m
  <2>3. n \in Nat /\ Len(back) = n
    <3>1. n \in Nat
      <4> HIDE DEF m, w
      <4> QED BY <2>2 DEF w
    <3> HIDE DEF n, m, back
    <3> QED BY <1>4, <2>1, <3>1 DEF n
  <2>4. Words(new, Len(back)) = m /\ Words(new, Len(g)) = m
    <3>1. CeilDiv(n, w) = m
      <4> HIDE DEF m, w
      <4>1. w \in Nat \ {0} /\ m \in Nat BY <2>2 DEF w
      <4>2. w - 1 \in 0 .. w - 1 /\ w * m + w - 1 = w * m + (w - 1) BY <4>1
      <4>3. (w * m + (w - 1)) \div w = m BY <4>1, <4>2, Quotient
      <4> QED BY <4>2, <4>3 DEF CeilDiv
    <3>2. Words(new, Len(g)) = m BY <1>2, <2>1 DEF Words
    <3> HIDE DEF n, m, back, w
    <3> QED BY <2>1, <2>3, <3>1, <3>2 DEF Words, w
  <2>5. ASSUME NEW k \in 1 .. n PROVE BitOf(new, back, k) = BitOf(new, g, k)
    <3>1. CASE k <= Dims
      <4>1. k \in 1 .. Dims BY <1>1, <2>3, <3>1
      <4>2. back[k] = g[k] BY <1>3, <4>1
      <4> HIDE DEF back, n
      <4> QED BY <1>2, <2>3, <3>1, <4>2 DEF BitOf
    <3>2. CASE ~(k <= Dims)
      <4>1. back[k] = OfBit(old, 0)
        <5> HIDE DEF back, m
        <5> QED BY <1>4, <1>7, <2>1, <3>2
      <4>2. BitOf(new, back, k) = 0
        <5> HIDE DEF back, n
        <5> QED BY <1>7, <2>3, <4>1 DEF BitOf
      <4>3. BitOf(new, g, k) = 0 BY <1>2, <3>2 DEF BitOf
      <4> QED BY <4>2, <4>3
    <3> QED BY <3>1, <3>2
  <2>6. new \in Codec \ {"f32"} BY <1>7
  <2>7. FromSlice(new, back) = FromSlice(new, g)
    <3> HIDE DEF back
    <3> QED BY <1>2, <1>3, <2>4, <2>5, <2>6, SameSlice
  <2> QED BY <1>5, <2>7
<1> QED BY <1>6, <1>7

\* It is read as an item with that vector, both ways, and re-encoded it holds what the new
\* codec keeps of it, in the bytes of just that unless padding becomes part of it.
LEMMA VectorIsRead ==
    ASSUME NEW d \in Distance, NEW bytes, NEW g, HoldsVector(d, bytes, g)
    PROVE  LET node == ReadNode(d, bytes)
           IN  /\ node.kind = "item"
               /\ Truncated(ToVec(CodecOf[d], node.vector), Dims) = g
               /\ Truncated(Iter(CodecOf[d], node.vector), Dims) = g
               /\ g \in [1 .. Dims -> Float] /\ g # NoVector
               /\ PaddingStaysPadding => bytes = Encoded(d, g)
               /\ \A nd \in Distance : <<d, nd>> \in Moves =>
                    HoldsVector(nd, Encoded(nd, ToVec(CodecOf[d], node.vector)), KeptVector(nd, g))
<1> DEFINE codec == CodecOf[d]
<1>1. codec \in Codec /\ Dims \in Nat BY DistanceAssumption, DimsAssumption
<1>2. PICK w \in Seq(Float) : /\ Len(w) >= Dims
                              /\ bytes = Encoded(d, w)
                              /\ g = [k \in 1 .. Dims |-> Kept(codec, w[k])]
  BY DEF HoldsVector
<1> DEFINE u == FromSlice(codec, w)
           back == Back(codec, w)
<1>3. u \in Seq(Byte) /\ Fits(codec, u) BY <1>1, SliceFits
<1>4. ReadNode(d, bytes) = [kind |-> "item", vector |-> u]
  <2> HIDE DEF u
  <2>1. ReadNode(d, ItemNode(d, u)) = [kind |-> "item", vector |-> u] BY <1>3, ItemIs
  <2> QED BY <1>2, <2>1 DEF Encoded, u
<1>5. ToVec(codec, u) = back /\ Iter(codec, u) = back BY <1>1, ToVecIs, IterIs
<1>6. /\ back \in Seq(Float) /\ Len(back) >= Len(w)
      /\ \A k \in 1 .. Len(w) : back[k] = Kept(codec, w[k])
  BY <1>1, BackKeeps
<1>7. \A k \in 1 .. Dims : w[k] \in Float /\ k \in 1 .. Len(w)
  <2>1. \A k \in 1 .. Dims : k \in 1 .. Len(w) BY <1>1, <1>2
  <2> QED BY <2>1, ElementOfSeq
<1>8. g \in [1 .. Dims -> Float]
  <2>1. \A k \in 1 .. Dims : Kept(codec, w[k]) \in Float
    <3> HIDE DEF codec
    <3> QED BY <1>1, <1>7, KeptIsFloat
  <2> HIDE DEF codec
  <2> QED BY <1>2, <2>1
<1>9. g # NoVector BY <1>8, VectorAssumption
<1> HIDE DEF u, back, codec
<1>10. Len(back) \in Nat /\ Len(back) >= Dims BY <1>1, <1>2, <1>6
<1>11. Truncated(back, Dims) = g
  <2>1. Truncated(back, Dims) = SubSeq(back, 1, Dims) BY <1>1, <1>10 DEF Truncated
  <2>2. SubSeq(back, 1, Dims) = [k \in 1 .. Dims |-> back[k]] BY <1>1, <1>6
  <2>3. \A k \in 1 .. Dims : back[k] = Kept(codec, w[k]) BY <1>6, <1>7
  <2> QED BY <1>2, <2>1, <2>2, <2>3
<1>12. ASSUME PaddingStaysPadding PROVE bytes = Encoded(d, g) /\ Back(codec, g) = back
  <2> DEFINE t == FromSlice(codec, g)
  <2>1. bytes = Encoded(d, g) BY <1>12 DEF HoldsVector
  <2>2. g \in Seq(Float) BY <1>1, <1>8
  <2>3. t \in Seq(Byte) /\ Fits(codec, t) BY <1>1, <2>2, SliceFits DEF codec
  <2>4. Encoded(d, g) = ItemNode(d, t) BY DEF Encoded, codec
  <2>5. ToVec(codec, t) = Back(codec, g) BY <1>1, <2>2, ToVecIs DEF codec
  <2> HIDE DEF t
  <2>6. ReadNode(d, ItemNode(d, t)) = [kind |-> "item", vector |-> t] BY <2>3, ItemIs DEF codec
  <2>7. t = u BY <1>4, <2>1, <2>4, <2>6
  <2> QED BY <1>5, <2>1, <2>5, <2>7
<1>13. ASSUME NEW nd \in Distance, <<d, nd>> \in Moves
       PROVE  HoldsVector(nd, Encoded(nd, back), KeptVector(nd, g))
  <2>1. KeptVector(nd, g) = [k \in 1 .. Dims |-> Kept(CodecOf[nd], g[k])] BY <1>9 DEF KeptVector
  <2>2. \A k \in 1 .. Dims : g[k] = back[k] BY <1>2, <1>6, <1>7
  <2>3. KeptVector(nd, g) = [k \in 1 .. Dims |-> Kept(CodecOf[nd], back[k])] BY <2>1, <2>2
  <2>4. ASSUME PaddingStaysPadding PROVE Encoded(nd, back) = Encoded(nd, KeptVector(nd, g))
    <3> DEFINE new == CodecOf[nd]
               kept == [k \in 1 .. Dims |-> Kept(new, g[k])]
    <3>1. new \in Codec BY DistanceAssumption
    <3>2. codec = "f32" \/ (new # "f32" /\ Bit(new, OfBit(codec, 0)) = 0)
      BY <1>13, <2>4 DEF PaddingStaysPadding, codec
    <3>3. \A k \in 1 .. Dims : Kept(codec, g[k]) = g[k]
      <4>1. \A k \in 1 .. Dims : g[k] = Kept(codec, w[k]) BY <1>2 DEF codec
      <4> QED BY <1>1, <1>7, <4>1, KeptIsKept DEF codec
    <3> HIDE DEF new
    <3>4. FromSlice(new, Back(codec, g)) = FromSlice(new, kept)
      <4> HIDE DEF kept
      <4>1. codec \in Codec BY <1>1 DEF codec
      <4> QED BY <1>8, <3>1, <3>2, <3>3, <4>1, ReencodedIsKept DEF kept
    <3>5. Back(codec, g) = back BY <1>12, <2>4
    <3> QED BY <2>1, <3>4, <3>5 DEF Encoded, new, kept
  <2> QED BY <1>6, <1>10, <2>3, <2>4 DEF HoldsVector
<1> QED BY <1>4, <1>5, <1>8, <1>9, <1>11, <1>12, <1>13 DEF codec

\* A vector of a client is such a vector.
LEMMA VectorHeld ==
    ASSUME NEW d \in Distance, NEW v \in Vector
    PROVE  HoldsVector(d, Encoded(d, v), KeptVector(d, v))
<1>1. v \in [1 .. Dims -> Float] /\ v # NoVector /\ Dims \in Nat BY VectorAssumption, DimsAssumption
<1>2. v \in Seq(Float) /\ Len(v) = Dims BY <1>1
<1>3. KeptVector(d, v) = [k \in 1 .. Dims |-> Kept(CodecOf[d], v[k])] BY <1>1 DEF KeptVector
<1>4. Len(v) >= Dims BY <1>1, <1>2
<1>5. Encoded(d, v) = Encoded(d, KeptVector(d, v))
  <2>1. CodecOf[d] \in Codec BY DistanceAssumption
  <2>2. FromSlice(CodecOf[d], KeptVector(d, v)) = FromSlice(CodecOf[d], v)
    BY <1>1, <1>3, <2>1, KeptEncodes
  <2> QED BY <2>2 DEF Encoded
<1> QED BY <1>2, <1>3, <1>4, <1>5 DEF HoldsVector

\* Read as a node it does not panic, whatever the distance.
NeverPanics(bytes) == \A d \in Distance : ReadNode(d, bytes).kind # "panic"

HoldsItems(x, db, d, vs) ==
    \A i \in Item : IF Has(db, ItemKey(x, i))
                    THEN HoldsVector(d, db[KeyBytes(ItemKey(x, i))], vs[i])
                    ELSE vs[i] = NoVector

HoldsNodes(x, db) ==
    \A b \in DOMAIN db : ReadKey(b).index = x /\ ReadKey(b).mode \in {MetadataMode, LinksMode}
                           => NeverPanics(db[b])

HoldsMetadata(x, db, m) ==
    /\ Has(db, MetadataKey(x)) => ReadMetadata(db[KeyBytes(MetadataKey(x))]).items \subseteq Item
    /\ m # NotBuilt => /\ m \in AnyMetadata
                       /\ Has(db, MetadataKey(x))
                       /\ db[KeyBytes(MetadataKey(x))] = MetadataBytes(m)

Holds(x, db, d, vs, m) == /\ HoldsItems(x, db, d, vs)
                          /\ HoldsNodes(x, db)
                          /\ HoldsMetadata(x, db, m)

\* Two databases have the same entries of an index and a kind.
Same(x, mode, new, db) ==
    \A b \in StoredBytes : ReadKey(b).index = x /\ ReadKey(b).mode = mode
      => /\ b \in DOMAIN new <=> b \in DOMAIN db
         /\ b \in DOMAIN db => new[b] = db[b]

\* Keys of the index and the kind.
LEMMA SameKey ==
    ASSUME NEW x, NEW mode, NEW db, NEW new, Same(x, mode, new, db),
           NEW k \in StoredKey, k.index = x, k.mode = mode
    PROVE  /\ KeyBytes(k) \in DOMAIN new <=> KeyBytes(k) \in DOMAIN db
           /\ KeyBytes(k) \in DOMAIN db => new[KeyBytes(k)] = db[KeyBytes(k)]
BY StoredReadsBack DEF Same

\* Items are held as long as their entries are the same.
LEMMA ItemsStill ==
    ASSUME NEW x \in Index, NEW db, NEW new, Same(x, ItemMode, new, db),
           NEW d, NEW vs, HoldsItems(x, db, d, vs)
    PROVE  HoldsItems(x, new, d, vs)
<1> SUFFICES ASSUME NEW i \in Item
             PROVE  IF Has(new, ItemKey(x, i))
                    THEN HoldsVector(d, new[KeyBytes(ItemKey(x, i))], vs[i])
                    ELSE vs[i] = NoVector
  BY DEF HoldsItems
<1> DEFINE k == ItemKey(x, i)
<1>1. k \in StoredKey /\ k.index = x /\ k.mode = ItemMode BY KeysFit DEF ItemKey, Key
<1>2. IF Has(db, k) THEN HoldsVector(d, db[KeyBytes(k)], vs[i]) ELSE vs[i] = NoVector
  BY DEF HoldsItems
<1> HIDE DEF k
<1>3. IF Has(new, k) THEN HoldsVector(d, new[KeyBytes(k)], vs[i]) ELSE vs[i] = NoVector
  BY <1>1, <1>2, SameKey DEF Has
<1> QED BY <1>3 DEF k

\* So is metadata.
LEMMA MetadataStill ==
    ASSUME NEW x \in Index, NEW db, NEW new, Same(x, MetadataMode, new, db),
           NEW m, HoldsMetadata(x, db, m)
    PROVE  HoldsMetadata(x, new, m)
<1> DEFINE k == MetadataKey(x)
<1>1. k \in StoredKey /\ k.index = x /\ k.mode = MetadataMode BY KeysFit DEF MetadataKey, Key
<1> HIDE DEF k
<1>2. /\ KeyBytes(k) \in DOMAIN new <=> KeyBytes(k) \in DOMAIN db
      /\ KeyBytes(k) \in DOMAIN db => new[KeyBytes(k)] = db[KeyBytes(k)]
  BY <1>1, SameKey
<1> QED BY <1>2 DEF HoldsMetadata, Has, k

\* And what else can be read as a node.
LEMMA NodesStill ==
    ASSUME NEW x, NEW db, NEW new, DOMAIN new \subseteq StoredBytes,
           Same(x, MetadataMode, new, db), Same(x, LinksMode, new, db), HoldsNodes(x, db)
    PROVE  HoldsNodes(x, new)
<1> SUFFICES ASSUME NEW b \in DOMAIN new, ReadKey(b).index = x,
                    ReadKey(b).mode \in {MetadataMode, LinksMode}
             PROVE  NeverPanics(new[b])
  BY DEF HoldsNodes
<1>1. b \in DOMAIN db /\ new[b] = db[b] BY DEF Same
<1> QED BY <1>1 DEF HoldsNodes

\* One write after another.
LEMMA SameAgain ==
    ASSUME NEW x, NEW mode, NEW db, NEW mid, NEW new, Same(x, mode, mid, db), Same(x, mode, new, mid)
    PROVE  Same(x, mode, new, db)
BY DEF Same

\* Nothing written.
LEMMA SameSelf == \A x, mode, db : Same(x, mode, db, db)
BY DEF Same

\* Writes to others.
LEMMA SameOver ==
    ASSUME NEW x, NEW mode, NEW f, NEW db,
           \A b \in DOMAIN f : ReadKey(b).index # x \/ ReadKey(b).mode # mode
    PROVE  Same(x, mode, Over(f, db), db)
<1>1. /\ DOMAIN Over(f, db) = DOMAIN f \cup DOMAIN db
      /\ \A b \in DOMAIN db : b \notin DOMAIN f => Over(f, db)[b] = db[b]
  BY DEF Over
<1> QED BY <1>1 DEF Same

\* One of them.
LEMMA SamePut ==
    ASSUME NEW x, NEW mode, NEW db, NEW k \in StoredKey, k.mode # mode, NEW v
    PROVE  Same(x, mode, Put(db, k, v), db)
<1> DEFINE f == [b \in {KeyBytes(k)} |-> v]
<1>1. DOMAIN f = {KeyBytes(k)} OBVIOUS
<1>2. ReadKey(KeyBytes(k)).mode # mode BY StoredReadsBack
<1> HIDE DEF f
<1>3. Same(x, mode, Over(f, db), db) BY <1>1, <1>2, SameOver
<1> QED BY <1>3 DEF Put, f

\* Marks.
LEMMA SameMarked ==
    ASSUME NEW x \in Index, NEW mode, mode # UpdatedMode, NEW db, NEW ids, ids \subseteq Item, NEW mark
    PROVE  Same(x, mode, Marked(db, x, ids, mark), db)
<1> DEFINE keys == {UpdatedKey(x, i) : i \in ids}
           f == [b \in {KeyBytes(k) : k \in keys} |-> StatusBytes(mark)]
<1>1. \A k \in keys : k \in StoredKey /\ k.mode # mode BY KeysFit DEF UpdatedKey, Key
<1>2. DOMAIN f = {KeyBytes(k) : k \in keys} OBVIOUS
<1>3. Marked(db, x, ids, mark) = Over(f, db) BY DEF Marked, PutAll
<1> HIDE DEF f, keys
<1>4. \A b \in DOMAIN f : ReadKey(b).mode # mode BY <1>1, <1>2, StoredReadsBack
<1>5. Same(x, mode, Over(f, db), db) BY <1>4, SameOver
<1> QED BY <1>3, <1>5

\* Deletions of others.
LEMMA SameDrop ==
    ASSUME NEW x, NEW mode, NEW db, NEW bytes,
           \A b \in bytes \cap StoredBytes : ReadKey(b).index # x \/ ReadKey(b).mode # mode
    PROVE  Same(x, mode, Drop(db, bytes), db)
<1>1. /\ DOMAIN Drop(db, bytes) = DOMAIN db \ bytes
      /\ \A b \in DOMAIN db \ bytes : Drop(db, bytes)[b] = db[b]
  BY DEF Drop
<1> QED BY <1>1 DEF Same

\* Another index.
LEMMA SameOfOthers ==
    ASSUME NEW x, NEW y, x # y, NEW db, NEW new, Only(x, new, db), NEW mode
    PROVE  Same(y, mode, new, db)
BY DEF Only, Same

\* All of it stays as it was when neither items, nor metadata, nor links change.
LEMMA HoldsStill ==
    ASSUME NEW x \in Index, NEW db, NEW new, DOMAIN new \subseteq StoredBytes,
           \A mode \in {MetadataMode, LinksMode, ItemMode} : Same(x, mode, new, db),
           NEW d, NEW vs, NEW m, Holds(x, db, d, vs, m)
    PROVE  Holds(x, new, d, vs, m)
BY ItemsStill, NodesStill, MetadataStill DEF Holds

\* Marks change none of these.
LEMMA HoldsMarked ==
    ASSUME NEW x \in Index, NEW db, DOMAIN db \subseteq StoredBytes, NEW ids, ids \subseteq Item,
           NEW mark, NEW d, NEW vs, NEW m, Holds(x, db, d, vs, m)
    PROVE  Holds(x, Marked(db, x, ids, mark), d, vs, m)
<1> DEFINE new == Marked(db, x, ids, mark)
<1>1. DOMAIN new \subseteq StoredBytes
  <2>1. Only(x, db, db) BY DEF Only
  <2>2. Only(x, new, db) BY <2>1, OnlyMarked
  <2> QED BY <2>2 DEF Only
<1>2. \A mode \in {MetadataMode, LinksMode, ItemMode} : Same(x, mode, new, db)
  BY SameMarked DEF MetadataMode, LinksMode, ItemMode, UpdatedMode
<1> HIDE DEF new
<1>3. Holds(x, new, d, vs, m) BY <1>1, <1>2, HoldsStill
<1> QED BY <1>3 DEF new

\* Writing nodes that do not panic.
LEMMA NodesOver ==
    ASSUME NEW x, NEW f, NEW db, HoldsNodes(x, db), \A b \in DOMAIN f : NeverPanics(f[b])
    PROVE  HoldsNodes(x, Over(f, db))
<1>1. DOMAIN Over(f, db) = DOMAIN f \cup DOMAIN db BY DEF Over
<1>2. \A b \in DOMAIN Over(f, db) : Over(f, db)[b] = IF b \in DOMAIN f THEN f[b] ELSE db[b] BY DEF Over
<1> QED BY <1>1, <1>2 DEF HoldsNodes

\* And deleting some.
LEMMA NodesDrop ==
    ASSUME NEW x, NEW db, HoldsNodes(x, db), NEW bytes
    PROVE  HoldsNodes(x, Drop(db, bytes))
BY DEF HoldsNodes, Drop

-----------------------------------------------------------------------------
(* What the operations write. *)

Given == [Item -> [1 .. Dims -> Float] \cup {NoVector}]

Shapes == /\ dist \in [Index -> Distance]
          /\ given \in [Index -> Given]
          /\ DOMAIN built = Index

HoldsNow(x) == Holds(x, entries, dist[x], given[x], built[x])

\* An operation on index x, which leaves the writer's distance alone.
LEMMA DoesIs ==
    ASSUME Shapes, NEW x \in Index, NEW db, NEW vs, NEW m, Does(x, db, vs, m), UNCHANGED dist,
           Holds(x, db, dist[x], vs, m)
    PROVE  HoldsNow(x)'
<1>1. entries' = db /\ given'[x] = vs /\ built'[x] = m /\ dist' = dist BY DEF Does, Shapes
<1> QED BY <1>1 DEF HoldsNow

\* add_item: the index holds the vector.
LEMMA AddItemHolds ==
    ASSUME KeysStored, Shapes, NEW x \in Index, HoldsNow(x),
           NEW i \in Item, NEW v \in Vector, AddItem(x, i, v)
    PROVE  HoldsNow(x)'
<1> DEFINE d == dist[x]
           k == ItemKey(x, i)
           c == Encoded(d, v)
           g == KeptVector(d, v)
           db == Put(entries, k, c)
           vs == [given[x] EXCEPT ![i] = g]
<1>1. d \in Distance /\ given[x] \in Given BY DEF Shapes
<1>2. k \in StoredKey /\ k.index = x /\ k.mode = ItemMode BY KeysFit DEF ItemKey, Key
<1>3. HoldsVector(d, c, g) BY <1>1, VectorHeld
<1>4. HoldsItems(x, entries, d, given[x]) BY DEF HoldsNow, Holds
<1>5. DOMAIN db = DOMAIN entries \cup {KeyBytes(k)} /\ db[KeyBytes(k)] = c
      /\ \A b \in DOMAIN entries : b # KeyBytes(k) => db[b] = entries[b]
  BY DEF Put, Over
<1>6. DOMAIN db \subseteq StoredBytes BY <1>2, <1>5, StoredReadsBack DEF KeysStored
<1> HIDE DEF db, c, g
<1>7. HoldsItems(x, db, d, vs)
  <2> SUFFICES ASSUME NEW j \in Item
               PROVE  IF Has(db, ItemKey(x, j))
                      THEN HoldsVector(d, db[KeyBytes(ItemKey(x, j))], vs[j])
                      ELSE vs[j] = NoVector
    BY DEF HoldsItems
  <2>1. vs[j] = IF j = i THEN g ELSE given[x][j] BY <1>1 DEF Given
  <2>2. CASE j = i BY <1>3, <1>5, <2>1, <2>2 DEF Has
  <2>3. CASE j # i
    <3>1. ItemKey(x, j) \in StoredKey /\ ItemKey(x, j) # k BY <2>3, KeysFit DEF ItemKey, Key
    <3> DEFINE n == ItemKey(x, j)
    <3> HIDE DEF n, k, vs
    <3>2. KeyBytes(n) # KeyBytes(k) BY <1>2, <3>1, StoredReadsBack DEF n
    <3>3. IF Has(entries, n) THEN HoldsVector(d, entries[KeyBytes(n)], given[x][j])
                             ELSE given[x][j] = NoVector
      BY <1>4 DEF HoldsItems, n
    <3>4. IF Has(db, n) THEN HoldsVector(d, db[KeyBytes(n)], vs[j]) ELSE vs[j] = NoVector
      BY <1>5, <2>1, <2>3, <3>2, <3>3 DEF Has
    <3> QED BY <3>4 DEF n
  <2> QED BY <2>2, <2>3
<1>8. \A mode \in {MetadataMode, LinksMode} : Same(x, mode, db, entries)
  BY <1>2, SamePut DEF db, MetadataMode, LinksMode, ItemMode
<1>9. Holds(x, db, d, vs, built[x])
  BY <1>6, <1>7, <1>8, NodesStill, MetadataStill DEF HoldsNow, Holds
<1>10. Holds(x, Marked(db, x, {i}, "Updated"), d, vs, built[x]) BY <1>6, <1>9, HoldsMarked
<1> QED BY <1>10, DoesIs DEF AddItem, db, c, g

\* del_item: it no longer does.
LEMMA DelItemHolds ==
    ASSUME KeysStored, Shapes, NEW x \in Index, HoldsNow(x), NEW i \in Item, DelItem(x, i)
    PROVE  HoldsNow(x)'
<1> DEFINE d == dist[x]
           k == ItemKey(x, i)
           db == Drop(entries, {KeyBytes(k)})
           vs == [given[x] EXCEPT ![i] = NoVector]
<1>1. given[x] \in Given BY DEF Shapes
<1>2. k \in StoredKey /\ k.index = x /\ k.mode = ItemMode BY KeysFit DEF ItemKey, Key
<1>4. HoldsItems(x, entries, d, given[x]) BY DEF HoldsNow, Holds
<1>5. DOMAIN db = DOMAIN entries \ {KeyBytes(k)} /\ \A b \in DOMAIN db : db[b] = entries[b]
  BY DEF Drop
<1>6. DOMAIN db \subseteq StoredBytes BY <1>5 DEF KeysStored
<1> HIDE DEF db
<1>7. HoldsItems(x, db, d, vs)
  <2> SUFFICES ASSUME NEW j \in Item
               PROVE  IF Has(db, ItemKey(x, j))
                      THEN HoldsVector(d, db[KeyBytes(ItemKey(x, j))], vs[j])
                      ELSE vs[j] = NoVector
    BY DEF HoldsItems
  <2>1. vs[j] = IF j = i THEN NoVector ELSE given[x][j] BY <1>1 DEF Given
  <2>2. CASE j = i BY <1>5, <2>1, <2>2 DEF Has
  <2>3. CASE j # i
    <3>1. ItemKey(x, j) \in StoredKey /\ ItemKey(x, j) # k BY <2>3, KeysFit DEF ItemKey, Key
    <3> DEFINE n == ItemKey(x, j)
    <3> HIDE DEF n, k, vs
    <3>2. KeyBytes(n) # KeyBytes(k) BY <1>2, <3>1, StoredReadsBack DEF n
    <3>3. IF Has(entries, n) THEN HoldsVector(d, entries[KeyBytes(n)], given[x][j])
                             ELSE given[x][j] = NoVector
      BY <1>4 DEF HoldsItems, n
    <3>4. IF Has(db, n) THEN HoldsVector(d, db[KeyBytes(n)], vs[j]) ELSE vs[j] = NoVector
      BY <1>5, <2>1, <2>3, <3>2, <3>3 DEF Has
    <3> QED BY <3>4 DEF n
  <2> QED BY <2>2, <2>3
<1>8. \A mode \in {MetadataMode, LinksMode} : Same(x, mode, db, entries)
  <2>1. ReadKey(KeyBytes(k)).mode = ItemMode BY <1>2, StoredReadsBack
  <2> QED BY <2>1, SameDrop DEF db, MetadataMode, LinksMode, ItemMode
<1>9. Holds(x, db, d, vs, built[x])
  BY <1>6, <1>7, <1>8, NodesStill, MetadataStill DEF HoldsNow, Holds
<1>10. Holds(x, Marked(db, x, {i}, "Removed"), d, vs, built[x]) BY <1>6, <1>9, HoldsMarked
<1> QED BY <1>10, DoesIs DEF DelItem, db

\* An index without entries holds nothing.
LEMMA HoldsNothing ==
    ASSUME NEW x \in Index, NEW db, \A b \in DOMAIN db : ReadKey(b).index # x,
           NEW d, NEW vs, \A i \in Item : vs[i] = NoVector
    PROVE  Holds(x, db, d, vs, NotBuilt)
<1>1. \A k \in StoredKey : k.index = x => ~Has(db, k) BY StoredReadsBack DEF Has
<1>2. /\ \A i \in Item : ~Has(db, ItemKey(x, i))
      /\ ~Has(db, MetadataKey(x))
  <2>1. /\ \A i \in Item : ItemKey(x, i) \in StoredKey /\ ItemKey(x, i).index = x
        /\ MetadataKey(x) \in StoredKey /\ MetadataKey(x).index = x
    BY KeysFit DEF ItemKey, MetadataKey, Key
  <2> QED BY <1>1, <2>1
<1> QED BY <1>2 DEF Holds, HoldsItems, HoldsNodes, HoldsMetadata

\* clear: nothing is left.
LEMMA ClearHolds ==
    ASSUME KeysStored, Shapes, NEW x \in Index, Clear(x)
    PROVE  HoldsNow(x)'
<1> DEFINE all == Under(entries, PrefixAll(x))
           db == Drop(entries, all)
           vs == [i \in Item |-> NoVector]
<1>1. all = {b \in DOMAIN entries : ReadKey(b).index = x} BY OfKinds
<1>2. \A b \in DOMAIN db : ReadKey(b).index # x BY <1>1 DEF Drop
<1>3. \A i \in Item : vs[i] = NoVector OBVIOUS
<1> HIDE DEF all, vs
<1>4. Holds(x, db, dist[x], vs, NotBuilt) BY <1>2, <1>3, HoldsNothing
<1> QED BY <1>4, DoesIs DEF Clear, vs, all

\* Writing items anew, each with what another codec keeps of its vector.
LEMMA ItemsReencoded ==
    ASSUME KeysStored, NEW x \in Index, NEW d \in Distance, NEW nd \in Distance,
           <<d, nd>> \in Moves,
           NEW vs, HoldsItems(x, entries, d, vs),
           NEW rest, Same(x, ItemMode, rest, entries)
    PROVE  HoldsItems(x, Over([b \in Items(x) |-> Reencoded(d, nd, b)], rest), nd,
                      [i \in Item |-> KeptVector(nd, vs[i])])
<1> DEFINE f == [b \in Items(x) |-> Reencoded(d, nd, b)]
           db == Over(f, rest)
           ws == [i \in Item |-> KeptVector(nd, vs[i])]
<1> SUFFICES ASSUME NEW i \in Item
             PROVE  IF Has(db, ItemKey(x, i))
                    THEN HoldsVector(nd, db[KeyBytes(ItemKey(x, i))], ws[i])
                    ELSE ws[i] = NoVector
  BY DEF HoldsItems
<1> DEFINE k == ItemKey(x, i)
           b == KeyBytes(k)
<1>1. k \in StoredKey /\ k.index = x /\ k.mode = ItemMode BY KeysFit DEF ItemKey, Key
<1>2. b \in Items(x) <=> b \in DOMAIN entries
  <2>1. ItemMode \in MetadataMode .. ItemMode BY DEF ItemMode, MetadataMode
  <2>2. Items(x) = {c \in DOMAIN entries : ReadKey(c).index = x /\ ReadKey(c).mode = ItemMode}
    BY <2>1, Meets DEF Items, KeysStored
  <2>3. ReadKey(b) = k BY <1>1, StoredReadsBack
  <2> HIDE DEF k
  <2> QED BY <1>1, <2>2, <2>3
<1>3. b \in DOMAIN rest <=> b \in DOMAIN entries
  <2> HIDE DEF k
  <2> QED BY <1>1, SameKey
<1>4. IF Has(entries, k) THEN HoldsVector(d, entries[b], vs[i]) ELSE vs[i] = NoVector
  BY DEF HoldsItems
<1>5. ws[i] = KeptVector(nd, vs[i]) OBVIOUS
<1> HIDE DEF k, b, ws
<1>6. CASE b \in DOMAIN entries
  <2>1. b \in DOMAIN db /\ db[b] = Reencoded(d, nd, b) BY <1>2, <1>6 DEF Over
  <2>2. HoldsVector(d, entries[b], vs[i]) BY <1>4, <1>6 DEF Has, b
  <2>3. HoldsVector(nd, Reencoded(d, nd, b), ws[i]) BY <1>5, <2>2, VectorIsRead DEF Reencoded
  <2> HIDE DEF db
  <2>4. Has(db, k) BY <2>1 DEF Has, b
  <2> QED BY <2>1, <2>3, <2>4 DEF b, k
<1>7. CASE b \notin DOMAIN entries
  <2>1. b \notin DOMAIN db BY <1>2, <1>3, <1>7 DEF Over
  <2>2. ws[i] = NoVector BY <1>4, <1>5, <1>7 DEF Has, b, KeptVector
  <2> HIDE DEF db
  <2>3. ~Has(db, k) BY <2>1 DEF Has, b
  <2> QED BY <2>2, <2>3 DEF k
<1> QED BY <1>6, <1>7

\* prepare_changing_distance: the vectors of the new distance, and links and metadata either
\* as they were or none.
LEMMA PrepareChangingDistanceHolds ==
    ASSUME KeysStored, Shapes, NEW x \in Index, HoldsNow(x), NEW nd \in Distance,
           PrepareChangingDistance(x, nd)
    PROVE  HoldsNow(x)'
<1> DEFINE d == dist[x]
           keep == NameOf[nd] = BqPrefix \o NameOf[d]
           mk == KeyBytes(MetadataKey(x))
           gone == Under(entries, PrefixOf(x, LinksMode)) \cup {mk}
           rest == IF keep THEN entries ELSE Drop(entries, gone)
           f == [b \in Items(x) |-> Reencoded(d, nd, b)]
           ids == {IdOf(b) : b \in Items(x)}
           db == Over(f, rest)
           ws == [i \in Item |-> KeptVector(nd, given[x][i])]
           m == IF keep THEN built[x] ELSE NotBuilt
<1>1. d \in Distance /\ <<d, nd>> \in Moves BY DEF Shapes, PrepareChangingDistance
<1>2. /\ DOMAIN f = Items(x) /\ ids \subseteq Item
      /\ \A b \in Items(x) : b \in StoredBytes /\ b \in DOMAIN entries /\ ReadKey(b).index = x
  BY OfKinds
<1>3. \A b \in Items(x) : ReadKey(b).mode = ItemMode
  <2>1. ItemMode \in MetadataMode .. ItemMode BY DEF ItemMode, MetadataMode
  <2> QED BY <2>1, Meets DEF Items, KeysStored
<1>4. \A b \in gone : ReadKey(b).mode # ItemMode
  <2>1. LinksMode \in MetadataMode .. ItemMode BY DEF LinksMode, MetadataMode, ItemMode
  <2>2. \A b \in Under(entries, PrefixOf(x, LinksMode)) : ReadKey(b).mode = LinksMode
    BY <2>1, Meets DEF KeysStored
  <2>3. ReadKey(mk) = MetadataKey(x) BY KeysFit, StoredReadsBack
  <2> QED BY <2>2, <2>3 DEF MetadataKey, Key, MetadataMode, LinksMode, ItemMode
<1>5. mk \in gone OBVIOUS
<1>6. entries' = Marked(db, x, ids, "Updated") /\ given'[x] = ws /\ built'[x] = m /\ dist'[x] = nd
  BY DEF PrepareChangingDistance, Does, Shapes
<1>7. /\ HoldsItems(x, entries, d, given[x]) /\ HoldsNodes(x, entries)
      /\ HoldsMetadata(x, entries, built[x])
  BY DEF HoldsNow, Holds
<1> HIDE DEF keep, gone
<1>8. DOMAIN rest \subseteq StoredBytes BY DEF KeysStored, Drop
<1>9. Same(x, ItemMode, rest, entries)
  <2>1. Same(x, ItemMode, Drop(entries, gone), entries) BY <1>4, SameDrop
  <2> QED BY <2>1, SameSelf
<1>10. HoldsItems(x, db, nd, ws)
  <2> HIDE DEF rest
  <2> QED BY <1>1, <1>7, <1>9, ItemsReencoded
<1>11. HoldsNodes(x, rest) BY <1>7, NodesDrop
<1>12. HoldsMetadata(x, rest, m)
  <2>1. CASE keep BY <1>7, <2>1
  <2>2. CASE ~keep
    <3>1. ~Has(rest, MetadataKey(x)) /\ m = NotBuilt BY <1>5, <2>2 DEF Has, Drop
    <3> HIDE DEF rest, m
    <3> QED BY <3>1 DEF HoldsMetadata
  <2> QED BY <2>1, <2>2
<1> HIDE DEF rest, f, ids, ws, m
<1>13. DOMAIN db \subseteq StoredBytes BY <1>2, <1>8 DEF Over
<1>14. \A mode \in {MetadataMode, LinksMode} : Same(x, mode, db, rest)
  BY <1>2, <1>3, SameOver DEF MetadataMode, LinksMode, ItemMode
<1> HIDE DEF db
<1>15. Holds(x, db, nd, ws, m)
  BY <1>10, <1>11, <1>12, <1>13, <1>14, NodesStill, MetadataStill DEF Holds
<1>16. Holds(x, Marked(db, x, ids, "Updated"), nd, ws, m) BY <1>2, <1>13, <1>15, HoldsMarked
<1> QED BY <1>6, <1>16 DEF HoldsNow

\* What a conversion keeps: the items of the index, all of them.
LEMMA KeepsItems ==
    ASSUME KeysStored, Shapes, NEW x \in Index, HoldsNow(x)
    PROVE  {b \in Under(entries, PrefixAll(x)) : Survives(x, b)}
             = {b \in DOMAIN entries : ReadKey(b).index = x /\ ReadKey(b).mode = ItemMode}
<1>1. Under(entries, PrefixAll(x)) = {b \in DOMAIN entries : ReadKey(b).index = x} BY OfKinds
<1>2. ASSUME NEW b \in DOMAIN entries, ReadKey(b).index = x, ReadKey(b).mode = ItemMode
      PROVE  ReadNode(dist[x], entries[b]).kind = "item"
  <2> DEFINE k == ReadKey(b)
  <2>1. k \in StoredKey /\ b = KeyBytes(k) BY StoredReadsBack DEF KeysStored
  <2>2. k.item \in Item /\ k.layer = 0 BY <1>2, <2>1 DEF StoredKey
  <2>3. k = ItemKey(x, k.item)
    <3>1. k = [index |-> k.index, mode |-> k.mode, item |-> k.item, layer |-> k.layer]
      BY <2>1 DEF StoredKey, KeyOfIndex
    <3> QED BY <1>2, <2>2, <3>1 DEF ItemKey, Key
  <2>4. HoldsItems(x, entries, dist[x], given[x]) /\ dist[x] \in Distance
    BY DEF HoldsNow, Holds, Shapes
  <2>5. Has(entries, ItemKey(x, k.item)) BY <2>1, <2>3 DEF Has
  <2>6. HoldsVector(dist[x], entries[b], given[x][k.item]) BY <2>1, <2>2, <2>3, <2>4, <2>5 DEF HoldsItems
  <2> QED BY <2>4, <2>6, VectorIsRead
<1> QED BY <1>1, <1>2 DEF Survives

\* prepare_arroy_conversion: items, and nothing that could be read as another node.
LEMMA PrepareArroyConversionHolds ==
    ASSUME KeysStored, Shapes, NEW x \in Index, HoldsNow(x), PrepareArroyConversion(x)
    PROVE  HoldsNow(x)'
<1> DEFINE all == Under(entries, PrefixAll(x))
           kept == {b \in all : Survives(x, b)}
           ids == {IdOf(b) : b \in kept}
           db == Drop(entries, all \ kept)
<1>1. all = {b \in DOMAIN entries : ReadKey(b).index = x} BY OfKinds
<1>2. kept = {b \in DOMAIN entries : ReadKey(b).index = x /\ ReadKey(b).mode = ItemMode}
  BY KeepsItems
<1>3. ids \subseteq Item
  <2>1. \A b \in kept : ReadKey(b) \in StoredKey /\ ReadKey(b).mode = ItemMode
    BY <1>2, StoredReadsBack DEF KeysStored
  <2> QED BY <2>1 DEF StoredKey, IdOf
<1>4. Does(x, Marked(db, x, ids, "Updated"), given[x], NotBuilt) /\ UNCHANGED dist
  BY DEF PrepareArroyConversion
<1> HIDE DEF all, kept, ids
<1>5. DOMAIN db = DOMAIN entries \ (all \ kept) BY DEF Drop
<1>6. DOMAIN db \subseteq StoredBytes BY <1>5 DEF KeysStored
<1>7. \A b \in DOMAIN db : ReadKey(b).index = x => ReadKey(b).mode = ItemMode BY <1>1, <1>2, <1>5
<1>8. Same(x, ItemMode, db, entries)
  <2>1. \A b \in all \ kept : ReadKey(b).mode # ItemMode BY <1>1, <1>2
  <2> QED BY <2>1, SameDrop
<1> HIDE DEF db
<1>9. HoldsItems(x, db, dist[x], given[x]) BY <1>8, ItemsStill DEF HoldsNow, Holds
<1>10. HoldsNodes(x, db) BY <1>7 DEF HoldsNodes, ItemMode, MetadataMode, LinksMode
<1>11. HoldsMetadata(x, db, NotBuilt)
  <2>1. ReadKey(KeyBytes(MetadataKey(x))) = MetadataKey(x) BY KeysFit, StoredReadsBack
  <2>2. ~Has(db, MetadataKey(x)) BY <1>7, <2>1 DEF Has, MetadataKey, Key, MetadataMode, ItemMode
  <2> QED BY <2>2 DEF HoldsMetadata
<1>12. Holds(x, db, dist[x], given[x], NotBuilt) BY <1>9, <1>10, <1>11 DEF Holds
<1>13. Holds(x, Marked(db, x, ids, "Updated"), dist[x], given[x], NotBuilt)
  BY <1>3, <1>6, <1>12, HoldsMarked
<1> QED BY <1>4, <1>13, DoesIs

\* The greatest of some levels.
LEMMA TopIsByte ==
    ASSUME NEW S, S # {}, S \subseteq Level
    PROVE  Max(S) \in Byte
<1> DEFINE R == {n + 1 : n \in S}
<1>1. S \subseteq 0 .. Radix - 1 /\ Radix \in Nat BY LevelAssumption, Weights
<1>2. R \in SUBSET (1 .. Radix) /\ R # {} BY <1>1
<1>3. Max(R) \in R /\ \A n \in R : n <= Max(R)
  <2> HIDE DEF R
  <2> QED BY <1>1, <1>2, Ends
<1>4. PICK t \in S : Max(R) = t + 1 BY <1>3
<1>5. \A n \in S : n <= t
  <2> TAKE n \in S
  <2>1. n + 1 <= t + 1 BY <1>3, <1>4
  <2>2. n \in Int /\ t \in Int BY <1>1
  <2> QED BY <2>1, <2>2
<1>6. Max(S) \in S BY <1>5 DEF Max
<1> QED BY <1>1, <1>6 DEF Byte

\* Items are ids, and not too many.
LEMMA ItemsAre ==
    /\ Item \subseteq Id /\ IsFiniteSet(Item) /\ Item \subseteq Nat /\ Id \subseteq Nat
    /\ \A S \in SUBSET Item : 4 + 4 * Cardinality(S) \in Id
<1>1. Item \subseteq Id /\ 4 + 4 * Cardinality(Item) \in Id BY ItemAssumption DEF Id
<1>2. IsFiniteSet(Id) /\ Id \subseteq Nat
  <2>1. Weight(4) \in Nat BY Weights
  <2>2. 0 \in Int /\ Weight(4) - 1 \in Int BY <2>1
  <2>3. IsFiniteSet(0 .. Weight(4) - 1) BY <2>2, FS_Interval
  <2> QED BY <2>3 DEF Id
<1>3. IsFiniteSet(Item) BY <1>1, <1>2, FS_Subset
<1>4. ASSUME NEW S \in SUBSET Item PROVE 4 + 4 * Cardinality(S) \in Id
  <2> DEFINE n == Cardinality(S)
             o == Cardinality(Item)
  <2>1. n \in Nat /\ o \in Nat /\ n <= o BY <1>3, FS_Subset, FS_CardinalityType
  <2>2. 4 + 4 * o \in 0 .. Weight(4) - 1 /\ Weight(4) \in Nat BY ItemAssumption, Weights
  <2> HIDE DEF n, o
  <2>3. 4 + 4 * n \in 0 .. Weight(4) - 1 BY <2>1, <2>2
  <2> QED BY <2>3 DEF n, Id
<1> QED BY <1>1, <1>2, <1>3, <1>4

\* The metadata of a build is metadata that can be written.
LEMMA NewMetadataIs ==
    ASSUME NEW d \in Distance, NEW items, items \subseteq Item,
           NEW keys, keys \subseteq (Item \cup {0, 1}) \X Level
    PROVE  NewMetadata(d, items, keys) \in AnyMetadata /\ NewMetadata(d, items, keys).items = items
<1> DEFINE top == IF keys = {} THEN 0 ELSE Max({k[2] : k \in keys})
           points == {i \in items : <<i, top>> \in keys}
           eps == Ascending(points)
<1>1. NewMetadata(d, items, keys) = [dist |-> d, dims |-> Dims, items |-> items, top |-> top, eps |-> eps]
  BY DEF NewMetadata
<1>2. top \in Byte
  <2>1. CASE keys = {}
    <3>1. 0 \in Byte BY Weights DEF Byte
    <3> QED BY <2>1, <3>1
  <2>2. CASE keys # {}
    <3> DEFINE S == {k[2] : k \in keys}
    <3>1. S # {} /\ S \subseteq Level BY <2>2
    <3> HIDE DEF S
    <3>2. Max(S) \in Byte BY <3>1, TopIsByte
    <3> QED BY <2>2, <3>2 DEF S
  <2> QED BY <2>1, <2>2
<1> HIDE DEF top
<1>3. Item \subseteq Id /\ IsFiniteSet(Item) /\ Id \subseteq Nat BY ItemsAre
<1>4. IsFiniteSet(items) /\ IsFiniteSet(points) /\ items \in SUBSET Id /\ points \in SUBSET Nat
  <2>1. points \subseteq Item OBVIOUS
  <2> QED BY <1>3, <2>1, FS_Subset
<1>5. 4 + 4 * Cardinality(items) \in Id BY ItemsAre
<1>6. eps \in Seq(Id)
  <2>1. eps \in [1 .. Cardinality(points) -> points] BY <1>4, AscendingIs
  <2>2. Cardinality(points) \in Nat /\ points \subseteq Id BY <1>3, <1>4, FS_CardinalityType
  <2> HIDE DEF eps, points
  <2> QED BY <2>1, <2>2
<1>7. Dims \in Id BY DimsAssumption DEF Id
<1> HIDE DEF eps
<1> QED BY <1>1, <1>2, <1>4, <1>5, <1>6, <1>7 DEF AnyMetadata

\* build: the items stay, the marks go, and metadata says what was built.
LEMMA BuildHolds ==
    ASSUME KeysStored, Shapes, NEW x \in Index, HoldsNow(x), NEW l \in Level, Build(x, l)
    PROVE  HoldsNow(x)'
<1> DEFINE all     == {IdOf(b) : b \in Marks(x)}
           removed == {IdOf(b) : b \in {n \in Marks(x) : ReadStatus(entries[n]) = "Removed"}}
           indices == ((all \ removed) \cup StoredMetadata(x).items) \ removed
           rest    == Drop(entries, Marks(x))
           keys    == {k \in LevelsOf(rest, x) : k[1] \in indices}
                      \cup {<<i, h>> : i \in indices \cap all, h \in 0 .. l}
           gone    == {b \in Under(rest, PrefixOf(x, LinksMode)) : IdOf(b) \in all \ indices}
           pruned  == Drop(rest, gone)
           linked  == WithLinks(pruned, x, keys)
           m       == NewMetadata(dist[x], indices, keys)
           first   == Put(linked, MetadataKey(x), MetadataBytes(m))
           db      == Put(first, VersionKey(x), VersionBytes(0, 1, 0))
<1>1. Does(x, db, given[x], m) /\ UNCHANGED dist BY DEF Build
<1>2. dist[x] \in Distance BY DEF Shapes
<1>3. /\ HoldsItems(x, entries, dist[x], given[x]) /\ HoldsNodes(x, entries)
      /\ HoldsMetadata(x, entries, built[x])
  BY DEF HoldsNow, Holds
<1>4. all \subseteq Item /\ \A b \in Marks(x) : ReadKey(b).index = x BY OfKinds
<1>5. StoredMetadata(x).items \subseteq Item BY <1>3 DEF HoldsMetadata, StoredMetadata
<1>6. indices \subseteq Item BY <1>4, <1>5
<1>7. \A b \in Marks(x) : ReadKey(b).mode = UpdatedMode
  <2>1. UpdatedMode \in MetadataMode .. ItemMode BY DEF UpdatedMode, ItemMode, MetadataMode
  <2> QED BY <2>1, Meets DEF Marks, KeysStored
<1> HIDE DEF all, removed, indices
<1>8. DOMAIN rest \subseteq StoredBytes BY DEF Drop, KeysStored
<1>9. Same(x, ItemMode, rest, entries)
  <2>1. \A b \in Marks(x) : ReadKey(b).mode # ItemMode BY <1>7 DEF UpdatedMode, ItemMode
  <2> QED BY <2>1, SameDrop
<1>10. HoldsNodes(x, rest) BY <1>3, NodesDrop
<1> HIDE DEF rest
<1>11. LinksMode \in MetadataMode .. ItemMode BY DEF LinksMode, MetadataMode, ItemMode
<1>12. \A b \in Under(rest, PrefixOf(x, LinksMode)) :
         b \in DOMAIN rest /\ b \in StoredBytes /\ ReadKey(b).index = x /\ ReadKey(b).mode = LinksMode
  BY <1>8, <1>11, Meets
<1>13. keys \subseteq (Item \cup {0, 1}) \X Level
  <2>1. \A b \in Under(rest, PrefixOf(x, LinksMode)) :
          IdOf(b) \in Item \cup {0, 1} /\ ReadKey(b).layer \in Level
    BY <1>12, StoredReadsBack DEF StoredKey, KeyOfIndex, IdOf
  <2>2. LevelsOf(rest, x) \subseteq (Item \cup {0, 1}) \X Level BY <2>1 DEF LevelsOf
  <2> QED BY <1>6, <2>2, LevelAssumption
<1>14. m \in AnyMetadata /\ m.items = indices
  <2> HIDE DEF keys
  <2> QED BY <1>2, <1>6, <1>13, NewMetadataIs
<1>15. \A b \in gone : ReadKey(b).mode = LinksMode BY <1>12
<1> HIDE DEF keys, gone, m
<1>16. Same(x, ItemMode, pruned, rest) BY <1>15, SameDrop DEF LinksMode, ItemMode
<1>17. DOMAIN pruned \subseteq StoredBytes /\ HoldsNodes(x, pruned) BY <1>8, <1>10, NodesDrop DEF Drop
<1> HIDE DEF pruned
<1>18. DOMAIN linked \subseteq StoredBytes /\ Same(x, ItemMode, linked, pruned) /\ HoldsNodes(x, linked)
  <2> DEFINE links == {LinksKey(x, k[1], k[2]) : k \in keys}
             at == {KeyBytes(k) : k \in links}
             ids(b) == {i \in Item : <<i, ReadKey(b).layer>> \in keys} \ {ReadKey(b).item}
             f == [b \in at |-> LinksNode(ids(b))]
  <2>1. linked = Over(f, pruned) BY DEF WithLinks, PutAll
  <2>2. DOMAIN f = at /\ \A b \in at : f[b] = LinksNode(ids(b)) OBVIOUS
  <2>3. \A k \in links : k \in StoredKey /\ k.mode = LinksMode
    <3>1. ASSUME NEW k \in keys PROVE LET n == LinksKey(x, k[1], k[2])
                                      IN  n \in StoredKey /\ n.mode = LinksMode
      BY <1>13, KeysFit DEF LinksKey, Key
    <3> QED BY <3>1
  <2>4. IsFiniteSet(Item) /\ Item \subseteq Nat BY ItemsAre
  <2>5. ASSUME NEW b \in at PROVE NeverPanics(f[b])
    <3>1. ids(b) \in SUBSET Nat /\ IsFiniteSet(ids(b))
      <4>1. ids(b) \subseteq Item OBVIOUS
      <4> HIDE DEF ids
      <4> QED BY <2>4, <4>1, FS_Subset
    <3> HIDE DEF ids, f, at
    <3>2. \A d \in Distance : ReadNode(d, LinksNode(ids(b))).kind = "links" BY <3>1, LinksAre
    <3> QED BY <2>2, <3>2 DEF NeverPanics
  <2> HIDE DEF linked, links, f
  <2>6. \A b \in at : b \in StoredBytes /\ ReadKey(b).mode = LinksMode BY <2>3, StoredReadsBack
  <2> HIDE DEF at
  <2>7. DOMAIN Over(f, pruned) = DOMAIN f \cup DOMAIN pruned BY DEF Over
  <2>8. DOMAIN linked \subseteq StoredBytes BY <1>17, <2>1, <2>2, <2>6, <2>7
  <2>9. Same(x, ItemMode, Over(f, pruned), pruned) BY <2>2, <2>6, SameOver DEF LinksMode, ItemMode
  <2>10. HoldsNodes(x, Over(f, pruned)) BY <1>17, <2>2, <2>5, NodesOver
  <2> QED BY <2>1, <2>8, <2>9, <2>10
<1> HIDE DEF linked
<1> DEFINE mk == MetadataKey(x)
           vk == VersionKey(x)
           mb == MetadataBytes(m)
           vb == VersionBytes(0, 1, 0)
<1>19. /\ mk \in StoredKey /\ vk \in StoredKey /\ mk # vk
       /\ mk.mode = MetadataMode /\ vk.mode = MetadataMode
  BY KeysFit DEF MetadataKey, VersionKey, Key
<1>20. /\ NeverPanics(mb) /\ ReadMetadata(mb).items = indices /\ NeverPanics(vb)
  BY <1>14, MetadataIsRead, VersionIsNoNode DEF NeverPanics
<1> HIDE DEF mb, vb, mk, vk
<1>21. KeyBytes(mk) # KeyBytes(vk) /\ KeyBytes(mk) \in StoredBytes /\ KeyBytes(vk) \in StoredBytes
  BY <1>19, StoredReadsBack
<1>22. /\ DOMAIN db \subseteq StoredBytes
       /\ KeyBytes(mk) \in DOMAIN db /\ db[KeyBytes(mk)] = mb
  <2>1. DOMAIN first = DOMAIN linked \cup {KeyBytes(mk)} /\ first[KeyBytes(mk)] = mb
    BY DEF Put, Over, mk, mb
  <2> HIDE DEF first
  <2>2. /\ DOMAIN db = DOMAIN first \cup {KeyBytes(vk)}
        /\ \A b \in DOMAIN first : b # KeyBytes(vk) => db[b] = first[b]
    BY DEF Put, Over, vk, vb
  <2> HIDE DEF db
  <2> QED BY <1>18, <1>21, <2>1, <2>2
<1>23. HoldsNodes(x, db)
  <2> DEFINE f == [b \in {KeyBytes(mk)} |-> mb]
             g == [b \in {KeyBytes(vk)} |-> vb]
  <2>1. /\ \A b \in DOMAIN f : NeverPanics(f[b])
        /\ \A b \in DOMAIN g : NeverPanics(g[b])
    BY <1>20
  <2>2. first = Over(f, linked) /\ db = Over(g, first) BY DEF Put, mk, mb, vk, vb
  <2> HIDE DEF f, g, first, db
  <2>3. HoldsNodes(x, first) BY <1>18, <2>1, <2>2, NodesOver
  <2> QED BY <2>1, <2>2, <2>3, NodesOver
<1>24. Same(x, ItemMode, db, entries)
  <2>1. Same(x, ItemMode, first, linked) BY <1>19, SamePut DEF mk, mb, MetadataMode, ItemMode
  <2>2. Same(x, ItemMode, db, first)
    <3> HIDE DEF first
    <3> QED BY <1>19, SamePut DEF vk, vb, MetadataMode, ItemMode
  <2> HIDE DEF first, db
  <2> QED BY <1>9, <1>16, <1>18, <2>1, <2>2, SameAgain
<1> HIDE DEF first, db
<1>25. HoldsItems(x, db, dist[x], given[x]) BY <1>3, <1>24, ItemsStill
<1>26. HoldsMetadata(x, db, m)
  BY <1>6, <1>14, <1>20, <1>22 DEF HoldsMetadata, Has, mk, mb
<1>27. Holds(x, db, dist[x], given[x], m) BY <1>23, <1>25, <1>26 DEF Holds
<1> QED BY <1>1, <1>27, DoesIs

-----------------------------------------------------------------------------
(* Always. *)

\* Every index holds what it should.
StoreHolds == KeysStored /\ Shapes /\ \A x \in Index : HoldsNow(x)

\* An operation on an index.
Step(x) == \/ \E i \in Item, v \in Vector : AddItem(x, i, v)
           \/ \E i \in Item : DelItem(x, i)
           \/ Clear(x)
           \/ \E nd \in Distance : PrepareChangingDistance(x, nd)
           \/ PrepareArroyConversion(x)
           \/ \E l \in Level : Build(x, l)

\* There are no other steps.
LEMMA NextIsStep == Next <=> \E x \in Index : Step(x)
BY DEF Next, Step

\* It writes what belongs to the index.
LEMMA StepDoes ==
    ASSUME NEW x, Step(x)
    PROVE  /\ \E db, vs, m : Does(x, db, vs, m)
           /\ UNCHANGED dist \/ \E nd \in Distance : dist' = [dist EXCEPT ![x] = nd]
<1>1. ASSUME NEW i \in Item, NEW v \in Vector, AddItem(x, i, v)
      PROVE  (\E db, vs, m : Does(x, db, vs, m)) /\ UNCHANGED dist
  BY <1>1 DEF AddItem
<1>2. ASSUME NEW i \in Item, DelItem(x, i) PROVE (\E db, vs, m : Does(x, db, vs, m)) /\ UNCHANGED dist
  BY <1>2 DEF DelItem
<1>3. ASSUME Clear(x) PROVE (\E db, vs, m : Does(x, db, vs, m)) /\ UNCHANGED dist
  BY <1>3 DEF Clear
<1>4. ASSUME NEW nd \in Distance, PrepareChangingDistance(x, nd)
      PROVE  (\E db, vs, m : Does(x, db, vs, m)) /\ dist' = [dist EXCEPT ![x] = nd]
  BY <1>4 DEF PrepareChangingDistance
<1>5. ASSUME PrepareArroyConversion(x) PROVE (\E db, vs, m : Does(x, db, vs, m)) /\ UNCHANGED dist
  BY <1>5 DEF PrepareArroyConversion
<1>6. ASSUME NEW l \in Level, Build(x, l) PROVE (\E db, vs, m : Does(x, db, vs, m)) /\ UNCHANGED dist
  BY <1>6 DEF Build
<1> QED BY <1>1, <1>2, <1>3, <1>4, <1>5, <1>6 DEF Step

\* Steps keep the shapes.
LEMMA StepShapes ==
    ASSUME Shapes, Next
    PROVE  Shapes'
<1>1. ASSUME NEW x \in Index, NEW db, NEW vs \in Given, NEW m, Does(x, db, vs, m),
             UNCHANGED dist \/ \E nd \in Distance : dist' = [dist EXCEPT ![x] = nd]
      PROVE  Shapes'
  BY <1>1 DEF Shapes, Does
<1>2. \A d \in Distance, g \in [1 .. Dims -> Float] \cup {NoVector} :
        KeptVector(d, g) \in [1 .. Dims -> Float] \cup {NoVector}
  <2> TAKE d \in Distance, g \in [1 .. Dims -> Float] \cup {NoVector}
  <2>1. CASE g = NoVector BY <2>1 DEF KeptVector
  <2>2. CASE g # NoVector
    <3>1. g \in [1 .. Dims -> Float] /\ CodecOf[d] \in Codec BY <2>2, DistanceAssumption
    <3>2. \A k \in 1 .. Dims : Kept(CodecOf[d], g[k]) \in Float BY <3>1, KeptIsFloat
    <3>3. KeptVector(d, g) = [k \in 1 .. Dims |-> Kept(CodecOf[d], g[k])] BY <2>2 DEF KeptVector
    <3> QED BY <3>2, <3>3
  <2> QED BY <2>1, <2>2
<1>3. PICK x \in Index : Step(x) BY NextIsStep
<1>4. given[x] \in Given /\ dist[x] \in Distance BY DEF Shapes
<1>5. ASSUME NEW i \in Item, NEW v \in Vector, AddItem(x, i, v) PROVE Shapes'
  <2>1. v \in [1 .. Dims -> Float] \cup {NoVector} BY VectorAssumption
  <2> DEFINE g == KeptVector(dist[x], v)
  <2>2. g \in [1 .. Dims -> Float] \cup {NoVector} BY <1>2, <1>4, <2>1
  <2> HIDE DEF g
  <2>3. [given[x] EXCEPT ![i] = g] \in Given BY <1>4, <2>2 DEF Given
  <2> QED BY <1>1, <1>5, <2>3 DEF AddItem, g
<1>6. ASSUME NEW i \in Item, DelItem(x, i) PROVE Shapes'
  <2>1. [given[x] EXCEPT ![i] = NoVector] \in Given BY <1>4 DEF Given
  <2> QED BY <1>1, <1>6, <2>1 DEF DelItem
<1>7. CASE Clear(x)
  <2>1. [i \in Item |-> NoVector] \in Given BY DEF Given
  <2> QED BY <1>1, <1>7, <2>1 DEF Clear
<1>8. ASSUME NEW nd \in Distance, PrepareChangingDistance(x, nd) PROVE Shapes'
  <2>1. [i \in Item |-> KeptVector(nd, given[x][i])] \in Given
    <3>1. \A i \in Item : given[x][i] \in [1 .. Dims -> Float] \cup {NoVector} BY <1>4 DEF Given
    <3> QED BY <1>2, <3>1 DEF Given
  <2> DEFINE ws == [i \in Item |-> KeptVector(nd, given[x][i])]
  <2>2. \E db, m : Does(x, db, ws, m) BY <1>8 DEF PrepareChangingDistance
  <2>3. dist' = [dist EXCEPT ![x] = nd] BY <1>8 DEF PrepareChangingDistance
  <2> HIDE DEF ws
  <2> QED BY <1>1, <2>1, <2>2, <2>3 DEF ws
<1>9. CASE PrepareArroyConversion(x)
  <2>1. (\E db, m : Does(x, db, given[x], m)) /\ UNCHANGED dist BY <1>9 DEF PrepareArroyConversion
  <2> QED BY <1>1, <1>4, <2>1
<1>10. ASSUME NEW l \in Level, Build(x, l) PROVE Shapes'
  <2>1. (\E db, m : Does(x, db, given[x], m)) /\ UNCHANGED dist BY <1>10 DEF Build
  <2> QED BY <1>1, <1>4, <2>1
<1> QED BY <1>3, <1>5, <1>6, <1>7, <1>8, <1>9, <1>10 DEF Step

\* A step changes what one index holds, rightly, and nothing that others do.
LEMMA StepHolds ==
    ASSUME StoreHolds, [Next]_vars
    PROVE  StoreHolds'
<1>1. CASE UNCHANGED vars
  <2>1. /\ entries' = entries /\ dist' = dist /\ given' = given /\ built' = built BY <1>1 DEF vars
  <2> QED BY <2>1 DEF StoreHolds, KeysStored, Shapes, HoldsNow
<1>2. CASE Next
  <2>1. PICK x \in Index : Step(x) BY <1>2, NextIsStep
  <2>2. Only(x, entries', entries)
    BY <2>1, AddItemOnly, DelItemOnly, ClearOnly, PrepareChangingDistanceOnly,
       PrepareArroyConversionOnly, BuildOnly DEF StoreHolds, Step
  <2>3. HoldsNow(x)'
    BY <2>1, AddItemHolds, DelItemHolds, ClearHolds, PrepareChangingDistanceHolds,
       PrepareArroyConversionHolds, BuildHolds DEF StoreHolds, Step
  <2>4. ASSUME NEW y \in Index, y # x PROVE HoldsNow(y)'
    <3>1. given'[y] = given[y] /\ built'[y] = built[y] /\ dist'[y] = dist[y]
      BY <2>1, <2>4, StepDoes DEF Does, StoreHolds, Shapes
    <3>2. \A mode \in {MetadataMode, LinksMode, ItemMode} : Same(y, mode, entries', entries)
      BY <2>2, <2>4, SameOfOthers
    <3>3. Holds(y, entries, dist[y], given[y], built[y]) BY DEF StoreHolds, HoldsNow
    <3>4. DOMAIN entries' \subseteq StoredBytes BY <2>2 DEF Only
    <3>5. Holds(y, entries', dist[y], given[y], built[y]) BY <3>2, <3>3, <3>4, HoldsStill
    <3> QED BY <3>1, <3>5 DEF HoldsNow
  <2>5. Shapes' BY <1>2, StepShapes DEF StoreHolds
  <2>6. KeysStored' BY <2>2 DEF Only, KeysStored
  <2>7. \A y \in Index : HoldsNow(y)' BY <2>3, <2>4
  <2> QED BY <2>5, <2>6, <2>7 DEF StoreHolds
<1> QED BY <1>1, <1>2

\* What arroy leaves is held as well.
LEMMA StoreHoldsAtFirst == Init => StoreHolds
<1> SUFFICES ASSUME Init PROVE StoreHolds OBVIOUS
<1> DEFINE v == CHOOSE u \in Vector : TRUE
           keys == UNION {ArroyKeys(x) : x \in FromArroy}
           some(d) == KeptVector(d, v)
<1>1. PICK d \in Distance :
        /\ dist = [x \in Index |-> d]
        /\ entries = [b \in {KeyBytes(k) : k \in keys} |-> ArroyValue(d, ReadKey(b))]
        /\ given = [x \in Index |-> [i \in Item |-> IF x \in FromArroy THEN some(d) ELSE NoVector]]
        /\ built = [x \in Index |-> NotBuilt]
  BY DEF Init
<1>2. v \in Vector
  <2>1. Vector # {} BY VectorAssumption
  <2> QED BY <2>1
<1>3. HoldsVector(d, Encoded(d, v), some(d)) BY <1>2, VectorHeld
<1>4. some(d) \in [1 .. Dims -> Float]
  <2> HIDE DEF some
  <2> QED BY <1>3, VectorIsRead
<1>5. KeysStored BY KeysStoredAtFirst
<1>6. Shapes BY <1>1, <1>4 DEF Shapes, Given
<1>7. ASSUME NEW x \in FromArroy PROVE ArroyKeys(x) \subseteq StoredKey
  <2>1. x \in Index BY IndexAssumption
  <2> QED BY <2>1, KeysFit, LevelAssumption DEF ArroyKeys
<1>8. ASSUME NEW k \in StoredKey
      PROVE  /\ KeyBytes(k) \in DOMAIN entries <=> k \in keys
             /\ k \in keys => entries[KeyBytes(k)] = ArroyValue(d, k)
  <2>1. keys \subseteq StoredKey BY <1>7
  <2> HIDE DEF keys
  <2>2. \A n \in keys : KeyBytes(n) = KeyBytes(k) => n = k BY <2>1, StoredReadsBack
  <2>3. ReadKey(KeyBytes(k)) = k BY StoredReadsBack
  <2> QED BY <1>1, <2>2, <2>3
<1>9. \A k \in keys : \E x \in FromArroy : k \in ArroyKeys(x) OBVIOUS
<1>10. \A x \in FromArroy : \A k \in ArroyKeys(x) : k \in keys OBVIOUS
<1>11. \A x, k : k \in ArroyKeys(x) => k.index = x
  BY DEF ArroyKeys, ItemKey, UpdatedKey, LinksKey, MetadataKey, Key
<1> HIDE DEF keys, some, v
<1>12. ASSUME NEW x \in Index PROVE HoldsNow(x)
  <2>1. CASE x \notin FromArroy
    <3>1. \A b \in DOMAIN entries : ReadKey(b).index # x
      BY <1>5, <1>8, <1>9, <1>11, <2>1, StoredReadsBack DEF KeysStored
    <3>2. \A i \in Item : given[x][i] = NoVector BY <1>1, <2>1
    <3>3. built[x] = NotBuilt BY <1>1
    <3>4. Holds(x, entries, dist[x], given[x], NotBuilt) BY <3>1, <3>2, HoldsNothing
    <3> QED BY <3>3, <3>4 DEF HoldsNow
  <2>2. CASE x \in FromArroy
    <3>1. dist[x] = d /\ built[x] = NotBuilt /\ \A i \in Item : given[x][i] = some(d) BY <1>1, <2>2
    <3>2. HoldsItems(x, entries, d, given[x])
      <4> SUFFICES ASSUME NEW i \in Item
                   PROVE  /\ Has(entries, ItemKey(x, i))
                          /\ HoldsVector(d, entries[KeyBytes(ItemKey(x, i))], given[x][i])
        BY DEF HoldsItems
      <4> DEFINE k == ItemKey(x, i)
      <4>1. k \in StoredKey /\ k \in ArroyKeys(x) BY KeysFit DEF ArroyKeys
      <4>2. k \in keys BY <1>10, <2>2, <4>1
      <4>3. ArroyValue(d, k) = Encoded(d, v)
        <5>1. k.mode = ItemMode BY DEF ItemKey, Key
        <5> HIDE DEF k
        <5> QED BY <5>1 DEF ArroyValue, ArroyVector, Encoded, v, ItemMode, UpdatedMode, LinksMode, MetadataMode
      <4> HIDE DEF k
      <4>4. KeyBytes(k) \in DOMAIN entries /\ entries[KeyBytes(k)] = Encoded(d, v) BY <1>8, <4>1, <4>2, <4>3
      <4>5. HoldsVector(d, entries[KeyBytes(k)], given[x][i]) BY <1>3, <3>1, <4>4
      <4> QED BY <4>4, <4>5 DEF Has, k
    <3> DEFINE m == [dist |-> d, dims |-> Dims, items |-> Item, eps |-> <<1>>, top |-> 0]
    <3>3. m \in AnyMetadata /\ m.items = Item
      <4>1. Dims \in Id BY DimsAssumption DEF Id
      <4>2. Item \in SUBSET Id /\ 4 + 4 * Cardinality(Item) \in Id BY ItemsAre
      <4>3. 1 \in Id
        <5>1. \A k \in StoredKey : k.item \in 0 .. Weight(4) - 1 BY StoredFits DEF AnyKey
        <5>2. VersionKey(x) \in StoredKey /\ VersionKey(x).item = 1 BY KeysFit DEF VersionKey, Key
        <5> QED BY <5>1, <5>2 DEF Id
      <4>4. <<1>> \in Seq(Id) BY <4>3
      <4>5. 0 \in Byte BY Weights DEF Byte
      <4> QED BY <4>1, <4>2, <4>4, <4>5 DEF AnyMetadata
    <3> HIDE DEF m
    <3>4. HoldsNodes(x, entries)
      <4> SUFFICES ASSUME NEW b \in DOMAIN entries, ReadKey(b).index = x,
                          ReadKey(b).mode \in {MetadataMode, LinksMode}
                   PROVE  NeverPanics(entries[b])
        BY DEF HoldsNodes
      <4> DEFINE k == ReadKey(b)
      <4>1. k \in StoredKey /\ b = KeyBytes(k) BY <1>5, StoredReadsBack DEF KeysStored
      <4>2. k \in keys /\ entries[b] = ArroyValue(d, k) BY <1>8, <4>1
      <4>3. k \in ArroyKeys(x) BY <1>9, <1>11, <4>2
      <4>4. k \in {LinksKey(x, 0, 0), LinksKey(x, 1, 0), MetadataKey(x)}
        BY <4>3 DEF ArroyKeys, ItemKey, UpdatedKey, Key, MetadataMode, LinksMode, ItemMode, UpdatedMode
      <4> HIDE DEF k
      <4>5. CASE k = LinksKey(x, 0, 0)
        <5>1. ArroyValue(d, k) = LinksNode(Item)
          <6>1. k.mode = LinksMode /\ k.item = 0 BY <4>5 DEF LinksKey, Key
          <6> QED BY <6>1 DEF ArroyValue, ItemMode, UpdatedMode, LinksMode, MetadataMode
        <5>2. Item \in SUBSET Nat /\ IsFiniteSet(Item) BY ItemsAre
        <5>3. \A nd \in Distance : ReadNode(nd, LinksNode(Item)).kind = "links" BY <5>2, LinksAre
        <5> QED BY <4>2, <5>1, <5>3 DEF NeverPanics
      <4>6. CASE k = LinksKey(x, 1, 0)
        <5> DEFINE a == ArroyVector(d)
                   t == <<2>>
        <5>1. ArroyValue(d, k) = t \o a
          <6>1. k.mode = LinksMode /\ k.item # 0 BY <4>6 DEF LinksKey, Key
          <6> QED BY <6>1 DEF ArroyValue, ItemMode, UpdatedMode, LinksMode, MetadataMode
        <5>2. a \in Seq(Byte)
          <6>1. v \in Seq(Float)
            <7>1. v \in [1 .. Dims -> Float] /\ Dims \in Nat BY <1>2, VectorAssumption, ItemsAre, DimsAssumption
            <7> QED BY <7>1
          <6>2. a = FromSlice(CodecOf[d], v) BY DEF ArroyVector, v
          <6>3. CodecOf[d] \in Codec BY DistanceAssumption
          <6> QED BY <6>1, <6>2, <6>3, SliceFits
        <5>3. t \in Seq(Byte) /\ Len(t) >= 1 /\ t[1] = 2
          <6>1. 2 \in Byte BY Weights DEF Byte
          <6> QED BY <6>1
        <5> HIDE DEF a, t
        <5> DEFINE r == t \o a
        <5>4. r \in Seq(Byte) /\ Len(r) >= 1 /\ r[1] = 2 BY <5>2, <5>3, FirstOf
        <5> HIDE DEF r
        <5>5. r # <<>> /\ r[1] \notin {0, 1}
          <6>1. Len(<<>>) = 0 OBVIOUS
          <6> QED BY <5>4, <6>1
        <5>6. \A nd : ReadNode(nd, r) = NodeError BY <5>5, NoNode
        <5> QED BY <4>2, <5>1, <5>6 DEF NeverPanics, NodeError, r
      <4>7. CASE k = MetadataKey(x)
        <5>1. ArroyValue(d, k) = Front(MetadataBytes(m))
          <6>1. k.mode = MetadataMode BY <4>7 DEF MetadataKey, Key
          <6> QED BY <6>1 DEF ArroyValue, ItemMode, UpdatedMode, LinksMode, MetadataMode, m
        <5>2. \A nd : ReadNode(nd, Front(MetadataBytes(m))).kind = "error" BY <3>3, MetadataIsRead
        <5> QED BY <4>2, <5>1, <5>2 DEF NeverPanics
      <4> QED BY <4>4, <4>5, <4>6, <4>7
    <3>5. HoldsMetadata(x, entries, NotBuilt)
      <4> DEFINE k == MetadataKey(x)
      <4>1. k \in StoredKey /\ k \in ArroyKeys(x) /\ k.mode = MetadataMode
        BY KeysFit DEF ArroyKeys, MetadataKey, Key
      <4> HIDE DEF k
      <4>2. entries[KeyBytes(k)] = ArroyValue(d, k) BY <1>8, <1>10, <2>2, <4>1
      <4>3. ArroyValue(d, k) = Front(MetadataBytes(m))
        BY <4>1 DEF ArroyValue, ItemMode, UpdatedMode, LinksMode, MetadataMode, m
      <4>4. ReadMetadata(entries[KeyBytes(k)]).items = Item BY <3>3, <4>2, <4>3, MetadataIsRead
      <4> QED BY <4>4 DEF HoldsMetadata, k
    <3>6. Holds(x, entries, d, given[x], NotBuilt) BY <3>2, <3>4, <3>5 DEF Holds
    <3> QED BY <3>1, <3>6 DEF HoldsNow
  <2> QED BY <2>1, <2>2
<1> QED BY <1>5, <1>6, <1>12 DEF StoreHolds

\* Every index always holds, byte for byte, what the client and the builds gave it: each item
\* a vector the codec takes for the one counted on, the metadata what the last build wrote, and
\* nothing among metadata and links that panics when it is read as a node.
THEOREM AlwaysHolds == Spec => []StoreHolds
<1>1. StoreHolds /\ [Next]_vars => StoreHolds' BY StepHolds
<1> QED BY <1>1, StoreHoldsAtFirst, PTL DEF Spec

\* Vectors are read back as the codec keeps them, by to_vec and by iter, after any additions,
\* changes of distance and conversions, for any dimensions and words of any width.
THEOREM VectorsAreReadBack == Spec => []VectorsReadBack
<1>1. StoreHolds => VectorsReadBack
  <2> SUFFICES ASSUME StoreHolds, NEW x \in Index, NEW i \in Item
      PROVE  IF ~Has(entries, ItemKey(x, i)) THEN given[x][i] = NoVector
             ELSE LET node == ReadNode(dist[x], entries[KeyBytes(ItemKey(x, i))])
                  IN  /\ node.kind = "item"
                      /\ Truncated(ToVec(CodecOf[dist[x]], node.vector), Dims) = given[x][i]
                      /\ Truncated(Iter(CodecOf[dist[x]], node.vector), Dims) = given[x][i]
    BY DEF VectorsReadBack
  <2>1. dist[x] \in Distance /\ HoldsItems(x, entries, dist[x], given[x])
    BY DEF StoreHolds, Shapes, HoldsNow, Holds
  <2> QED BY <2>1, VectorIsRead DEF HoldsItems
<1> QED BY <1>1, AlwaysHolds, PTL

\* Clients that make only changes of distance in which padding stays padding have every item
\* stored as it would be if it were read and added again; without that `bq_to_raw' shows
\* what prepare_changing_distance stores.
THEOREM ItemsAreAsAdded == ASSUME PaddingStaysPadding PROVE Spec => []StoredAsAdded
<1>1. StoreHolds => StoredAsAdded
  <2> SUFFICES ASSUME StoreHolds, NEW x \in Index, NEW i \in Item, Has(entries, ItemKey(x, i))
      PROVE  LET stored == entries[KeyBytes(ItemKey(x, i))]
                 v      == Truncated(ToVec(CodecOf[dist[x]], ReadNode(dist[x], stored).vector), Dims)
             IN  stored = Encoded(dist[x], v)
    BY DEF StoredAsAdded
  <2>1. dist[x] \in Distance /\ HoldsItems(x, entries, dist[x], given[x])
    BY DEF StoreHolds, Shapes, HoldsNow, Holds
  <2> DEFINE stored == entries[KeyBytes(ItemKey(x, i))]
  <2>2. HoldsVector(dist[x], stored, given[x][i]) BY <2>1 DEF HoldsItems
  <2> HIDE DEF stored
  <2>3. /\ Truncated(ToVec(CodecOf[dist[x]], ReadNode(dist[x], stored).vector), Dims) = given[x][i]
        /\ stored = Encoded(dist[x], given[x][i])
    BY <2>1, <2>2, VectorIsRead
  <2> QED BY <2>3 DEF stored
<1> QED BY <1>1, AlwaysHolds, PTL

\* Metadata is read back as the last build wrote it, for any number of items, entry points
\* and levels.
THEOREM MetadataIsReadBack == Spec => []MetadataReadsBack
<1>1. StoreHolds => MetadataReadsBack
  BY MetadataIsRead DEF StoreHolds, HoldsNow, Holds, HoldsMetadata, MetadataReadsBack
<1> QED BY <1>1, AlwaysHolds, PTL

\* Reading all entries of an index as nodes panics on marks only.
THEOREM MarksAlonePanic == Spec => []OnlyMarksPanic
<1>1. StoreHolds => OnlyMarksPanic
  <2> SUFFICES ASSUME StoreHolds, NEW b \in DOMAIN entries, Panics(ReadKey(b).index, b)
               PROVE  ReadKey(b).mode = UpdatedMode
    BY DEF OnlyMarksPanic
  <2> DEFINE k == ReadKey(b)
             x == k.index
  <2>1. k \in StoredKey /\ b = KeyBytes(k) BY StoredReadsBack DEF StoreHolds, KeysStored
  <2>2. x \in Index /\ k.mode \in MetadataMode .. ItemMode BY <2>1 DEF StoredKey, KeyOfIndex
  <2>3. HoldsNow(x) /\ dist[x] \in Distance BY <2>2 DEF StoreHolds, Shapes
  <2>4. ~(k.mode \in {MetadataMode, LinksMode})
    <3>1. HoldsNodes(x, entries) BY <2>3 DEF HoldsNow, Holds
    <3>2. ReadNode(dist[x], entries[b]).kind = "panic" BY DEF Panics
    <3> QED BY <2>3, <3>1, <3>2 DEF HoldsNodes, NeverPanics
  <2>5. k.mode # ItemMode
    <3> SUFFICES ASSUME k.mode = ItemMode PROVE FALSE OBVIOUS
    <3>1. b \in {c \in DOMAIN entries : ReadKey(c).index = x /\ ReadKey(c).mode = ItemMode} OBVIOUS
    <3> HIDE DEF k, x
    <3>2. Survives(x, b) BY <2>2, <2>3, <3>1, KeepsItems DEF StoreHolds
    <3> QED BY <3>2 DEF Survives, Panics, x, k
  <2>6. k.mode \in {0, 1, 2, 3} BY <2>2 DEF MetadataMode, ItemMode
  <2> QED BY <2>4, <2>5, <2>6 DEF MetadataMode, UpdatedMode, LinksMode, ItemMode
<1> QED BY <1>1, AlwaysHolds, PTL

\* A conversion leaves the items of the index as they are, and a mark for each of them, and
\* nothing else of it.
THEOREM ItemsAreKept == Spec => ConversionKeepsItems
<1>1. StoreHolds /\ StoreHolds' /\ [Next]_vars =>
        [\A x \in Index : PrepareArroyConversion(x) =>
           LET items == {KeyBytes(ItemKey(x, i)) : i \in {j \in Item : given[x][j] # NoVector}}
           IN  OfIndex(entries', x) =
                 {<<b, entries[b]>> : b \in items}
                 \cup {<<KeyBytes(UpdatedKey(x, IdOf(b))), StatusBytes("Updated")>> : b \in items}]_vars
  <2> SUFFICES ASSUME StoreHolds, NEW x \in Index, PrepareArroyConversion(x)
      PROVE  LET items == {KeyBytes(ItemKey(x, i)) : i \in {j \in Item : given[x][j] # NoVector}}
             IN  OfIndex(entries', x) =
                   {<<b, entries[b]>> : b \in items}
                   \cup {<<KeyBytes(UpdatedKey(x, IdOf(b))), StatusBytes("Updated")>> : b \in items}
    OBVIOUS
  <2> DEFINE items == {KeyBytes(ItemKey(x, i)) : i \in {j \in Item : given[x][j] # NoVector}}
             all == Under(entries, PrefixAll(x))
             kept == {b \in all : Survives(x, b)}
             ids == {IdOf(b) : b \in kept}
             db == Drop(entries, all \ kept)
             marks == {UpdatedKey(x, i) : i \in ids}
             at == {KeyBytes(k) : k \in marks}
             f == [b \in at |-> StatusBytes("Updated")]
             c == StatusBytes("Updated")
  <2>1. all = {b \in DOMAIN entries : ReadKey(b).index = x} BY OfKinds DEF StoreHolds
  <2>2. kept = {b \in DOMAIN entries : ReadKey(b).index = x /\ ReadKey(b).mode = ItemMode}
    BY KeepsItems DEF StoreHolds
  <2>3. kept = items
    <3>1. ASSUME NEW b \in kept PROVE b \in items
      <4> DEFINE k == ReadKey(b)
      <4>1. k \in StoredKey /\ b = KeyBytes(k) /\ k.mode = ItemMode /\ k.index = x
        BY <2>2, StoredReadsBack DEF StoreHolds, KeysStored
      <4>2. k.item \in Item /\ k.layer = 0 BY <4>1 DEF StoredKey
      <4>3. k = ItemKey(x, k.item)
        <5>1. k = [index |-> k.index, mode |-> k.mode, item |-> k.item, layer |-> k.layer]
          BY <4>1 DEF StoredKey, KeyOfIndex
        <5> QED BY <4>1, <4>2, <5>1 DEF ItemKey, Key
      <4> HIDE DEF k
      <4>4. Has(entries, ItemKey(x, k.item)) BY <2>2, <4>1, <4>3 DEF Has
      <4>5. given[x][k.item] # NoVector
        <5>1. HoldsItems(x, entries, dist[x], given[x]) /\ dist[x] \in Distance
          BY DEF StoreHolds, Shapes, HoldsNow, Holds
        <5> QED BY <4>2, <4>4, <5>1, VectorIsRead DEF HoldsItems
      <4> QED BY <4>1, <4>2, <4>3, <4>5
    <3>2. ASSUME NEW i \in Item, given[x][i] # NoVector PROVE KeyBytes(ItemKey(x, i)) \in kept
      <4>1. Has(entries, ItemKey(x, i)) BY <3>2 DEF StoreHolds, HoldsNow, Holds, HoldsItems
      <4>2. ItemKey(x, i) \in StoredKey /\ ItemKey(x, i).index = x /\ ItemKey(x, i).mode = ItemMode
        BY KeysFit DEF ItemKey, Key
      <4> QED BY <2>2, <4>1, <4>2, StoredReadsBack DEF Has
    <3> HIDE DEF kept
    <3> QED BY <3>1, <3>2
  <2>4. entries' = Marked(db, x, ids, "Updated") BY DEF PrepareArroyConversion, Does
  <2>5. \A b \in items : IdOf(b) \in Item
    <3>1. \A b \in kept : ReadKey(b) \in StoredKey /\ ReadKey(b).mode = ItemMode
      BY <2>2, StoredReadsBack DEF StoreHolds, KeysStored
    <3> QED BY <2>3, <3>1 DEF StoredKey, IdOf
  <2> HIDE DEF all, kept, items
  <2>6. Marked(db, x, ids, "Updated") = Over(f, db) BY DEF Marked, PutAll
  <2>7. DOMAIN db = DOMAIN entries \ (all \ kept) /\ \A b \in DOMAIN db : db[b] = entries[b] BY DEF Drop
  <2>8. DOMAIN f = at /\ \A b \in at : f[b] = c OBVIOUS
  <2>9. at = {KeyBytes(UpdatedKey(x, IdOf(b))) : b \in items} BY <2>3
  <2> HIDE DEF db, ids, at, f, c
  <2>10. \A b \in at : ReadKey(b).index = x /\ b \notin kept
    <3> SUFFICES ASSUME NEW a \in items PROVE LET b == KeyBytes(UpdatedKey(x, IdOf(a)))
                                             IN  ReadKey(b).index = x /\ b \notin kept
      BY <2>9
    <3>1. UpdatedKey(x, IdOf(a)) \in StoredKey BY <2>5, KeysFit
    <3> DEFINE k == UpdatedKey(x, IdOf(a))
    <3>2. k.index = x /\ k.mode = UpdatedMode BY DEF UpdatedKey, Key
    <3> HIDE DEF k
    <3>3. ReadKey(KeyBytes(k)) = k BY <3>1, StoredReadsBack DEF k
    <3> QED BY <2>2, <3>2, <3>3 DEF k, UpdatedMode, ItemMode
  <2>11. DOMAIN entries' = at \cup DOMAIN db
         /\ \A b \in DOMAIN entries' : entries'[b] = IF b \in at THEN c ELSE db[b]
    BY <2>4, <2>6, <2>8 DEF Over
  <2>12. \A b : b \in DOMAIN entries' /\ ReadKey(b).index = x <=> b \in at \/ b \in kept
    BY <2>1, <2>2, <2>7, <2>10, <2>11
  <2>13. OfIndex(entries', x) = {<<b, entries'[b]>> : b \in kept \cup at}
    BY <2>12 DEF OfIndex
  <2>14. \A b \in kept : entries'[b] = entries[b] BY <2>2, <2>7, <2>10, <2>11
  <2>15. \A b \in at : entries'[b] = c BY <2>11
  <2>16. {<<b, entries'[b]>> : b \in kept \cup at}
           = {<<b, entries[b]>> : b \in kept} \cup {<<b, c>> : b \in at}
    BY <2>14, <2>15
  <2>17. {<<b, c>> : b \in at} = {<<KeyBytes(UpdatedKey(x, IdOf(b))), c>> : b \in items} BY <2>9
  <2> QED BY <2>3, <2>13, <2>16, <2>17 DEF items, c
<1> QED BY <1>1, AlwaysHolds, PTL DEF Spec, ConversionKeepsItems

\* Binary quantized, hosts differ on minus zero.
AllTold(codec, v) == codec = "binary quantized" => \A k \in 1 .. Dims : v[k] # NegZero

\* The vector instructions store the first coordinates of a vector as the portable code does.
LEMMA HostStores ==
    ASSUME WordBytes = BitsPerByte, NEW v \in [1 .. Dims -> Float], NEW codec \in Codec \ {"f32"},
           AllTold(codec, v), NEW n \in 0 .. Dims
    PROVE  FromSliceNeon(codec, Truncated(v, n)) = FromSlice(codec, Truncated(v, n))
<1> DEFINE u == Truncated(v, n)
<1>1. Dims \in Nat BY DimsAssumption
<1>2. v \in Seq(Float) /\ Len(v) = Dims /\ n \in Nat /\ n <= Dims BY <1>1
<1>3. u = [k \in 1 .. n |-> v[k]]
  <2>1. u = SubSeq(v, 1, n) BY <1>1, <1>2 DEF Truncated
  <2>2. SubSeq(v, 1, n) = [k \in 1 .. n |-> v[k]] BY <1>2
  <2> QED BY <2>1, <2>2
<1>4. \A k \in 1 .. n : k \in 1 .. Dims BY <1>1, <1>2
<1> HIDE DEF u
<1>5. u \in Seq(Float) /\ Len(u) = n
  <2>1. u \in [1 .. n -> Float] BY <1>3, <1>4
  <2> QED BY <1>2, <2>1
<1>6. ASSUME NEW k \in 1 .. n PROVE NeonBit(codec, u[k]) = Bit(codec, u[k])
  <2> DEFINE c == v[k]
  <2>1. u[k] = c /\ c \in Float /\ (codec = "binary quantized" => c # NegZero)
    BY <1>3, <1>4 DEF AllTold
  <2> HIDE DEF c
  <2>2. c \in {0, 1, 2, 3} BY <2>1 DEF Float, Zero, One, NegZero, MinusOne
  <2>3. NeonBit(codec, c) = Bit(codec, c)
    <3>1. CASE codec = "binary"
      <4>1. NeonBit(codec, c) = IF c = 1 THEN 1 ELSE 0 BY <3>1 DEF NeonBit, One
      <4>2. Bit(codec, c) = IF c < 2 /\ c > 0 THEN 1 ELSE 0 BY <3>1 DEF Bit, IsPositive, NegZero
      <4>3. (IF c = 1 THEN 1 ELSE 0) = (IF c < 2 /\ c > 0 THEN 1 ELSE 0) BY <2>2
      <4> QED BY <4>1, <4>2, <4>3
    <3>2. CASE codec = "binary quantized"
      <4>1. NeonBit(codec, c) = IF c = 3 THEN 0 ELSE 1 BY <3>2 DEF NeonBit, MinusOne
      <4>2. Bit(codec, c) = IF c < 2 THEN 1 ELSE 0 BY <3>2 DEF Bit, IsSignPositive, NegZero
      <4>3. c # 2 BY <2>1, <3>2 DEF NegZero
      <4>4. (IF c = 3 THEN 0 ELSE 1) = (IF c < 2 THEN 1 ELSE 0) BY <2>2, <4>3
      <4> QED BY <4>1, <4>2, <4>4
    <3> QED BY <3>1, <3>2 DEF Codec
  <2> QED BY <2>1, <2>3
<1>7. FromSliceNeon(codec, u) = FromSlice(codec, u) BY <1>5, <1>6, NeonSame
<1> QED BY <1>7 DEF u

\* The vector instructions of hosts with words of as many bytes as a byte has bits store what
\* the portable code stores, for any number of dimensions.
THEOREM HostsAlwaysAgree == ASSUME WordBytes = BitsPerByte PROVE Spec => []HostsAgree
<1>1. StoreHolds => HostsAgree
  <2> SUFFICES ASSUME StoreHolds, NEW x \in Index, NEW i \in Item, NEW codec \in Codec \ {"f32"},
                      given[x][i] # NoVector, AllTold(codec, given[x][i]), NEW n \in 0 .. Dims
               PROVE  FromSliceNeon(codec, Truncated(given[x][i], n))
                        = FromSlice(codec, Truncated(given[x][i], n))
    BY DEF HostsAgree, AllTold
  <2>1. given[x][i] \in [1 .. Dims -> Float] BY DEF StoreHolds, Shapes, Given
  <2> QED BY <2>1, HostStores
<1> QED BY <1>1, AlwaysHolds, PTL

\* What is kept of two coordinates differs as their bits do.
LEMMA BitsTell ==
    ASSUME NEW codec \in Codec \ {"f32"}, NEW p \in Float, NEW q \in Float,
           Kept(codec, p) = p, Kept(codec, q) = q
    PROVE  /\ Bit(codec, p) # Bit(codec, q) <=> Num(p) # Num(q)
           /\ codec = "binary" => Num(p) \in {0, 1} /\ Num(q) \in {0, 1}
           /\ codec = "binary quantized" => Num(p) \in {1, -1} /\ Num(q) \in {1, -1}
<1>1. \A c : Num(c) = IF c = 1 THEN 1 ELSE IF c = 3 THEN -1 ELSE 0 BY DEF Num, One, MinusOne
<1>2. CASE codec = "binary"
  <2>1. \A c : Kept(codec, c) = IF c = 1 THEN 1 ELSE 0 BY <1>2 DEF Kept, One, Zero
  <2>2. p \in {0, 1} /\ q \in {0, 1} BY <2>1
  <2>3. \A c : Bit(codec, c) = IF c < 2 /\ c > 0 THEN 1 ELSE 0 BY <1>2 DEF Bit, IsPositive, NegZero
  <2>4. \A c \in {0, 1} : Bit(codec, c) = c /\ Num(c) = c
    <3>1. \A c \in {0, 1} : (IF c < 2 /\ c > 0 THEN 1 ELSE 0) = c
                            /\ (IF c = 1 THEN 1 ELSE IF c = 3 THEN -1 ELSE 0) = c
      OBVIOUS
    <3> QED BY <1>1, <2>3, <3>1
  <2>5. codec # "binary quantized" BY <1>2
  <2> QED BY <2>2, <2>4, <2>5
<1>3. CASE codec = "binary quantized"
  <2>1. \A c : Kept(codec, c) = IF c \in {0, 1} THEN 1 ELSE 3 BY <1>3 DEF Kept, One, Zero, MinusOne
  <2>2. p \in {1, 3} /\ q \in {1, 3} BY <2>1
  <2>3. \A c : Bit(codec, c) = IF c < 2 THEN 1 ELSE 0 BY <1>3 DEF Bit, IsSignPositive, NegZero
  <2>4. /\ \A c \in {1, 3} : Bit(codec, c) = (IF c = 1 THEN 1 ELSE 0) /\ Num(c) = (IF c = 1 THEN 1 ELSE -1)
        /\ 1 # 0 /\ 1 # -1
    <3>1. \A c \in {1, 3} : (IF c < 2 THEN 1 ELSE 0) = (IF c = 1 THEN 1 ELSE 0)
                /\ (IF c = 1 THEN 1 ELSE IF c = 3 THEN -1 ELSE 0) = (IF c = 1 THEN 1 ELSE -1)
      OBVIOUS
    <3> QED BY <1>1, <2>3, <3>1
  <2>5. codec # "binary" BY <1>3
  <2>6. /\ (Bit(codec, p) = IF p = 1 THEN 1 ELSE 0) /\ (Bit(codec, q) = IF q = 1 THEN 1 ELSE 0)
        /\ (Num(p) = IF p = 1 THEN 1 ELSE -1) /\ (Num(q) = IF q = 1 THEN 1 ELSE -1)
    BY <2>2, <2>4
  <2> QED BY <2>4, <2>5, <2>6
<1> QED BY <1>2, <1>3 DEF Codec

\* The distances of vectors a codec keeps, by how many coordinates differ.
LEMMA DistancesAre ==
    ASSUME NEW codec \in Codec \ {"f32"}, NEW u \in [1 .. Dims -> Float], NEW v \in [1 .. Dims -> Float],
           \A k \in 1 .. Dims : Kept(codec, u[k]) = u[k] /\ Kept(codec, v[k]) = v[k],
           NEW c \in Nat, c = UpToIn(DiffersAt(codec, u, v), Dims)
    PROVE  /\ codec = "binary" => SumOver(u, v, LAMBDA p, q : IF p = q THEN 0 ELSE 1) = c
           /\ codec = "binary quantized" =>
                /\ SumOver(u, v, LAMBDA p, q : (p - q) * (p - q)) = 4 * c
                /\ SumOver(u, v, LAMBDA p, q : IF p = q THEN 0 ELSE 2) = 2 * c
                /\ SumOver(u, v, LAMBDA p, q : p * q) = Dims - 2 * c
<1> DEFINE S == DiffersAt(codec, u, v)
           p(k) == Num(u[k])
           q(k) == Num(v[k])
<1>1. Dims \in Nat BY DimsAssumption
<1>2. Len(u) = Dims BY <1>1
<1>3. ASSUME NEW k \in 1 .. Dims
      PROVE  /\ k \in S <=> p(k) # q(k)
             /\ codec = "binary" => p(k) \in {0, 1} /\ q(k) \in {0, 1}
             /\ codec = "binary quantized" => p(k) \in {1, -1} /\ q(k) \in {1, -1}
  <2>1. u[k] \in Float /\ v[k] \in Float OBVIOUS
  <2>2. k \in S <=> Bit(codec, u[k]) # Bit(codec, v[k]) BY <1>2 DEF DiffersAt
  <2> QED BY <2>1, <2>2, BitsTell
<1> HIDE DEF S, p, q
<1>4. ASSUME NEW t \in Int, NEW d \in Int, NEW a \in [1 .. Dims -> Int], Stepped(a, t, d, S)
      PROVE  SumFunction(a) = t * Dims + d * c
  <2>1. SumFunction(a) = t * Dims + d * UpToIn(S, Dims) BY <1>1, <1>4, WeightedSum
  <2> QED BY <2>1 DEF S
<1>5. ASSUME codec = "binary" PROVE SumOver(u, v, LAMBDA x, y : IF x = y THEN 0 ELSE 1) = c
  <2> DEFINE f(k) == IF p(k) = q(k) THEN 0 ELSE 1
             a == [k \in 1 .. Dims |-> f(k)]
             t == 0
             d == 1
  <2>1. SumOver(u, v, LAMBDA x, y : IF x = y THEN 0 ELSE 1) = SumFunction(a) BY DEF SumOver, p, q
  <2>2. \A k \in 1 .. Dims : f(k) = (IF k \in S THEN 1 ELSE 0) /\ f(k) \in Int
    <3>1. \A k \in 1 .. Dims : k \in S <=> p(k) # q(k) BY <1>3
    <3> QED BY <3>1
  <2> HIDE DEF f
  <2>3. a \in [1 .. Dims -> Int] /\ Stepped(a, t, d, S) BY <2>2 DEF Stepped
  <2>4. t \in Int /\ d \in Int /\ t * Dims + d * c = c BY <1>1
  <2> HIDE DEF a, t, d
  <2> QED BY <1>4, <2>1, <2>2, <2>3, <2>4
<1>6. ASSUME codec = "binary quantized"
      PROVE  SumOver(u, v, LAMBDA x, y : (x - y) * (x - y)) = 4 * c
  <2> DEFINE a == [k \in 1 .. Dims |-> (p(k) - q(k)) * (p(k) - q(k))]
             t == 0
             d == 4
  <2>1. SumOver(u, v, LAMBDA x, y : (x - y) * (x - y)) = SumFunction(a) BY DEF SumOver, p, q
  <2>2. \A k \in 1 .. Dims : /\ (p(k) - q(k)) * (p(k) - q(k)) = IF k \in S THEN 4 ELSE 0
                             /\ (p(k) - q(k)) * (p(k) - q(k)) \in Int
    <3> TAKE k \in 1 .. Dims
    <3> DEFINE x == p(k)
               y == q(k)
    <3>1. x \in {1, -1} /\ y \in {1, -1} /\ (k \in S <=> x # y) BY <1>3, <1>6
    <3> HIDE DEF x, y
    <3>2. (x - y) * (x - y) = (IF k \in S THEN 4 ELSE 0) /\ (x - y) * (x - y) \in Int
      <4>1. CASE x = y
        <5>1. (x - y) * (x - y) = 0 /\ k \notin S BY <3>1, <4>1
        <5> QED BY <5>1
      <4>2. CASE x # y
        <5>1. (x = 1 /\ y = -1) \/ (x = -1 /\ y = 1) BY <3>1, <4>2
        <5>2. (x - y) * (x - y) = 4 BY <5>1
        <5>3. k \in S BY <3>1, <4>2
        <5> QED BY <5>2, <5>3
      <4> QED BY <4>1, <4>2
    <3> QED BY <3>2 DEF x, y
  <2> DEFINE f(k) == (p(k) - q(k)) * (p(k) - q(k))
  <2>3. a = [k \in 1 .. Dims |-> f(k)] /\ \A k \in 1 .. Dims : f(k) = (IF k \in S THEN 4 ELSE 0) /\ f(k) \in Int
    BY <2>2
  <2> HIDE DEF f, a
  <2>4. a \in [1 .. Dims -> Int] BY <2>3
  <2>5. Stepped(a, t, d, S) BY <2>3 DEF Stepped
  <2>6. t \in Int /\ d \in Int /\ t * Dims + d * c = 4 * c BY <1>1
  <2> HIDE DEF t, d
  <2> QED BY <1>4, <2>1, <2>4, <2>5, <2>6
<1>7. ASSUME codec = "binary quantized"
      PROVE  SumOver(u, v, LAMBDA x, y : IF x = y THEN 0 ELSE 2) = 2 * c
  <2> DEFINE f(k) == IF p(k) = q(k) THEN 0 ELSE 2
             a == [k \in 1 .. Dims |-> f(k)]
             t == 0
             d == 2
  <2>1. SumOver(u, v, LAMBDA x, y : IF x = y THEN 0 ELSE 2) = SumFunction(a) BY DEF SumOver, p, q
  <2>2. \A k \in 1 .. Dims : f(k) = (IF k \in S THEN 2 ELSE 0) /\ f(k) \in Int
    <3>1. \A k \in 1 .. Dims : k \in S <=> p(k) # q(k) BY <1>3
    <3> QED BY <3>1
  <2> HIDE DEF f
  <2>3. a \in [1 .. Dims -> Int] /\ Stepped(a, t, d, S) BY <2>2 DEF Stepped
  <2>4. t \in Int /\ d \in Int /\ t * Dims + d * c = 2 * c BY <1>1
  <2> HIDE DEF a, t, d
  <2> QED BY <1>4, <2>1, <2>2, <2>3, <2>4
<1>8. ASSUME codec = "binary quantized"
      PROVE  SumOver(u, v, LAMBDA x, y : x * y) = Dims - 2 * c
  <2> DEFINE f(k) == p(k) * q(k)
             a == [k \in 1 .. Dims |-> f(k)]
             t == 1
             d == -2
  <2>1. SumOver(u, v, LAMBDA x, y : x * y) = SumFunction(a) BY DEF SumOver, p, q
  <2>2. \A k \in 1 .. Dims : f(k) = (IF k \in S THEN -1 ELSE 1) /\ f(k) \in Int
    <3> TAKE k \in 1 .. Dims
    <3> DEFINE x == p(k)
               y == q(k)
    <3>1. x \in {1, -1} /\ y \in {1, -1} /\ (k \in S <=> x # y) BY <1>3, <1>8
    <3>2. f(k) = x * y OBVIOUS
    <3> HIDE DEF x, y, f
    <3>3. CASE x = y
      <4>1. x * y = 1 /\ k \notin S BY <3>1, <3>3
      <4> QED BY <3>2, <4>1
    <3>4. CASE x # y
      <4>1. (x = 1 /\ y = -1) \/ (x = -1 /\ y = 1) BY <3>1, <3>4
      <4>2. x * y = -1 BY <4>1
      <4>3. k \in S BY <3>1, <3>4
      <4> QED BY <3>2, <4>2, <4>3
    <3> QED BY <3>3, <3>4
  <2> HIDE DEF f
  <2>3. a \in [1 .. Dims -> Int] BY <2>2
  <2>4. Stepped(a, t, d, S) BY <2>2 DEF Stepped
  <2>5. t \in Int /\ d \in Int /\ t * Dims + d * c = Dims - 2 * c BY <1>1
  <2> HIDE DEF a, t, d
  <2> QED BY <1>4, <2>1, <2>3, <2>4, <2>5
<1> QED BY <1>5, <1>6, <1>7, <1>8

\* For any dimensions, bytes and words, with clients that make only changes of distance in
\* which padding stays padding: the squared euclidean and the manhattan distance are those
\* of the quantized vectors, the hamming distance is the number of positions that differ,
\* and the cosine distance that of the quantized vectors, over the padded dimensions.
THEOREM QuantizedDistancesAre == ASSUME PaddingStaysPadding PROVE Spec => []QuantizedDistances
<1>1. ASSUME StoreHolds, NEW x \in Index, CodecOf[dist[x]] # "f32",
             NEW i \in {k \in Item : given[x][k] # NoVector}
      PROVE  /\ ReadNode(dist[x], entries[KeyBytes(ItemKey(x, i))]).vector
                  = FromSlice(CodecOf[dist[x]], given[x][i])
             /\ given[x][i] \in [1 .. Dims -> Float]
             /\ \A k \in 1 .. Dims : Kept(CodecOf[dist[x]], given[x][i][k]) = given[x][i][k]
  <2> DEFINE d == dist[x]
             g == given[x][i]
             bytes == entries[KeyBytes(ItemKey(x, i))]
  <2>1. d \in Distance /\ HoldsItems(x, entries, d, given[x])
    BY <1>1 DEF StoreHolds, Shapes, HoldsNow, Holds
  <2>2. HoldsVector(d, bytes, g) BY <1>1, <2>1 DEF HoldsItems
  <2> HIDE DEF bytes, g
  <2>3. g \in [1 .. Dims -> Float] /\ bytes = Encoded(d, g) BY <2>1, <2>2, VectorIsRead
  <2>4. CodecOf[d] \in Codec BY <2>1, DistanceAssumption
  <2>5. ReadNode(d, bytes).vector = FromSlice(CodecOf[d], g)
    <3> DEFINE s == FromSlice(CodecOf[d], g)
    <3>1. g \in Seq(Float) BY <2>3, DimsAssumption
    <3>2. s \in Seq(Byte) /\ Fits(CodecOf[d], s) BY <2>4, <3>1, SliceFits
    <3>3. bytes = ItemNode(d, s) BY <2>3 DEF Encoded
    <3> HIDE DEF s, d
    <3>4. ReadNode(d, ItemNode(d, s)) = [kind |-> "item", vector |-> s] BY <2>1, <3>2, ItemIs
    <3> QED BY <3>3, <3>4 DEF s
  <2>6. \A k \in 1 .. Dims : Kept(CodecOf[d], g[k]) = g[k]
    <3> TAKE k \in 1 .. Dims
    <3>1. PICK w \in Seq(Float) : /\ Len(w) >= Dims
                                  /\ g = [m \in 1 .. Dims |-> Kept(CodecOf[d], w[m])]
      BY <2>2 DEF HoldsVector
    <3>2. k \in 1 .. Len(w)
      <4>1. Dims \in Nat BY DimsAssumption
      <4> QED BY <3>1, <4>1
    <3>3. w[k] \in Float BY <3>2, ElementOfSeq
    <3>4. g[k] = Kept(CodecOf[d], w[k]) BY <3>1
    <3> QED BY <2>4, <3>3, <3>4, KeptIsKept
  <2> QED BY <2>3, <2>5, <2>6 DEF bytes, g
<1>2. StoreHolds => QuantizedDistances
  <2> SUFFICES ASSUME StoreHolds, NEW x \in Index, CodecOf[dist[x]] # "f32",
                      NEW i \in {k \in Item : given[x][k] # NoVector},
                      NEW j \in {k \in Item : given[x][k] # NoVector}
               PROVE  LET at(n) == ReadNode(dist[x], entries[KeyBytes(ItemKey(x, n))]).vector
                          u == given[x][i]
                          v == given[x][j]
                          padded == OnDiskDims(dist[x])
                      IN  IF CodecOf[dist[x]] = "binary"
                          THEN HammingDistance(at(i), at(j))
                                 = <<SumOver(u, v, LAMBDA p, q : IF p = q THEN 0 ELSE 1), padded>>
                          ELSE /\ SquaredEuclidean(at(i), at(j))
                                    = SumOver(u, v, LAMBDA p, q : (p - q) * (p - q))
                               /\ Manhattan(at(i), at(j))
                                    = SumOver(u, v, LAMBDA p, q : IF p = q THEN 0 ELSE 2)
                               /\ CosineDistance(at(i), at(j))
                                    = IF Dims = 0 THEN <<0, 1>>
                                      ELSE <<Dims - SumOver(u, v, LAMBDA p, q : p * q), 2 * padded>>
    BY DEF QuantizedDistances
  <2> DEFINE codec == CodecOf[dist[x]]
             u == given[x][i]
             v == given[x][j]
             a == ReadNode(dist[x], entries[KeyBytes(ItemKey(x, i))]).vector
             b == ReadNode(dist[x], entries[KeyBytes(ItemKey(x, j))]).vector
             c == UpToIn(DiffersAt(codec, u, v), Dims)
             m == WordBits * Words(codec, Dims)
  <2>1. codec \in Codec \ {"f32"} BY DistanceAssumption DEF StoreHolds, Shapes
  <2>2. a = FromSlice(codec, u) /\ u \in [1 .. Dims -> Float] /\ \A k \in 1 .. Dims : Kept(codec, u[k]) = u[k]
    BY <1>1
  <2>3. b = FromSlice(codec, v) /\ v \in [1 .. Dims -> Float] /\ \A k \in 1 .. Dims : Kept(codec, v[k]) = v[k]
    BY <1>1
  <2>4. OnDiskDims(dist[x]) = CeilDiv(Dims, WordSize(codec)) * WordSize(codec) BY DEF OnDiskDims
  <2> HIDE DEF u, v, a, b, codec
  <2>5. Dims \in Nat BY DimsAssumption
  <2>6. u \in Seq(Float) /\ v \in Seq(Float) /\ Len(u) = Dims /\ Len(v) = Dims BY <2>2, <2>3, <2>5
  <2>7. c \in Nat BY <2>5, OnePosition
  <2>8. DifferingBits(a, b) = c BY <2>1, <2>2, <2>3, <2>6, DifferingBitsIs
  <2>9. DotQuantized(a, b) = m - 2 * c BY <2>1, <2>2, <2>3, <2>6, DotQuantizedIs
  <2>10. OnDiskDims(dist[x]) = m /\ m \in Nat
    <3>1. WordSize(codec) = WordBits BY <2>1 DEF WordSize
    <3>2. Words(codec, Dims) \in Nat /\ WordBits \in Nat /\ m \in Nat BY <2>1, <2>6, SameLength, Sizes
    <3> QED BY <2>4, <3>1, <3>2 DEF Words
  <2>11. codec = "binary" => HammingDistance(a, b) = <<c, m>>
    <3> SUFFICES ASSUME codec = "binary" PROVE HammingDistance(a, b) = <<c, m>> OBVIOUS
    <3>1. HammingBits(a, b) = c BY <2>2, <2>3, <2>6, HammingBitsIs
    <3>2. VectorLen(codec, a) = m BY <2>1, <2>2, <2>6, VectorLenIs
    <3> HIDE DEF c, m
    <3> QED BY <3>1, <3>2 DEF HammingDistance
  <2>12. /\ codec = "binary" => SumOver(u, v, LAMBDA p, q : IF p = q THEN 0 ELSE 1) = c
         /\ codec = "binary quantized" =>
              /\ SumOver(u, v, LAMBDA p, q : (p - q) * (p - q)) = 4 * c
              /\ SumOver(u, v, LAMBDA p, q : IF p = q THEN 0 ELSE 2) = 2 * c
              /\ SumOver(u, v, LAMBDA p, q : p * q) = Dims - 2 * c
    <3> DEFINE s == c
    <3>1. s \in Nat /\ s = UpToIn(DiffersAt(codec, u, v), Dims) BY <2>7
    <3> HIDE DEF s, c
    <3>2. \A k \in 1 .. Dims : Kept(codec, u[k]) = u[k] /\ Kept(codec, v[k]) = v[k] BY <2>2, <2>3
    <3> QED BY <2>1, <2>2, <2>3, <3>1, <3>2, DistancesAre DEF s, c
  <2>13. codec # "binary" => codec = "binary quantized" BY <2>1 DEF Codec
  <2>14. NormSquared(a) = m BY <2>1, <2>2, <2>6, NormSquaredIs
  <2>15. m = 0 <=> Dims = 0
    <3>1. WordBits \in Nat \ {0} /\ WordSize(codec) = WordBits BY <2>1, Sizes DEF WordSize
    <3>2. Dims <= m BY <2>1, <2>6, SameLength
    <3>3. ASSUME Dims = 0 PROVE m = 0
      <4> DEFINE w == WordBits
      <4>1. Words(codec, Dims) = (w - 1) \div w BY <3>1, <3>3 DEF Words, CeilDiv
      <4>2. w \in Nat \ {0} /\ w - 1 \in 0 .. w - 1 BY <3>1
      <4> HIDE DEF w
      <4>3. (w * 0 + (w - 1)) \div w = 0 BY <4>2, Quotient
      <4>4. Words(codec, Dims) = 0 BY <4>1, <4>2, <4>3
      <4> QED BY <3>1, <4>4
    <3> HIDE DEF m
    <3> QED BY <2>5, <2>10, <3>2, <3>3
  <2> HIDE DEF c, m
  <2>16. CosineDistance(a, b) = IF Dims = 0 THEN <<0, 1>> ELSE <<2 * c, 2 * m>>
    <3>1. m - (m - 2 * c) = 2 * c BY <2>7, <2>10
    <3> QED BY <2>9, <2>14, <2>15, <3>1 DEF CosineDistance
  <2>17. Dims - (Dims - 2 * c) = 2 * c BY <2>5, <2>7
  <2>18. SquaredEuclidean(a, b) = 4 * c /\ Manhattan(a, b) = 2 * c
    BY <2>8 DEF SquaredEuclidean, Manhattan
  <2>19. CASE codec = "binary" BY <2>10, <2>11, <2>12, <2>19 DEF u, v, a, b, codec
  <2>20. CASE codec # "binary"
    BY <2>10, <2>12, <2>13, <2>16, <2>17, <2>18, <2>20 DEF u, v, a, b, codec
  <2> QED BY <2>19, <2>20
<1> QED BY <1>2, AlwaysHolds, PTL
=============================================================================
