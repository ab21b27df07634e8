------------------------------- MODULE Codecs -------------------------------
(***************************************************************************)
(* The bytes of keys and values in the LMDB database: KeyCodec and Prefix- *)
(* Codec (src/key.rs, src/node_id.rs), NodeCodec (src/node.rs), Metadata-  *)
(* Codec, VersionCodec and UpdateStatusCodec.  Decoding gives a record     *)
(* whose `kind' is "error" when it returns an error and "panic" when it    *)
(* panics.                                                                 *)
(***************************************************************************)
EXTENDS Vectors

CONSTANTS Distance,      \* distance types
          NameOf,        \* D::name() as bytes, which are text
          CodecOf,       \* D::VectorCodec
          HeaderBytes    \* size_of::<D::Header>()

ASSUME DistanceAssumption ==
    /\ \A d \in Distance : /\ CodecOf[d] \in Codec /\ HeaderBytes[d] \in 0 .. 8
                           /\ NameOf[d] \in Seq(2 .. Radix - 1) /\ NameOf[d] # <<>>
    /\ \A d, nd \in Distance : NameOf[d] = NameOf[nd] => d = nd

-----------------------------------------------------------------------------
(* Keys. *)

MetadataMode == 0
UpdatedMode  == 1
LinksMode    == 2
ItemMode     == 3

Key(x, mode, item, layer) == [index |-> x, mode |-> mode, item |-> item, layer |-> layer]

MetadataKey(x)    == Key(x, MetadataMode, 0, 0)
VersionKey(x)     == Key(x, MetadataMode, 1, 0)
UpdatedKey(x, i)  == Key(x, UpdatedMode, i, 0)
LinksKey(x, i, l) == Key(x, LinksMode, i, l)
ItemKey(x, i)     == Key(x, ItemMode, i, 0)

\* Mutant: the item is written in the order of the host.
KeyBytes_native(k) == BigEndian(k.index, 2) \o <<k.mode>> \o Little(k.item, 4) \o <<k.layer>>

KeyBytes(k) == BigEndian(k.index, 2) \o <<k.mode>> \o BigEndian(k.item, 4) \o <<k.layer>>

ReadKey(b) == [index |-> ReadBig(SubSeq(b, 1, 2)), mode |-> b[3],
               item |-> ReadBig(SubSeq(b, 4, 7)), layer |-> b[8]]

\* Mutant: only the first byte of the index.
PrefixAll_byte(x) == <<BigEndian(x, 2)[1]>>

\* Prefix::all, and below Prefix::item, links and updated.
PrefixAll(x) == BigEndian(x, 2)

PrefixOf(x, mode) == BigEndian(x, 2) \o <<mode>>

-----------------------------------------------------------------------------
(* RoaringBitmap::serialize_into and deserialize_from: how many ids, then the ids. *)

Ascending(ids) == CHOOSE s \in [1 .. Cardinality(ids) -> ids] :
                    \A m, n \in 1 .. Cardinality(ids) : m < n => s[m] < s[n]

BitmapBytes(ids) == BigEndian(Cardinality(ids), 4)
                    \o FlattenSeq([n \in 1 .. Cardinality(ids) |-> BigEndian(Ascending(ids)[n], 4)])

BitmapCount(b) == ReadBig(SubSeq(b, 1, 4))

IsBitmap(b) == Len(b) >= 4 /\ Len(b) >= 4 + 4 * BitmapCount(b)

ReadBitmap(b) == {ReadBig(SubSeq(b, 4 * n + 1, 4 * n + 4)) : n \in 1 .. BitmapCount(b)}

-----------------------------------------------------------------------------
(* Nodes, and the marks of changed items. *)

NodeTag  == 0
LinksTag == 1

\* The header's content is left out, its size is not.
ItemNode(d, vector) == <<NodeTag>> \o [b \in 1 .. HeaderBytes[d] |-> 0] \o vector

LinksNode(ids) == <<LinksTag>> \o BitmapBytes(ids)

NodeError == [kind |-> "error"]
NodePanic == [kind |-> "panic"]

\* An item too short for its header, or links that are no bitmap, panic; a vector of
\* the wrong size and an unknown tag are errors.
ReadNode(d, b) ==
    CASE b = <<>> -> NodeError
      [] b # <<>> /\ b[1] = NodeTag ->
           LET vector == SubSeq(b, 2 + HeaderBytes[d], Len(b))
           IN  IF Len(b) - 1 < HeaderBytes[d] THEN NodePanic
               ELSE IF Fits(CodecOf[d], vector) THEN [kind |-> "item", vector |-> vector]
               ELSE NodeError
      [] b # <<>> /\ b[1] = LinksTag ->
           IF IsBitmap(Tail(b)) THEN [kind |-> "links", ids |-> ReadBitmap(Tail(b))]
           ELSE NodePanic
      [] OTHER -> NodeError

StatusBytes(mark) == IF mark = "Updated" THEN <<0>> ELSE <<1>>

ReadStatus(b) == CASE b = <<0>> -> "Updated" [] b = <<1>> -> "Removed" [] OTHER -> "error"

-----------------------------------------------------------------------------
(* Metadata and version. *)

\* Mutant: the height is left out when it is 0.
MetadataBytes_flat(m) ==
    NameOf[m.dist] \o <<0>> \o BigEndian(m.dims, 4)
    \o BigEndian(Len(BitmapBytes(m.items)), 4) \o BitmapBytes(m.items)
    \o FlattenSeq([n \in 1 .. Len(m.eps) |-> Little(m.eps[n], 4)])
    \o IF m.top = 0 THEN <<>> ELSE <<m.top>>

MetadataBytes(m) ==
    NameOf[m.dist] \o <<0>> \o BigEndian(m.dims, 4)
    \o BigEndian(Len(BitmapBytes(m.items)), 4) \o BitmapBytes(m.items)
    \o FlattenSeq([n \in 1 .. Len(m.eps) |-> Little(m.eps[n], 4)])
    \o <<m.top>>

\* ItemIds::iter: chunks_exact, so what is left over is ignored.
ReadItemIds(b) == [n \in 1 .. Len(b) \div 4 |-> ReadLittle(SubSeq(b, 4 * n - 3, 4 * n))]

ReadMetadata(b) ==
    LET nul  == SelectInSeq(b, LAMBDA c : c = 0)
        at   == nul + 4
        size == ReadBig(SubSeq(b, at + 1, at + 4))
        tail == SubSeq(b, at + 5 + size, Len(b))
    IN  [dist  |-> CHOOSE d \in Distance : NameOf[d] = SubSeq(b, 1, nul - 1),
         dims  |-> ReadBig(SubSeq(b, nul + 1, at)),
         items |-> ReadBitmap(SubSeq(b, at + 5, at + 4 + size)),
         eps   |-> ReadItemIds(Front(tail)),
         top   |-> IF tail = <<>> THEN 0 ELSE Last(tail)]

\* Mutant: one byte per number.
VersionBytes_small(major, minor, patch) == <<major, minor, patch>>

VersionBytes(major, minor, patch) ==
    BigEndian(major, 4) \o BigEndian(minor, 4) \o BigEndian(patch, 4)
=============================================================================
