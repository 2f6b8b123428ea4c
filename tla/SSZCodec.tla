------------------------------ MODULE SSZCodec ------------------------------
(***************************************************************************)
(* The SSZ codecs of the containers.  fastssz generates, for each          *)
(* container, four methods that must agree with one another: MarshalSSZTo, *)
(* UnmarshalSSZ, SizeSSZ and HashTreeRootWith.  Each method of each        *)
(* container is a table in SSZContainers and SSZBellatrix that holds the   *)
(* literals of that method (widths, positions, limits) in the order of its *)
(* statements; the operators below execute a table.                        *)
(*                                                                         *)
(* A value of a container is reduced to what the codecs branch on: a       *)
(* function from its fields of variable length to their lengths (for a     *)
(* nested container its own value, for the transactions the sequence of    *)
(* their lengths).  The content of a field is abstracted to its name: a    *)
(* buffer is a sequence of parts, each with the field it was written for,  *)
(* its length and, for an offset, the number written.  Nil pointers to     *)
(* nested containers are replaced by new ones in the code and are not      *)
(* distinguished.  Elements of a vector or list of byte slices are taken   *)
(* to have the length the codecs demand.                                   *)
(***************************************************************************)
EXTENDS Naturals, Sequences, SequencesExt

\* Stands for the limits of 2^40 elements, which no buffer can reach.
NoLimit == 2147483647

-----------------------------------------------------------------------------
\* The statements of MarshalSSZTo.  Put: a number, a bool or an array of n
\* bytes; PutSlice: a byte slice whose length must be n; PutVec: n elements of
\* w bytes; PutList: at most lim elements of w bytes; PutDyn: at most lim byte
\* slices of at most elim bytes behind their own offsets; Off, OffObj, OffDyn:
\* an offset is written and advanced by the length of the field (LastOff: it is
\* not advanced any more).
Put(f, n)            == [k |-> "put", f |-> f, n |-> n]
PutSlice(f, n)       == [k |-> "slice", f |-> f, n |-> n]
PutVec(f, n, w)      == [k |-> "vec", f |-> f, n |-> n, w |-> w]
PutObj(f, c)         == [k |-> "obj", f |-> f, c |-> c]
PutList(f, w, lim)   == [k |-> "list", f |-> f, w |-> w, lim |-> lim]
PutDyn(f, lim, elim) == [k |-> "dyn", f |-> f, lim |-> lim, elim |-> elim]
Off(f, w)            == [k |-> "off", f |-> f, w |-> w]
OffObj(f, c)         == [k |-> "offobj", f |-> f, c |-> c]
OffDyn(f)            == [k |-> "offdyn", f |-> f]
LastOff(f)           == [k |-> "lastoff", f |-> f]

IsOffset(e) == e.k \in {"off", "offobj", "offdyn", "lastoff"}

\* The statements of UnmarshalSSZ: reads of buf[a:z], where GetOff reads an
\* offset that may not lie below lo, and Tail*, the bytes from the field's
\* offset to the next one.
Get(f, a, z)          == [k |-> "get", f |-> f, a |-> a, z |-> z]
GetSlice(f, a, z)     == [k |-> "slice", f |-> f, a |-> a, z |-> z]
GetVec(f, a, z, n, w) == [k |-> "vec", f |-> f, a |-> a, z |-> z, n |-> n, w |-> w]
GetObj(f, a, z, c)    == [k |-> "obj", f |-> f, a |-> a, z |-> z, c |-> c]
GetOff(f, a, z, lo)   == [k |-> "off", f |-> f, a |-> a, z |-> z, lo |-> lo]
TailList(f, w, lim)   == [k |-> "list", f |-> f, w |-> w, lim |-> lim]
TailObj(f, c)         == [k |-> "tailobj", f |-> f, c |-> c]
TailDyn(f, lim, elim) == [k |-> "dyn", f |-> f, lim |-> lim, elim |-> elim]

\* The statements of HashTreeRootWith: w bytes per element, lim elements, and
\* chunks, the limit that MerkleizeWithMixin is given.
Leaf(f)                      == [k |-> "leaf", f |-> f]
LeafSlice(f, n)              == [k |-> "slice", f |-> f, n |-> n]
LeafVec(f, n)                == [k |-> "slice", f |-> f, n |-> n]
LeafObj(f, c)                == [k |-> "obj", f |-> f, c |-> c]
LeafList(f, w, lim, chunks)  == [k |-> "list", f |-> f, w |-> w, lim |-> lim, chunks |-> chunks]
LeafDyn(f, lim, elim, chunks) ==
    [k |-> "dyn", f |-> f, lim |-> lim, elim |-> elim, chunks |-> chunks]

Container(m, u, s, h) == [marshal |-> m, unmarshal |-> u, size |-> s, hash |-> h]

FixedSize(c) == c.size.base

Sum(s) ==
    LET upTo[i \in 0 .. Len(s)] == IF i = 0 THEN 0 ELSE upTo[i - 1] + s[i]
    IN upTo[Len(s)]

-----------------------------------------------------------------------------
(***************************************************************************)
(* SizeSSZ: the base size and the length of every field of variable        *)
(* length.                                                                 *)
(***************************************************************************)
RECURSIVE SizeSSZ(_, _)
Grow(e, v) ==
    CASE e.k = "lastoff" -> 0
      [] e.k = "off"    -> v[e.f] * e.w
      [] e.k = "offobj" -> SizeSSZ(e.c, v[e.f])
      [] e.k = "offdyn" -> Sum([i \in 1 .. Len(v[e.f]) |-> 4 + v[e.f][i]])
SizeSSZ(c, v) ==
    c.size.base + Sum([i \in 1 .. Len(c.size.parts) |-> Grow(c.size.parts[i], v)])

-----------------------------------------------------------------------------
(***************************************************************************)
(* MarshalSSZTo.                                                           *)
(***************************************************************************)
Part(f, n, v)   == [f |-> f, offset |-> FALSE, n |-> n, v |-> v]
OffsetOf(f, at) == [f |-> f, offset |-> TRUE, n |-> 4, v |-> at]
BufLen(b)       == Sum([i \in 1 .. Len(b) |-> b[i].n])

\* The offsets in front of the slices of a list of byte slices.
DynOffsets(lens) ==
    [i \in 1 .. Len(lens) |-> 4 * Len(lens) + Sum(SubSeq(lens, 1, i - 1))]

\* One statement of MarshalSSZTo, when the offset has the value at.
RECURSIVE MarshalSSZTo(_, _)
Write(e, v, at) ==
    LET out(ok, n, x) == [ok |-> ok, part |-> Part(e.f, n, x)]
    IN CASE e.k = "put"   -> out(TRUE, e.n, <<>>)
         [] e.k = "slice" -> out(v[e.f] = e.n, v[e.f], <<>>)
         [] e.k = "vec"   -> out(v[e.f] = e.n, e.n * e.w, <<>>)
         [] e.k = "list"  -> out(v[e.f] <= e.lim, v[e.f] * e.w, <<>>)
         [] e.k = "obj"   -> LET m == MarshalSSZTo(e.c, v[e.f])
                             IN out(m.ok, BufLen(m.out), m.out)
         [] e.k = "dyn"   -> out(/\ Len(v[e.f]) <= e.lim
                                 /\ \A i \in 1 .. Len(v[e.f]) : v[e.f][i] <= e.elim,
                                 4 * Len(v[e.f]) + Sum(v[e.f]),
                                 DynOffsets(v[e.f]))
         [] OTHER         -> [ok |-> TRUE, part |-> OffsetOf(e.f, at)]
MarshalSSZTo(c, v) ==
    LET e == c.marshal.writes
        grow == [i \in 1 .. Len(e) |-> IF IsOffset(e[i]) THEN Grow(e[i], v) ELSE 0]
        w == [i \in 1 .. Len(e) |->
                 Write(e[i], v, c.marshal.offset + Sum(SubSeq(grow, 1, i - 1)))]
    IN [ok |-> \A i \in 1 .. Len(e) : w[i].ok, out |-> [i \in 1 .. Len(e) |-> w[i].part]]

-----------------------------------------------------------------------------
(***************************************************************************)
(* UnmarshalSSZ.  The result has the decoded value, and clean: every field *)
(* was read from exactly the bytes that were written for it.               *)
(***************************************************************************)
Start(b, i) == BufLen(SubSeq(b, 1, i - 1))

\* The parts of b written for field f that fill buf[a:z].
At(b, f, a, z) ==
    {i \in 1 .. Len(b) : /\ b[i].f = f /\ ~b[i].offset
                         /\ Start(b, i) = a /\ a + b[i].n = z}

\* ssz.ReadOffset: the number written at buf[a:a+4].
ReadOffset(b, a) == b[CHOOSE i \in 1 .. Len(b) : b[i].offset /\ Start(b, i) = a].v

Offsets(c) == SelectSeq(c.unmarshal.reads, LAMBDA e : e.k = "off")
Tails(c) == SelectSeq(c.unmarshal.reads, LAMBDA e : e.k \in {"list", "tailobj", "dyn"})
Fields(c) == SelectSeq(c.unmarshal.reads, LAMBDA e : e.k \in {"get", "slice", "vec", "obj"})

\* ssz.DivideInt2, and the check of a byte list: a whole number of elements,
\* not more than the limit.
DivideInt2(n, w, lim) == n % w = 0 /\ n \div w <= lim

\* ssz.DecodeDynamicLength and ssz.UnmarshalDynamic on a span of n bytes that
\* starts with the offsets o.
DynLengths(o, n) == [i \in 1 .. Len(o) |-> (IF i < Len(o) THEN o[i + 1] ELSE n) - o[i]]
DecodeDynamic(o, n, lim, elim) ==
    \/ n = 0
    \/ /\ o[1] % 4 = 0 /\ o[1] \div 4 = Len(o) /\ Len(o) <= lim
       /\ \A i \in 1 .. Len(o) : DynLengths(o, n)[i] \in 0 .. elim

RECURSIVE UnmarshalSSZ(_, _)
ReadField(e, b) ==
    LET parts == At(b, e.f, e.a, e.z)
        nested == UnmarshalSSZ(e.c, b[CHOOSE i \in parts : TRUE].v)
    IN CASE e.k = "get"   -> [ok |-> TRUE, clean |-> parts # {}, v |-> <<>>]
         [] e.k = "slice" -> [ok |-> TRUE, clean |-> parts # {}, v |-> <<e.z - e.a>>]
         [] e.k = "vec"   -> [ok |-> TRUE, clean |-> parts # {} /\ e.n * e.w = e.z - e.a,
                              v |-> <<e.n>>]
         [] e.k = "obj" /\ parts # {} -> [nested EXCEPT !.v = <<@>>]
         [] OTHER -> [ok |-> FALSE, clean |-> FALSE, v |-> <<>>]
ReadTail(e, b, a, z) ==
    LET parts == At(b, e.f, a, z)
        v == b[CHOOSE i \in parts : TRUE].v
        aligned == a = z \/ parts # {}
    IN CASE e.k = "list" -> [ok |-> DivideInt2(z - a, e.w, e.lim), clean |-> aligned,
                             v |-> <<(z - a) \div e.w>>]
         [] e.k = "tailobj" /\ parts # {} ->
                            [UnmarshalSSZ(e.c, v) EXCEPT !.v = <<@>>]
         [] e.k = "dyn" /\ a = z -> [ok |-> TRUE, clean |-> TRUE, v |-> << <<>> >>]
         [] e.k = "dyn" /\ a # z /\ parts # {} ->
                            [ok |-> DecodeDynamic(v, z - a, e.lim, e.elim), clean |-> TRUE,
                             v |-> <<DynLengths(v, z - a)>>]
         [] OTHER -> [ok |-> FALSE, clean |-> FALSE, v |-> <<>>]
UnmarshalSSZ(c, b) ==
    LET size  == BufLen(b)
        n     == Len(Tails(c))
        o     == [i \in 1 .. n |-> ReadOffset(b, Offsets(c)[i].a)] \o <<size>>
        sized == IF c.unmarshal.exact THEN size = c.unmarshal.size
                                      ELSE size >= c.unmarshal.size
        offsetsOK == \A i \in 1 .. n : /\ o[i] <= o[i + 1] /\ o[i] <= size
                                       /\ Offsets(c)[i].lo <= o[i]
        fields == [i \in 1 .. Len(Fields(c)) |-> ReadField(Fields(c)[i], b)]
        tails  == [i \in 1 .. n |-> ReadTail(Tails(c)[i], b, o[i], o[i + 1])]
        names  == [i \in 1 .. Len(Fields(c)) |-> Fields(c)[i].f]
                  \o [i \in 1 .. n |-> Tails(c)[i].f]
        reads  == fields \o tails
        valued == {i \in 1 .. Len(reads) : reads[i].v # <<>>}
    IN IF ~sized \/ ~offsetsOK \/ \E i \in 1 .. Len(reads) : ~reads[i].ok
       THEN [ok |-> FALSE, clean |-> FALSE, v |-> <<>>]
       ELSE [ok |-> TRUE,
             clean |-> \A i \in 1 .. Len(reads) : reads[i].clean,
             v |-> [f \in {names[i] : i \in valued} |->
                        reads[CHOOSE i \in valued : names[i] = f].v[1]]]

-----------------------------------------------------------------------------
(***************************************************************************)
(* HashTreeRootWith: whether it returns a root.  fastssz panics when a     *)
(* list has more chunks than the limit that MerkleizeWithMixin is given.   *)
(***************************************************************************)
Chunks(bytes) == (bytes + 31) \div 32

RECURSIVE HashTreeRootWith(_, _)
HashField(e, v) ==
    CASE e.k = "leaf"  -> TRUE
      [] e.k = "slice" -> v[e.f] = e.n
      [] e.k = "obj"   -> HashTreeRootWith(e.c, v[e.f])
      [] e.k = "list"  -> v[e.f] <= e.lim
      [] e.k = "dyn"   -> /\ Len(v[e.f]) <= e.lim
                          /\ \A i \in 1 .. Len(v[e.f]) : v[e.f][i] <= e.elim
HashTreeRootWith(c, v) == \A i \in 1 .. Len(c.hash) : HashField(c.hash[i], v)

RECURSIVE MixinFits(_, _)
MixinFits(c, v) ==
    \A i \in 1 .. Len(c.hash) :
        LET e == c.hash[i]
        IN CASE e.k = "list" -> Chunks(v[e.f] * e.w) <= e.chunks
             [] e.k = "dyn"  -> \A j \in 1 .. Len(v[e.f]) : Chunks(v[e.f][j]) <= e.chunks
             [] e.k = "obj"  -> MixinFits(e.c, v[e.f])
             [] OTHER        -> TRUE
=============================================================================
