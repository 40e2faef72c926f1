-------------------------------- MODULE Xif --------------------------------
(***************************************************************************)
(* Cxif_key and Cxif_value: the trees of numbered keys and values in which *)
(* the client keeps its options, profiles and schedule, and the integers   *)
(* of stream_int.h that they and the dumps are made of.                    *)
(*                                                                         *)
(* A key is [keys, values], functions from numbers; a value is [type,      *)
(* data] with a number or bytes as data.  Float values, which nothing      *)
(* stores, and compression are left out.  IntBytes is 4 in the code.       *)
(***************************************************************************)
EXTENDS Integers, Sequences, SequencesExt

LOCAL IntBytes == 2
LOCAL Numbers  == {"bin32", "int32"}
LOCAL Tag == [bin32 |-> 0, binary |-> 1, int32 |-> 2, string |-> 3, external |-> 4]
LOCAL TypeOf(tag) == CHOOSE x \in DOMAIN Tag : Tag[x] = tag

\* write_int_le and read_int_le: the low byte first; the int it is read into has the sign.
WriteIntLe(cb, v) == [i \in 1..cb |-> (v \div 256^(i - 1)) % 256]
IntRead(cb, s) ==
  LET f[i \in 1..(cb + 1)] == IF i > cb THEN 0 ELSE 256 * f[i + 1] + s[i]
      v == f[1]
  IN IF v >= 256^cb \div 2 THEN v - 256^cb ELSE v

\* write_int and read_int: the high byte first.
WriteInt(cb, v) == Reverse(WriteIntLe(cb, v))
ReadInt(cb, s)  == IntRead(cb, Reverse(s))

LOCAL Put(v)    == WriteIntLe(IntBytes, v)
LOCAL Get(s, a) == IntRead(IntBytes, SubSeq(s, a, a + IntBytes - 1))
LOCAL Ids(f)    == SetToSortSeq(DOMAIN f, <)
LOCAL With(f, i, v) == [j \in DOMAIN f \cup {i} |-> IF j = i THEN v ELSE f[j]]

-----------------------------------------------------------------------------
\* Cxif_value::save
SaveValue(v) ==
  <<Tag[v.type]>> \o
  (IF v.type \in Numbers THEN Put(v.data)
   ELSE Put(Len(v.data)) \o (IF v.type = "external" THEN <<>> ELSE v.data))

\* Cxif_key::save: the number of each key and value counts from the one before it.
RECURSIVE Save(_)
Save(k) ==
  LET each(f, one(_)) ==
        LET ids == Ids(f)
            before(i) == IF i = 1 THEN 0 ELSE ids[i - 1]
        IN Put(Len(ids)) \o
           FlattenSeq([i \in DOMAIN ids |-> Put(ids[i] - before(i)) \o one(f[ids[i]])])
  IN each(k.keys, Save) \o each(k.values, SaveValue)

\* get_size
RECURSIVE Size(_)
Size(k) ==
  FoldLeft(LAMBDA n, i : n + IntBytes + Size(k.keys[i]), 2 * IntBytes, Ids(k.keys))
  + FoldLeft(LAMBDA n, i : n + 2 * IntBytes + 1 +
                           (IF k.values[i].type \in Numbers \cup {"external"} THEN 0
                            ELSE Len(k.values[i].data)), 0, Ids(k.values))

\* external_save: the data of large values, after everything else.
RECURSIVE External(_)
External(k) ==
  FlattenSeq([i \in DOMAIN Ids(k.keys) |-> External(k.keys[Ids(k.keys)[i]])]) \o
  FlattenSeq([i \in DOMAIN Ids(k.values) |->
                LET v == k.values[Ids(k.values)[i]] IN IF v.type = "external" THEN v.data ELSE <<>>])

\* load_new of a value at place a: the value, and the place after it.
LoadValue(s, a) ==
  LET type == TypeOf(s[a])
      n == Get(s, a + 1)
      b == a + 1 + IntBytes
  IN IF type \in Numbers THEN [v |-> [type |-> type, data |-> n], at |-> b]
     ELSE IF type = "external"
     THEN [v |-> [type |-> type, data |-> [i \in 1..n |-> 0]], at |-> b]
     ELSE [v |-> [type |-> type, data |-> SubSeq(s, b, b + n - 1)], at |-> b + n]

\* load_new of a key.
RECURSIVE Load(_, _), LoadKeys(_, _, _, _, _), LoadValues(_, _, _, _, _)
LoadKeys(s, a, count, id, f) ==
  IF count = 0 THEN [f |-> f, at |-> a]
  ELSE LET i == id + Get(s, a)
           k == Load(s, a + IntBytes)
       IN LoadKeys(s, k.at, count - 1, i, With(f, i, k.k))
LoadValues(s, a, count, id, f) ==
  IF count = 0 THEN [f |-> f, at |-> a]
  ELSE LET i == id + Get(s, a)
           v == LoadValue(s, a + IntBytes)
       IN LoadValues(s, v.at, count - 1, i, With(f, i, v.v))
Load(s, a) ==
  LET keys == LoadKeys(s, a + IntBytes, Get(s, a), 0, <<>>)
      values == LoadValues(s, keys.at + IntBytes, Get(s, keys.at), 0, <<>>)
  IN [k |-> [keys |-> keys.f, values |-> values.f], at |-> values.at]

\* load_external: the data follows in the same order.
RECURSIVE Filled(_, _)
Filled(k, s) ==
  LET key(e, i) == LET r == Filled(k.keys[i], e.s)
                   IN [e EXCEPT !.s = r.s, !.keys = With(@, i, r.k)]
      value(e, i) == LET v == k.values[i] IN
        IF v.type # "external" THEN [e EXCEPT !.values = With(@, i, v)]
        ELSE [e EXCEPT !.s = SubSeq(@, Len(v.data) + 1, Len(@)),
                       !.values = With(@, i, [v EXCEPT !.data = SubSeq(e.s, 1, Len(@))])]
      a == FoldLeft(key, [s |-> s, keys |-> <<>>, values |-> <<>>], Ids(k.keys))
      b == FoldLeft(value, a, Ids(k.values))
  IN [k |-> [keys |-> b.keys, values |-> b.values], s |-> b.s]

\* load_key of what vdata gave; rest: what is left over, an error.
Loaded(k) ==
  LET s == Save(k) \o External(k)
      l == Load(s, 1)
      f == Filled(l.k, SubSeq(s, l.at, Len(s)))
  IN [k |-> f.k, rest |-> f.s]

\* What was saved is loaded, without anything left over, and fills the memory it got
\* (assert(d.end() == w), xif_key.cpp:187); a number keeps its value and its sign at
\* every width.
TreeKept(k) == Loaded(k) = [k |-> k, rest |-> <<>>] /\ Size(k) = Len(Save(k))
NumberKept(cb, v) == ReadInt(cb, WriteInt(cb, v)) = v /\ IntRead(cb, WriteIntLe(cb, v)) = v
=============================================================================
