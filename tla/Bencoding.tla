----------------------------- MODULE Bencoding -----------------------------
(***************************************************************************)
(* Cbvalue: the values of torrent files, tracker answers and administration *)
(* messages, and their encoding.  The info hash of a torrent is the hash   *)
(* of its info dictionary decoded and encoded again (Cbt_file::info), so   *)
(* both directions must agree.                                             *)
(*                                                                         *)
(* Bytes are their codes.  A value is one of [int |-> number],             *)
(* [str |-> bytes], [list |-> values] and [dict |-> function from keys].   *)
(***************************************************************************)
EXTENDS Integers, Sequences, SequencesExt

LOCAL Code == [zero |-> 48, nine |-> 57, colon |-> 58, minus |-> 45,
               d |-> 100, e |-> 101, i |-> 105, l |-> 108]
LOCAL IsDigit(c) == c \in Code.zero..Code.nine

\* n() and the %d of sprintf.
Digits(n) ==
  LET f[k \in Nat] == IF k < 10 THEN <<Code.zero + k>> ELSE Append(f[k \div 10], Code.zero + (k % 10))
  IN IF n < 0 THEN <<Code.minus>> \o f[-n] ELSE f[n]

\* Mutant: digits only.
NumberUnsigned(s, a) ==
  LET f[k \in Nat, v \in Int] ==
        IF k <= Len(s) /\ IsDigit(s[k]) THEN f[k + 1, 10 * v + (s[k] - Code.zero)] ELSE v
  IN f[a, 0]

\* atoi and atoll of the bytes from a on: up to the first one that is no digit.
Number(s, a) ==
  LET minus == a <= Len(s) /\ s[a] = Code.minus
      f[k \in Nat, v \in Int] ==
        IF k <= Len(s) /\ IsDigit(s[k]) THEN f[k + 1, 10 * v + (s[k] - Code.zero)] ELSE v
  IN IF minus THEN -f[a + 1, 0] ELSE f[a, 0]

\* Keys as std::map orders them.
Before(a, b) ==
  \E k \in 1..(Len(b)) :
    /\ \A j \in 1..(k - 1) : j <= Len(a) /\ a[j] = b[j]
    /\ k > Len(a) \/ a[k] < b[k]

-----------------------------------------------------------------------------
\* read: a value as bytes.
RECURSIVE Read(_)
Read(v) ==
  LET string(s) == Digits(Len(s)) \o <<Code.colon>> \o s
  IN CASE DOMAIN v = {"int"}  -> <<Code.i>> \o Digits(v.int) \o <<Code.e>>
       [] DOMAIN v = {"str"}  -> string(v.str)
       [] DOMAIN v = {"list"} -> <<Code.l>> \o FlattenSeq([k \in DOMAIN v.list |-> Read(v.list[k])]) \o <<Code.e>>
       [] DOMAIN v = {"dict"} ->
            LET keys == SetToSortSeq(DOMAIN v.dict, Before)
            IN <<Code.d>> \o FlattenSeq([k \in DOMAIN keys |-> string(keys[k]) \o Read(v.dict[keys[k]])])
               \o <<Code.e>>

\* pre_read: the memory read() gets.
RECURSIVE PreRead(_)
PreRead(v) ==
  CASE DOMAIN v = {"int"}  -> Len(Digits(v.int)) + 2
    [] DOMAIN v = {"str"}  -> Len(Digits(Len(v.str))) + Len(v.str) + 1
    [] DOMAIN v = {"list"} -> FoldLeft(LAMBDA n, w : n + PreRead(w), 2, v.list)
    [] DOMAIN v = {"dict"} ->
         FoldLeft(LAMBDA n, k : n + Len(Digits(Len(k))) + Len(k) + PreRead(v.dict[k]) + 1,
                  2, SetToSeq(DOMAIN v.dict))

\* Where the first c is, from a on; after the end if there is none.
Find(s, c, a) ==
  LET S == {k \in a..Len(s) : s[k] = c}
  IN IF S = {} THEN Len(s) + 1 ELSE CHOOSE k \in S : \A j \in S : k <= j

\* write: the value at place a of s, and the place after it; at = 0: none.  The values of
\* a list and the entries of a dictionary up to its end; a key that comes again replaces.
None == [v |-> [int |-> 0], at |-> 0]

RECURSIVE Write(_, _), Items(_, _, _), Entries(_, _, _)
Items(s, a, vs) ==
  IF a > Len(s) THEN None
  ELSE IF s[a] = Code.e THEN [v |-> [list |-> vs], at |-> a + 1]
  ELSE LET w == Write(s, a)
       IN IF w.at = 0 THEN None ELSE Items(s, w.at, Append(vs, w.v))

Entries(s, a, m) ==
  IF a > Len(s) THEN None
  ELSE IF s[a] = Code.e THEN [v |-> [dict |-> m], at |-> a + 1]
  ELSE LET k == Write(s, a)
           w == Write(s, k.at)
       IN IF k.at = 0 \/ DOMAIN k.v # {"str"} \/ w.at = 0 THEN None
          ELSE Entries(s, w.at, [x \in DOMAIN m \cup {k.v.str} |->
                                   IF x = k.v.str THEN w.v ELSE m[x]])

Write(s, a) ==
  IF a > Len(s) THEN None
  ELSE CASE IsDigit(s[a]) ->
              LET c == Find(s, Code.colon, a + 1)
                  n == Number(s, a)
              IN IF c > Len(s) \/ c + n > Len(s) THEN None
                 ELSE [v |-> [str |-> SubSeq(s, c + 1, c + n)], at |-> c + n + 1]
         [] s[a] = Code.i ->
              LET e == Find(s, Code.e, a + 1)
              IN IF e > Len(s) THEN None
                 ELSE [v |-> [int |-> Number(s, a + 1)], at |-> e + 1]
         [] s[a] = Code.l -> Items(s, a + 1, <<>>)
         [] s[a] = Code.d -> Entries(s, a + 1, [x \in {} |-> 0])
         [] OTHER -> None

\* What is read from a value is that value, all of it, and fills the memory it got; no
\* part of it is taken for a whole value.
ValueKept(v) ==
  LET s == Read(v) IN
  /\ Write(s, 1) = [v |-> v, at |-> Len(s) + 1]
  /\ PreRead(v) = Len(s)
  /\ \A n \in 0..(Len(s) - 1) : Write(SubSeq(s, 1, n), 1).at = 0

\* Whatever bytes were taken for a value, the value keeps its meaning when it is read and
\* written once more: the info a client passes on has the hash it has itself.
BytesSettle(s) ==
  LET w == Write(s, 1) IN w.at # 0 => ValueKept(w.v)
=============================================================================
