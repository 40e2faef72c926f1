----------------------------- MODULE MerkleTree -----------------------------
(***************************************************************************)
(* The hash tree of one file of a Merkle torrent (Cmerkle_tree), filled by *)
(* the chunks peers send with the hashes beside their path, and by the     *)
(* check of the file on disk (Cbt_hasher).                                 *)
(*                                                                         *)
(* SHA-1 is taken as free of collisions: the hash of a chunk is a tuple of *)
(* its number, the hash of a node the pair of the hashes below.  A piece   *)
(* is one chunk.  A loop over the levels of the tree is a function of the   *)
(* level, counted from the chunks.                                         *)
(***************************************************************************)
EXTENDS Integers, Sequences, FiniteSets

CONSTANT Chunks   (* the number of chunks of the file, m_size *)

ASSUME TreeAssumption == Chunks \in Nat \ {0}

VARIABLES
  tree,    (* m_d: for each level, the hash known for each node; NoHash if there is none *)
  held,    (* for each valid chunk, the hash of what is stored; else NoHash *)
  lied     (* history: a peer has sent a wrong hash *)

merkle == <<tree, held, lied>>

NoHash == <<>>
Wrong  == <<-1>>
Chunk  == 0..(Chunks - 1)
ChunkHash(i) == <<i>>

\* The nodes of a level, b - a: half those of the level below, rounded up; the root is
\* the only one of its level.
Width[k \in Nat] == IF k = 0 THEN Chunks ELSE (Width[k - 1] + 1) \div 2
Depth == CHOOSE k \in 0..Chunks : Width[k] = 1 /\ \A j \in 0..(k - 1) : Width[j] > 1
Place(k) == 0..(Width[k] - 1)

\* The places of the nodes above chunk i: i >>= 1 with each level.
Above(i) == LET at[k \in Nat] == IF k = 0 THEN i ELSE at[k - 1] \div 2 IN at

Beside(j)       == IF j % 2 = 0 THEN j + 1 ELSE j - 1
HasBeside(k, j) == Beside(j) < Width[k]
Join(j, h, g)   == IF j % 2 = 0 THEN <<h, g>> ELSE <<g, h>>

\* The hash that hash h of chunk i leads to at each level, if side has the hashes beside.
Climb(i, h, side) ==
  LET at == Above(i)
      up[k \in Nat] == IF k = 0 THEN h
                       ELSE IF HasBeside(k - 1, at[k - 1]) THEN Join(at[k - 1], up[k - 1], side[k - 1])
                       ELSE up[k - 1]
  IN up

\* How many of the hashes sent with chunk i belong to the levels below.
Used(i) ==
  LET at == Above(i)
      n[k \in Nat] == IF k = 0 THEN 0 ELSE n[k - 1] + (IF HasBeside(k - 1, at[k - 1]) THEN 1 ELSE 0)
  IN n

TreeOf(node(_, _)) == [k \in 0..Depth |-> [j \in Place(k) |-> node(k, j)]]
Empty == TreeOf(LAMBDA k, j : NoHash)

-----------------------------------------------------------------------------
(* The operations of the tree.                                             *)

\* set(i, v): the nodes above that become known are computed.
SetChunk(t, i, h) ==
  LET at == Above(i)
      up == Climb(i, h, [k \in Nat |-> t[k][Beside(at[k])]])
      Ends(k) == \/ k = Depth
                 \/ HasBeside(k, at[k]) /\ t[k][Beside(at[k])] = NoHash
                 \/ t[k + 1][at[k + 1]] # NoHash
      end == CHOOSE k \in 0..Depth : Ends(k) /\ \A m \in 0..(k - 1) : ~Ends(m)
      set[k \in Nat] == IF k = 0 THEN [t EXCEPT ![0][i] = h] ELSE [set[k - 1] EXCEPT ![k][at[k]] = up[k]]
  IN set[end]

\* test: h is of chunk i, if the hashes w lead up to a known node.
Passes(t, i, h, w) ==
  LET at == Above(i)
      up == Climb(i, h, [k \in Nat |-> w[Used(i)[k] + 1]])
  IN \E k \in 0..Depth :
       /\ \A m \in 0..(k - 1) : t[m][at[m]] = NoHash /\ Used(i)[m] < Len(w)
       /\ t[k][at[k]] # NoHash /\ up[k] = t[k][at[k]]

\* set(i, v, w): the hashes sent are kept up to one that is known.
Kept(t, i, w) ==
  LET at == Above(i)
      Ends(k) == \/ k = Depth
                 \/ Used(i)[k] >= Len(w)
                 \/ HasBeside(k, at[k]) /\ t[k][Beside(at[k])] # NoHash
  IN TreeOf(LAMBDA k, j : IF j = Beside(at[k]) /\ \A m \in 0..k : ~Ends(m) THEN w[Used(i)[k] + 1] ELSE t[k][j])

\* The level of which the m-th hash is that goes with chunk i.
LevelOf(i, m) == CHOOSE k \in 0..(Depth - 1) : HasBeside(k, Above(i)[k]) /\ Used(i)[k] = m - 1

\* Mutant: a node without one beside it ends the hashes.
HashesEnd(t, i) ==
  LET with == {m \in 1..Used(i)[Depth] : \A k \in 0..LevelOf(i, m) : HasBeside(k, Above(i)[k])}
  IN [m \in with |-> t[LevelOf(i, m)][Beside(Above(i)[LevelOf(i, m)])]]

\* get(i, 127): the hashes that prove chunk i.
GetHashes(t, i) ==
  [m \in 1..Used(i)[Depth] |-> t[LevelOf(i, m)][Beside(Above(i)[LevelOf(i, m)])]]

\* The tree of a peer that has the whole file, its chunks set one after the other, and
\* the hashes that peer sends with each chunk.
FullTo[n \in 0..Chunks] == IF n = 0 THEN Empty ELSE SetChunk(FullTo[n - 1], n - 1, ChunkHash(n - 1))
Proof == [i \in Chunk |-> GetHashes(FullTo[Chunks], i)]

\* merkle_hash() of the torrent: compute_root of the file, chunk after chunk.  The trees
\* that are done are in a map by their height; in the end the lowest two are joined.
Added(map, h) ==
  LET i == CHOOSE k \in 0..Chunks : k \notin DOMAIN map /\ \A m \in 0..(k - 1) : m \in DOMAIN map
      up[k \in Nat] == IF k = 0 THEN h ELSE <<map[k - 1], up[k - 1]>>
  IN [k \in {m \in DOMAIN map : m > i} \cup {i} |-> IF k = i THEN up[i] ELSE map[k]]
Done[n \in 0..Chunks] == IF n = 0 THEN <<>> ELSE Added(Done[n - 1], ChunkHash(n - 1))
Folded(map) ==
  LET low[k \in Nat] == IF k = 0 THEN NoHash
                        ELSE IF k - 1 \notin DOMAIN map THEN low[k - 1]
                        ELSE IF low[k - 1] = NoHash THEN map[k - 1]
                        ELSE <<map[k - 1], low[k - 1]>>
  IN low[Chunks]
MerkleHash == Folded(Done[Chunks])

-----------------------------------------------------------------------------
(* The check of the file, chunk after chunk.                               *)

\* The tree and the chunks after n of them; right: those that are on disk.
Checked(t, v, right) ==
  LET Hash(i) == IF i \in right THEN ChunkHash(i) ELSE Wrong
      s[n \in 0..Chunks] ==
        IF n = 0 THEN [t |-> t, v |-> v]
        ELSE LET b == s[n - 1]
             IN IF b.t[Depth][0] = MerkleHash
                THEN [b EXCEPT !.v[n - 1] = IF b.t[0][n - 1] = Hash(n - 1) THEN Hash(n - 1) ELSE NoHash]
                ELSE [t |-> SetChunk(b.t, n - 1, Hash(n - 1)), v |-> [b.v EXCEPT ![n - 1] = Hash(n - 1)]]
  IN s[Chunks]

\* The file does not have the root: nothing of it is valid, and the root is set.
Invalidated(s) ==
  IF s.t[Depth][0] = MerkleHash THEN s
  ELSE [t |-> [Empty EXCEPT ![Depth][0] = MerkleHash], v |-> [i \in Chunk |-> NoHash]]

\* A torrent is checked when it is opened, with a new tree, or later: validated, or
\* with what was saved.
CheckFile(right, validate, opened) ==
  LET t == IF opened THEN Empty ELSE tree
      s == Invalidated(IF validate THEN Checked(t, held, right) ELSE [t |-> t, v |-> held])
  IN tree' = s.t /\ held' = s.v /\ UNCHANGED lied

\* read_merkle_piece: a chunk with hash h, and the hashes w.
ReceiveChunk(i, h, w) ==
  /\ IF Passes(tree, i, h, w)
     THEN /\ tree' = Kept([tree EXCEPT ![0][i] = h], i, w)
          /\ held' = [held EXCEPT ![i] = h]
     ELSE UNCHANGED <<tree, held>>
  /\ lied' = (lied \/ h # ChunkHash(i) \/ w # Proof[i])

\* What peers send: the hashes of the file, some of them wrong, the last ones missing.
Sent ==
  [i \in Chunk |->
     UNION {{[k \in 1..n |-> IF k \in bad THEN Wrong ELSE Proof[i][k]] : bad \in SUBSET (1..n)} :
            n \in 0..Len(Proof[i])}]

TreeInit == tree = Empty /\ held = [i \in Chunk |-> NoHash] /\ lied = FALSE

TreeNext ==
  \/ \E o \in BOOLEAN : CheckFile({}, FALSE, o) \/ \E right \in SUBSET Chunk : CheckFile(right, TRUE, o)
  \/ \E i \in Chunk : \E h \in {ChunkHash(i), Wrong}, w \in Sent[i] : ReceiveChunk(i, h, w)

TreeSpec == TreeInit /\ [][TreeNext]_merkle

-----------------------------------------------------------------------------
(* Properties.                                                             *)

\* Only chunks of the file are taken for valid, whatever hashes peers have sent and in
\* whatever order: a hash that set() keeps unproved proves nothing (merkle_tree.cpp:149).
OnlyOfFile == \A i \in Chunk : held[i] \in {NoHash, ChunkHash(i)}

\* The lies of others never make the client refuse a chunk of the file that comes
\* with the right hashes.
HonestTaken == tree[Depth][0] # NoHash => \A i \in Chunk : Passes(tree, i, ChunkHash(i), Proof[i])

\* If no peer has lied, the hashes the client gives for a chunk it has are taken by a
\* peer that knows the root only.
ProofsPassedOn ==
  ~lied => \A i \in Chunk : held[i] # NoHash =>
    Passes([Empty EXCEPT ![Depth][0] = MerkleHash], i, held[i], GetHashes(tree, i))

\* Only chunks of the file are taken, honest ones always, and with hashes others can
\* check (merkle_tree.cpp: test_and_set).
ChunkIsOfFile == OnlyOfFile /\ HonestTaken /\ ProofsPassedOn
=============================================================================
