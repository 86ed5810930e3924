--------------------------- MODULE SourceMapProofs ---------------------------
(***************************************************************************)
(* For all trees without cycles of any size, sharing and content, and      *)
(* whatever room append leaves in new arrays: the path recorded of a node  *)
(* leads to it and is the first that does; where the formatter moves       *)
(* nothing, each range in a source map is that of the node itself; and a   *)
(* map is refused only where the first path to a node misses its kind.     *)
(* Nothing is assumed of what formatting and parsing make of a tree.       *)
(*                                                                         *)
(* Paths are as long as trees are deep, so that facts about following them *)
(* need induction.  It is taken from the least element of a set of natural *)
(* numbers (Climb).                                                        *)
(***************************************************************************)
EXTENDS SourceMap, FiniteSetTheorems, WellFoundedInduction, TLAPS

-----------------------------------------------------------------------------
(* Induction, in the form of sets                                          *)

LEMMA LessIsWellFounded ==
    \E R : IsWellFoundedOn(R, Nat) /\ R = { p \in Nat \X Nat : p[1] < p[2] }
<1>1. OpToRel(<, Nat) = { p \in Nat \X Nat : p[1] < p[2] }
  BY Zenon DEF OpToRel
<1> QED
  BY <1>1, NatLessThanWellFounded, Zenon

LEMMA Least ==
    ASSUME NEW S \in SUBSET Nat, S # {}
    PROVE  \E n \in S : \A m \in S : n <= m
<1>1. PICK R : IsWellFoundedOn(R, Nat) /\ R = { p \in Nat \X Nat : p[1] < p[2] }
  BY LessIsWellFounded
<1>2. PICK n \in S : \A m \in S : <<m, n>> \notin R
  BY <1>1, WFMin
<1>3. ASSUME NEW m \in S PROVE n <= m
  <2>1. <<m, n>> \notin R /\ m \in Nat /\ n \in Nat
    BY <1>2
  <2>2. <<m, n>> \in R <=> m < n
    BY <1>1, <2>1
  <2> QED
    BY <2>1, <2>2
<1> QED
  BY <1>3

LEMMA Climb ==
    ASSUME NEW S, 0 \in S, \A n \in Nat : n \in S => n + 1 \in S
    PROVE  Nat \subseteq S
<1> SUFFICES ASSUME Nat \ S # {} PROVE FALSE
  OBVIOUS
<1>1. PICK n \in Nat \ S : \A m \in Nat \ S : n <= m
  BY Least
<1> QED
  BY <1>1

-----------------------------------------------------------------------------
(* Following a path                                                        *)

(* The vertices an edge leads to from those of S.                          *)
Onward(t, S, e) == { Edges(t, m)[e] : m \in { m \in S : e \in DOMAIN Edges(t, m) } }

(* What Followed computes, for the first n steps of a path.                *)
Follows(t, path, n, f) ==
    f = [i \in 0 .. n |-> IF i = 0 THEN {Root} ELSE Onward(t, f[i - 1], path[i])]

LEMMA FollowsExists ==
    ASSUME NEW t, NEW path, NEW k \in Nat
    PROVE  \E f : Follows(t, path, k, f)
<1> DEFINE S == { n \in Nat : \E f : Follows(t, path, n, f) }
<1>1. 0 \in S
  <2>1. PICK f : f = [i \in 0 .. 0 |-> {Root}]
    OBVIOUS
  <2>2. f = [i \in 0 .. 0 |-> IF i = 0 THEN {Root} ELSE Onward(t, f[i - 1], path[i])]
    BY <2>1
  <2> QED
    BY <2>2 DEF Follows
<1>2. ASSUME NEW n \in Nat, n \in S PROVE n + 1 \in S
  <2>1. PICK f : Follows(t, path, n, f)
    BY <1>2
  <2>6. \A i \in 0 .. n : f[i] = IF i = 0 THEN {Root} ELSE Onward(t, f[i - 1], path[i])
    BY <2>1 DEF Follows
  <2>2. PICK last : last = Onward(t, f[n], path[n + 1])
    OBVIOUS
  <2>3. PICK g : g = [i \in 0 .. n + 1 |-> IF i = n + 1 THEN last ELSE f[i]]
    OBVIOUS
  <2>4. ASSUME NEW i \in 0 .. n + 1
        PROVE  g[i] = IF i = 0 THEN {Root} ELSE Onward(t, g[i - 1], path[i])
    <3>1. CASE i = n + 1
      BY <2>2, <2>3, <3>1
    <3>2. CASE i # n + 1
      <4>1. i \in 0 .. n /\ g[i] = f[i]
        BY <2>3, <3>2
      <4>2. i # 0 => g[i - 1] = f[i - 1]
        BY <2>3, <3>2
      <4> QED
        BY <2>6, <4>1, <4>2
    <3> QED
      BY <3>1, <3>2
  <2>5. g = [i \in 0 .. n + 1 |-> IF i = 0 THEN {Root} ELSE Onward(t, g[i - 1], path[i])]
    BY <2>3, <2>4
  <2> QED
    BY <2>5 DEF Follows
<1> HIDE DEF S
<1>3. k \in S
  BY <1>1, <1>2, Climb
<1> QED
  BY <1>3 DEF S

(* The first k steps of a path lead along the nodes of w.                  *)
Walk(t, path, k, w) ==
    /\ w[0] = Root
    /\ \A i \in 1 .. k : /\ path[i] \in DOMAIN Edges(t, w[i - 1])
                         /\ w[i] = Edges(t, w[i - 1])[path[i]]

(* A node has been followed to exactly if a walk leads to it.              *)
LEMMA FollowedIs ==
    ASSUME NEW t, NEW path, Len(path) \in Nat
    PROVE  \A n : n \in Followed(t, path) <=>
                    \E w : Walk(t, path, Len(path), w) /\ w[Len(path)] = n
<1>1. PICK f : Follows(t, path, Len(path), f) /\ Followed(t, path) = f[Len(path)]
  <2>1. \E f : Follows(t, path, Len(path), f)
    BY FollowsExists
  <2> QED
    BY <2>1 DEF Followed, Follows, Onward
<1> DEFINE S == { k \in Nat : k <= Len(path) =>
                    \A n : n \in f[k] <=> \E w : Walk(t, path, k, w) /\ w[k] = n }
<1>2. 0 \in S
  <2>1. f[0] = {Root}
    BY <1>1 DEF Follows
  <2>2. PICK w : w = [i \in {0} |-> Root]
    OBVIOUS
  <2>3. Walk(t, path, 0, w) /\ w[0] = Root
    BY <2>2 DEF Walk
  <2> QED
    BY <2>1, <2>3 DEF Walk
<1>3. ASSUME NEW k \in Nat, k \in S PROVE k + 1 \in S
  <2> SUFFICES ASSUME k + 1 <= Len(path), NEW n
               PROVE  n \in f[k + 1] <=> \E w : Walk(t, path, k + 1, w) /\ w[k + 1] = n
    OBVIOUS
  <2>1. f[k + 1] = Onward(t, f[k], path[k + 1])
    <3>1. k + 1 \in 0 .. Len(path) /\ k + 1 # 0 /\ (k + 1) - 1 = k
      OBVIOUS
    <3> QED
      BY <1>1, <3>1 DEF Follows
  <2>2. ASSUME NEW m \in f[k], path[k + 1] \in DOMAIN Edges(t, m),
               n = Edges(t, m)[path[k + 1]]
        PROVE  \E w : Walk(t, path, k + 1, w) /\ w[k + 1] = n
    <3>1. PICK v : Walk(t, path, k, v) /\ v[k] = m
      BY <1>3, <2>2
    <3>2. PICK w : w = [i \in 0 .. k + 1 |-> IF i = k + 1 THEN n ELSE v[i]]
      OBVIOUS
    <3>3. w[0] = Root /\ w[k] = m /\ w[k + 1] = n /\ \A i \in 0 .. k : w[i] = v[i]
      BY <3>1, <3>2 DEF Walk
    <3>4. ASSUME NEW i \in 1 .. k + 1
          PROVE  /\ path[i] \in DOMAIN Edges(t, w[i - 1])
                 /\ w[i] = Edges(t, w[i - 1])[path[i]]
      <4>1. CASE i = k + 1
        BY <2>2, <3>3, <4>1
      <4>2. CASE i # k + 1
        <5>1. i \in 1 .. k /\ i \in 0 .. k /\ i - 1 \in 0 .. k
          BY <4>2
        <5> QED
          BY <3>1, <3>3, <5>1 DEF Walk
      <4> QED
        BY <4>1, <4>2
    <3> QED
      BY <3>3, <3>4 DEF Walk
  <2>3. ASSUME NEW w, Walk(t, path, k + 1, w), w[k + 1] = n
        PROVE  n \in Onward(t, f[k], path[k + 1])
    <3>1. Walk(t, path, k, w)
      BY <2>3 DEF Walk
    <3>2. w[k] \in f[k]
      BY <1>3, <3>1
    <3>3. /\ path[k + 1] \in DOMAIN Edges(t, w[k])
          /\ n = Edges(t, w[k])[path[k + 1]]
      <4>1. k + 1 \in 1 .. k + 1 /\ (k + 1) - 1 = k
        OBVIOUS
      <4> QED
        BY <2>3, <4>1 DEF Walk
    <3> QED
      BY <3>2, <3>3 DEF Onward
  <2>4. n \in f[k + 1] <=> \E m \in f[k] : /\ path[k + 1] \in DOMAIN Edges(t, m)
                                           /\ n = Edges(t, m)[path[k + 1]]
    BY <2>1 DEF Onward
  <2> QED
    BY <2>1, <2>2, <2>3, <2>4
<1> HIDE DEF S
<1>4. Len(path) \in S
  BY <1>2, <1>3, Climb
<1> QED
  BY <1>1, <1>4 DEF S

(* Walks along paths that begin alike are alike.                           *)
LEMMA WalksAgree ==
    ASSUME NEW t, NEW p, NEW q, NEW v, NEW w, NEW k \in Nat,
           Walk(t, p, k, v), Walk(t, q, k, w), \A i \in 1 .. k : p[i] = q[i]
    PROVE  \A i \in 0 .. k : v[i] = w[i]
<1> DEFINE S == { i \in Nat : i <= k => v[i] = w[i] }
<1>1. 0 \in S
  BY DEF Walk
<1>2. ASSUME NEW i \in Nat, i \in S PROVE i + 1 \in S
  <2> SUFFICES ASSUME i + 1 <= k PROVE v[i + 1] = w[i + 1]
    OBVIOUS
  <2>1. i + 1 \in 1 .. k /\ (i + 1) - 1 = i /\ v[i] = w[i]
    BY <1>2
  <2> QED
    BY <2>1 DEF Walk
<1> HIDE DEF S
<1>3. Nat \subseteq S
  BY <1>1, <1>2, Climb
<1> QED
  BY <1>3 DEF S

(* A path leads to one node at most.                                       *)
LEMMA FollowedOne ==
    ASSUME NEW t, NEW path, Len(path) \in Nat, NEW w,
           Walk(t, path, Len(path), w)
    PROVE  Followed(t, path) = {w[Len(path)]}
<1>1. \A n : n \in Followed(t, path) <=> n = w[Len(path)]
  <2>1. ASSUME NEW v, Walk(t, path, Len(path), v)
        PROVE  v[Len(path)] = w[Len(path)]
    BY <2>1, WalksAgree
  <2> QED
    BY <2>1, FollowedIs
<1> QED
  BY <1>1

-----------------------------------------------------------------------------
(* Slices                                                                  *)

Slices == [array : Nat, len : Nat]
Memories == Seq(Seq(Nat))

(* The array of the slice is there, and long enough.                       *)
Holds(slice, mem) ==
    /\ slice \in Slices
    /\ slice.len # 0 => slice.array \in DOMAIN mem /\ slice.len <= Len(mem[slice.array])

(* All arrays are still there, and what is in them too: but for what lies  *)
(* behind the end of the slice in its array.                               *)
Keeps(slice, mem, new) ==
    \A a \in DOMAIN mem :
        /\ a \in DOMAIN new /\ Len(new[a]) = Len(mem[a])
        /\ \A i \in 1 .. Len(mem[a]) :
             (slice.len # 0 /\ a = slice.array => i <= slice.len)
               => new[a][i] = mem[a][i]

(* The elements of a slice are those of another one, and perhaps more.     *)
Extends(slice, mem, new, newMem) ==
    /\ slice.len <= new.len
    /\ \A i \in 1 .. slice.len : newMem[new.array][i] = mem[slice.array][i]

LEMMA LongerSeq ==
    ASSUME NEW S, NEW s \in Seq(S), NEW x \in S
    PROVE  /\ Append(s, x) \in Seq(S) /\ Len(Append(s, x)) = Len(s) + 1
           /\ DOMAIN Append(s, x) = 1 .. Len(s) + 1 /\ Len(s) \in Nat
           /\ DOMAIN s = 1 .. Len(s)
           /\ \A i \in DOMAIN s : Append(s, x)[i] = s[i]
           /\ Append(s, x)[Len(s) + 1] = x
OBVIOUS

LEMMA AppendedIs ==
    ASSUME memory \in Memories, NEW slice, Holds(slice, memory), NEW step \in Nat,
           NEW result \in Appended(slice, step)
    PROVE  /\ result.memory \in Memories
           /\ Holds(result.slice, result.memory)
           /\ result.slice.len = slice.len + 1
           /\ Extends(slice, memory, result.slice, result.memory)
           /\ result.memory[result.slice.array][slice.len + 1] = step
           /\ Keeps(slice, memory, result.memory)
           /\ \/ result.slice.array = slice.array /\ slice.len # 0
              \/ result.slice.array \notin DOMAIN memory
<1> PICK a, n : a = slice.array /\ n = slice.len
  OBVIOUS
<1>0. a \in Nat /\ n \in Nat /\ slice = [array |-> a, len |-> n]
  BY DEF Holds, Slices
<1>1. CASE n > 0 /\ n < Len(memory[a])
  <2>1. result = [slice |-> [slice EXCEPT !.len = @ + 1],
                  memory |-> [memory EXCEPT ![a][n + 1] = step]]
    BY <1>0, <1>1 DEF Appended
  <2>2. /\ result.slice = [array |-> a, len |-> n + 1]
        /\ result.slice.array = a /\ result.slice.len = n + 1
    BY <1>0, <2>1
  <2>3. PICK new : new = [memory EXCEPT ![a][n + 1] = step] /\ result.memory = new
    BY <2>1
  <2>4. a \in DOMAIN memory /\ memory[a] \in Seq(Nat)
    BY <1>0, <1>1 DEF Holds, Memories
  <2>5. PICK row : row = [memory[a] EXCEPT ![n + 1] = step]
    OBVIOUS
  <2>6. /\ row \in Seq(Nat) /\ Len(row) = Len(memory[a]) /\ row[n + 1] = step
        /\ \A i \in 1 .. n : row[i] = memory[a][i]
    BY <1>0, <1>1, <2>4, <2>5
  <2>7. new = [memory EXCEPT ![a] = row]
    BY <2>3, <2>5
  <2>8. /\ new \in Memories /\ DOMAIN new = DOMAIN memory /\ new[a] = row
        /\ \A b \in DOMAIN memory : b # a => new[b] = memory[b]
    BY <2>4, <2>6, <2>7 DEF Memories
  <2>9. Holds(result.slice, new)
    <3>1. result.slice \in Slices
      BY <1>0, <2>2 DEF Slices
    <3> QED
      BY <1>0, <1>1, <2>2, <2>4, <2>6, <2>8, <3>1 DEF Holds
  <2>10. Extends(slice, memory, result.slice, new)
    BY <1>0, <2>2, <2>6, <2>8 DEF Extends
  <2>11. Keeps(slice, memory, new)
    BY <1>0, <1>1, <2>6, <2>8 DEF Keeps
  <2> QED
    BY <1>0, <1>1, <2>2, <2>3, <2>6, <2>8, <2>9, <2>10, <2>11
<1>2. CASE ~ (n > 0 /\ n < Len(memory[a]))
  <2>1. PICK spare \in 0 .. MaxSpare :
          result = [slice |-> [array |-> Len(memory) + 1, len |-> n + 1],
                    memory |-> Append(memory, [i \in 1 .. n + 1 + spare |->
                         IF i <= n THEN Contents(slice)[i]
                         ELSE IF i = n + 1 THEN step ELSE 0])]
    BY <1>0, <1>2 DEF Appended
  <2>2. PICK row : row = [i \in 1 .. n + 1 + spare |->
                         IF i <= n THEN Contents(slice)[i]
                         ELSE IF i = n + 1 THEN step ELSE 0]
    OBVIOUS
  <2>3. ASSUME NEW i \in 1 .. n
        PROVE  Contents(slice)[i] = memory[a][i] /\ memory[a][i] \in Nat
    <3>1. a \in DOMAIN memory /\ n <= Len(memory[a]) /\ memory[a] \in Seq(Nat)
      BY <1>0, <2>3 DEF Holds, Memories
    <3>2. Contents(slice) = SubSeq(memory[a], 1, n)
      BY <1>0, <2>3 DEF Contents
    <3> QED
      BY <1>0, <3>1, <3>2
  <2>4. spare \in Nat
    BY TreesAssumption
  <2>5. /\ row \in Seq(Nat) /\ Len(row) = n + 1 + spare /\ row[n + 1] = step
        /\ \A i \in 1 .. n : row[i] = memory[a][i]
    <3> PICK size : size = n + 1 + spare
      OBVIOUS
    <3>0. size \in Nat /\ n + 1 <= size
      BY <1>0, <2>4
    <3>1. /\ \A i \in 1 .. size : row[i] = IF i <= n THEN Contents(slice)[i]
                                        ELSE IF i = n + 1 THEN step ELSE 0
          /\ DOMAIN row = 1 .. size /\ row = [i \in 1 .. size |-> row[i]]
      BY <2>2
    <3>5. \A i \in 1 .. n : i \in 1 .. size /\ i <= n
      BY <1>0, <3>0
    <3>6. \A i \in 1 .. n : row[i] = memory[a][i] /\ row[i] \in Nat
      BY <2>3, <3>1, <3>5
    <3>2. ASSUME NEW i \in 1 .. size PROVE row[i] \in Nat
      <4>1. CASE i <= n
        BY <1>0, <3>0, <3>6, <4>1
      <4>2. CASE ~ (i <= n)
        <5>1. row[i] = IF i = n + 1 THEN step ELSE 0
          BY <3>1, <4>2
        <5> QED
          BY <5>1
      <4> QED
        BY <4>1, <4>2
    <3>7. row[n + 1] = step
      <4>1. n + 1 \in 1 .. size /\ ~ (n + 1 <= n)
        BY <1>0, <3>0
      <4> QED
        BY <3>1, <4>1
    <3>3. row \in [1 .. size -> Nat]
      BY <3>1, <3>2
    <3>4. row \in Seq(Nat) /\ Len(row) = size
      BY <3>0, <3>1, <3>3
    <3> QED
      BY <3>4, <3>6, <3>7
  <2>6. PICK new : new = Append(memory, row) /\ result.memory = new
    BY <2>1, <2>2
  <2>7. /\ new \in Memories /\ DOMAIN new = DOMAIN memory \cup {Len(memory) + 1}
        /\ new[Len(memory) + 1] = row /\ Len(memory) \in Nat
        /\ Len(memory) + 1 \notin DOMAIN memory
        /\ \A b \in DOMAIN memory : new[b] = memory[b]
    <3>1. memory \in Seq(Seq(Nat)) /\ row \in Seq(Nat)
      BY <2>5 DEF Memories
    <3>2. /\ new \in Memories /\ DOMAIN new = 1 .. Len(memory) + 1
          /\ DOMAIN memory = 1 .. Len(memory) /\ Len(memory) \in Nat
          /\ new[Len(memory) + 1] = row
          /\ \A b \in DOMAIN memory : new[b] = memory[b]
      BY <2>6, <3>1, LongerSeq DEF Memories
    <3> QED
      BY <3>2
  <2>8. /\ result.slice = [array |-> Len(memory) + 1, len |-> n + 1]
        /\ result.slice.array = Len(memory) + 1 /\ result.slice.len = n + 1
    BY <2>1
  <2>9. Holds(result.slice, new)
    <3>1. result.slice \in Slices
      BY <1>0, <2>7, <2>8 DEF Slices
    <3> QED
      BY <1>0, <2>4, <2>5, <2>7, <2>8, <3>1 DEF Holds
  <2>10. Extends(slice, memory, result.slice, new)
    <3>1. slice.len <= result.slice.len /\ new[result.slice.array] = row
      BY <1>0, <2>7, <2>8
    <3> QED
      BY <1>0, <2>5, <3>1 DEF Extends
  <2>11. Keeps(slice, memory, new)
    BY <2>7 DEF Keeps
  <2> QED
    BY <1>0, <2>5, <2>6, <2>7, <2>8, <2>9, <2>10, <2>11
<1> QED
  BY <1>1, <1>2

(* A copy has an array of its own.                                         *)
LEMMA CopiedIs ==
    ASSUME NEW mem \in Memories, NEW slice, Holds(slice, mem),
           NEW copy, copy = Copied(slice, mem)
    PROVE  /\ copy.memory \in Memories
           /\ Holds(copy.slice, copy.memory)
           /\ copy.slice.len = slice.len
           /\ Extends(slice, mem, copy.slice, copy.memory)
           /\ \A a \in DOMAIN mem : a \in DOMAIN copy.memory /\ copy.memory[a] = mem[a]
           /\ slice.len # 0 => copy.slice.array \notin DOMAIN mem
<1> PICK a, n : a = slice.array /\ n = slice.len
  OBVIOUS
<1>0. a \in Nat /\ n \in Nat /\ slice = [array |-> a, len |-> n]
  BY DEF Holds, Slices
<1>1. CASE n = 0
  <2>1. copy.slice = [array |-> 0, len |-> 0] /\ copy.memory = mem
    BY <1>1 DEF Copied, NilSlice
  <2> QED
    BY <1>0, <1>1, <2>1 DEF Holds, Slices, Extends
<1>2. CASE n # 0
  <2>1. /\ a \in DOMAIN mem /\ mem[a] \in Seq(Nat) /\ n <= Len(mem[a])
    BY <1>2 DEF Holds, Memories
  <2>2. PICK row : row = SubSeq(mem[a], 1, n)
    OBVIOUS
  <2>3. /\ row \in Seq(Nat) /\ Len(row) = n
        /\ \A i \in 1 .. n : row[i] = mem[a][i]
    BY <1>0, <2>1, <2>2
  <2>4. /\ copy.slice = [array |-> Len(mem) + 1, len |-> n]
        /\ copy.memory = Append(mem, row)
    BY <1>2, <2>2 DEF Copied
  <2>5. /\ copy.memory \in Memories
        /\ DOMAIN copy.memory = DOMAIN mem \cup {Len(mem) + 1}
        /\ copy.memory[Len(mem) + 1] = row /\ Len(mem) \in Nat
        /\ Len(mem) + 1 \notin DOMAIN mem
        /\ \A b \in DOMAIN mem : copy.memory[b] = mem[b]
    BY <2>3, <2>4, LongerSeq DEF Memories
  <2> QED
    BY <1>0, <2>3, <2>4, <2>5 DEF Holds, Slices, Extends
<1> QED
  BY <1>1, <1>2

-----------------------------------------------------------------------------
(* The walk                                                                *)

Frames == [node : DOMAIN tree, path : Slices, next : Nat \ {0}]

TypeOK == /\ tree \in Trees
          /\ memory \in Memories
          /\ DOMAIN paths \subseteq DOMAIN tree
          /\ \A n \in DOMAIN paths : Holds(paths[n], memory)
          /\ stack \in Seq(Frames)
          /\ \A k \in DOMAIN stack : Holds(stack[k].path, memory)

(* Call k is of the node that the edge its caller has taken leads to, and  *)
(* its path is made of the edges its callers have taken.                   *)
CallOK(k, st, mem, t, met) ==
    /\ st[k].node \in met
    /\ k = 1 => st[k].node = Root
    /\ k > 1 => /\ st[k - 1].next > 1
                /\ st[k - 1].next - 1 \in DOMAIN Edges(t, st[k - 1].node)
                /\ st[k].node = Edges(t, st[k - 1].node)[st[k - 1].next - 1]
    /\ st[k].path.len = k - 1
    /\ \A j \in 1 .. k - 1 : mem[st[k].path.array][j] = st[j].next - 1

CallsInv == \A k \in DOMAIN stack : CallOK(k, stack, memory, tree, DOMAIN paths)

(* No call can append to the array of a recorded path.                     *)
OwnArrays ==
    \A n \in DOMAIN paths : \A k \in DOMAIN stack :
        paths[n].len # 0 /\ k # 1 => paths[n].array # stack[k].path.array

LEMMA TreeLaws ==
    ASSUME NEW t \in Trees
    PROVE  /\ Root \in DOMAIN t /\ DOMAIN t \subseteq Nat
           /\ \A n \in DOMAIN t :
                /\ \A e \in DOMAIN Edges(t, n) : e \in Nat \ {0}
                /\ \A e \in DOMAIN Edges(t, n) : Edges(t, n)[e] \in DOMAIN t
                /\ Successors(Graph(t), n) = { Edges(t, n)[e] : e \in DOMAIN Edges(t, n) }
           /\ DOMAIN Graph(t) = DOMAIN t
           /\ Acyclic(Graph(t))
<1>1. Root \in DOMAIN t /\ DOMAIN t \subseteq Nat /\ Acyclic(Graph(t))
  BY TreesAssumption
<1>2. DOMAIN Graph(t) = DOMAIN t /\ \A n \in DOMAIN t : Graph(t)[n] = Edges(t, n)
  BY DEF Graph
<1>3. ASSUME NEW n \in DOMAIN t
      PROVE  /\ DOMAIN Edges(t, n) \subseteq Nat \ {0}
             /\ Successors(Graph(t), n) \subseteq DOMAIN t
             /\ Successors(Graph(t), n) = { Edges(t, n)[e] : e \in DOMAIN Edges(t, n) }
  <2>1. /\ DOMAIN Edges(t, n) \subseteq Nat \ {0}
        /\ Successors(Graph(t), n) \subseteq DOMAIN t
    BY TreesAssumption
  <2> QED
    BY <1>2, <2>1 DEF Successors
<1>4. \A n \in DOMAIN t : \A e \in DOMAIN Edges(t, n) : Edges(t, n)[e] \in DOMAIN t
  BY <1>3
<1> QED
  BY <1>1, <1>2, <1>3, <1>4

LEMMA FrameTypes ==
    ASSUME TypeOK
    PROVE  /\ Len(stack) \in Nat /\ DOMAIN stack = 1 .. Len(stack)
           /\ \A k \in DOMAIN stack :
                /\ stack[k] \in Frames
                /\ stack[k].node \in DOMAIN tree /\ stack[k].path \in Slices
                /\ stack[k].next \in Nat \ {0}
<1>1. stack \in Seq(Frames)
  BY DEF TypeOK
<1>2. \A frame \in Frames : /\ frame.node \in DOMAIN tree /\ frame.path \in Slices
                            /\ frame.next \in Nat \ {0}
  BY DEF Frames
<1> QED
  BY <1>1, <1>2

(* The edge that the last call takes next.                                 *)
LEMMA NextEdgeIs ==
    ASSUME TypeOK, stack # <<>>, Ahead # {}
    PROVE  /\ NextEdge \in DOMAIN Edges(tree, Top.node) /\ NextEdge \in Nat \ {0}
           /\ Top.next <= NextEdge
           /\ \A e \in DOMAIN Edges(tree, Top.node) : e < NextEdge => e < Top.next
<1>1. Len(stack) \in DOMAIN stack
  BY FrameTypes DEF TypeOK
<1>2. Top.node \in DOMAIN tree /\ Top.next \in Nat
  BY <1>1, FrameTypes DEF Top
<1>3. \A e \in DOMAIN Edges(tree, Top.node) : e \in Nat \ {0}
  BY <1>2, TreeLaws DEF TypeOK
<1>4. Ahead \in SUBSET Nat
  BY <1>3 DEF Ahead
<1>5. \E e \in Ahead : \A other \in Ahead : e <= other
  BY <1>4, Least
<1>6. NextEdge \in Ahead /\ \A other \in Ahead : NextEdge <= other
  BY <1>5 DEF NextEdge
<1>7. NextEdge \in DOMAIN Edges(tree, Top.node) /\ NextEdge \in Nat \ {0}
      /\ Top.next <= NextEdge
  BY <1>2, <1>3, <1>6 DEF Ahead
<1>8. ASSUME NEW e \in DOMAIN Edges(tree, Top.node), e < NextEdge
      PROVE  e < Top.next
  <2>1. e \notin Ahead
    BY <1>3, <1>6, <1>7, <1>8
  <2> QED
    BY <1>2, <1>3, <2>1 DEF Ahead
<1> QED
  BY <1>7, <1>8

(* The callers after one more edge.                                        *)
LEMMA CallersAre ==
    ASSUME TypeOK, stack # <<>>, Ahead # {}, NEW callers,
           callers = [stack EXCEPT ![Len(stack)].next = NextEdge + 1]
    PROVE  /\ callers \in Seq(Frames) /\ Len(callers) = Len(stack)
           /\ DOMAIN callers = DOMAIN stack
           /\ \A k \in DOMAIN stack :
                /\ callers[k].node = stack[k].node /\ callers[k].path = stack[k].path
                /\ callers[k].next = IF k = Len(stack) THEN NextEdge + 1
                                     ELSE stack[k].next
<1> PICK L : L = Len(stack)
  OBVIOUS
<1>1. L \in DOMAIN stack /\ stack \in Seq(Frames) /\ DOMAIN stack = 1 .. L /\ L \in Nat
  BY DEF TypeOK
<1>2. PICK top : top = [stack[L] EXCEPT !.next = NextEdge + 1]
  OBVIOUS
<1>3. /\ top \in Frames /\ top.node = stack[L].node /\ top.path = stack[L].path
      /\ top.next = NextEdge + 1
  <2>1. stack[L] \in Frames
    BY <1>1
  <2>2. NextEdge \in Nat
    BY NextEdgeIs
  <2> QED
    BY <1>2, <2>1, <2>2 DEF Frames
<1>4. callers = [stack EXCEPT ![L] = top]
  BY <1>2
<1>5. /\ callers \in Seq(Frames) /\ Len(callers) = L /\ DOMAIN callers = DOMAIN stack
      /\ callers[L] = top /\ \A k \in DOMAIN stack \ {L} : callers[k] = stack[k]
  BY <1>1, <1>3, <1>4
<1> QED
  BY <1>1, <1>3, <1>5

LEMMA HoldsStays ==
    ASSUME NEW slice, NEW top \in Slices, NEW mem, NEW new,
           Holds(slice, mem), Keeps(top, mem, new)
    PROVE  /\ Holds(slice, new)
           /\ (slice.array # top.array \/ top.len = 0 \/ slice.len <= top.len) =>
                \A i \in 1 .. slice.len : new[slice.array][i] = mem[slice.array][i]
<1>1. slice.len \in Nat
  BY DEF Holds, Slices
<1>2. CASE slice.len = 0
  BY <1>1, <1>2 DEF Holds
<1>3. CASE slice.len # 0
  <2>1. /\ slice.array \in DOMAIN mem /\ slice.len <= Len(mem[slice.array])
        /\ slice.array \in DOMAIN new
        /\ Len(new[slice.array]) = Len(mem[slice.array])
    BY <1>3 DEF Holds, Keeps
  <2>2. Holds(slice, new)
    BY <2>1 DEF Holds
  <2>3. ASSUME slice.array # top.array \/ top.len = 0 \/ slice.len <= top.len,
               NEW i \in 1 .. slice.len
        PROVE  new[slice.array][i] = mem[slice.array][i]
    <3>1. i \in 1 .. Len(mem[slice.array])
      <4> PICK l : l = Len(mem[slice.array])
        OBVIOUS
      <4>1. slice.len <= l
        BY <2>1
      <4>2. l \in Int
        BY <1>1, <2>1
      <4> QED
        BY <1>1, <4>1, <4>2
    <3>2. top.len # 0 /\ slice.array = top.array => i <= top.len
      BY <1>1, <2>3 DEF Slices
    <3> QED
      BY <2>1, <3>1, <3>2 DEF Keeps
  <2> QED
    BY <2>2, <2>3
<1> QED
  BY <1>2, <1>3

(* Callers of a call that do not change, and a path that is kept.          *)
Unchanged(k, st, new, mem, newMem) ==
    /\ new[k].node = st[k].node /\ new[k].path = st[k].path
    /\ \A j \in 1 .. k - 1 :
         /\ new[j].node = st[j].node /\ new[j].next = st[j].next
         /\ newMem[st[k].path.array][j] = mem[st[k].path.array][j]

LEMMA CallStays ==
    ASSUME NEW k \in Nat \ {0}, NEW st, NEW new, NEW mem, NEW newMem, NEW t,
           NEW met, NEW newMet,
           CallOK(k, st, mem, t, met), Unchanged(k, st, new, mem, newMem),
           met \subseteq newMet
    PROVE  CallOK(k, new, newMem, t, newMet)
<1>1. k > 1 => k - 1 \in 1 .. k - 1
  OBVIOUS
<1>2. k > 1 => new[k - 1].node = st[k - 1].node /\ new[k - 1].next = st[k - 1].next
  BY <1>1 DEF Unchanged
<1> QED
  BY <1>2 DEF Unchanged, CallOK

TopEdge == Edges(tree, Top.node)[NextEdge]

(* The memory after append, and what the child is called with.             *)
LEMMA EdgeAppends ==
    ASSUME TypeOK, CallsInv, OwnArrays, WalkEdge
    PROVE  \E mem, path, callers :
             /\ callers = [stack EXCEPT ![Len(stack)].next = NextEdge + 1]
             /\ mem \in Memories /\ Holds(path, mem) /\ path.len = Len(stack)
             /\ Keeps(Top.path, memory, mem)
             /\ \A i \in 1 .. Len(stack) - 1 : mem[path.array][i] = stack[i].next - 1
             /\ mem[path.array][Len(stack)] = NextEdge
             /\ \/ path.array = Top.path.array /\ Len(stack) # 1
                \/ path.array \notin DOMAIN memory
             /\ \/ /\ TopEdge \in DOMAIN paths
                   /\ memory' = mem /\ stack' = callers /\ paths' = paths
                \/ /\ TopEdge \notin DOMAIN paths
                   /\ Record(TopEdge, path, mem, callers)
<1> PICK L, callers : /\ L = Len(stack)
                      /\ callers = [stack EXCEPT ![Len(stack)].next = NextEdge + 1]
  OBVIOUS
<1>1. /\ L \in DOMAIN stack /\ L \in Nat /\ Top = stack[L]
      /\ Top.path \in Slices /\ NextEdge \in Nat
      /\ Holds(Top.path, memory) /\ Top.path.len = L - 1
      /\ \A i \in 1 .. L - 1 : memory[Top.path.array][i] = stack[i].next - 1
  BY FrameTypes, NextEdgeIs DEF WalkEdge, Top, TypeOK, CallsInv, CallOK
<1>2. PICK result \in Appended(Top.path, NextEdge) :
        \/ /\ TopEdge \in DOMAIN paths
           /\ memory' = result.memory /\ stack' = callers /\ paths' = paths
        \/ /\ TopEdge \notin DOMAIN paths
           /\ Record(TopEdge, result.slice, result.memory, callers)
  BY DEF WalkEdge, TopEdge
<1> PICK mem, path : mem = result.memory /\ path = result.slice
  OBVIOUS
<1>3. /\ mem \in Memories /\ Holds(path, mem)
      /\ path.len = Top.path.len + 1
      /\ Extends(Top.path, memory, path, mem)
      /\ mem[path.array][Top.path.len + 1] = NextEdge
      /\ Keeps(Top.path, memory, mem)
      /\ \/ path.array = Top.path.array /\ Top.path.len # 0
         \/ path.array \notin DOMAIN memory
  BY <1>1, <1>2, AppendedIs DEF TypeOK
<1>4. path.len = L /\ mem[path.array][L] = NextEdge
  BY <1>1, <1>3
<1>5. \A i \in 1 .. L - 1 : mem[path.array][i] = stack[i].next - 1
  BY <1>1, <1>3 DEF Extends
<1>6. \/ path.array = Top.path.array /\ L # 1
      \/ path.array \notin DOMAIN memory
  BY <1>1, <1>3
<1> QED
  BY <1>2, <1>3, <1>4, <1>5, <1>6

(* What is recorded of a node that is met for the first time.              *)
Recorded(n, path, mem) ==
    /\ memory' \in Memories
    /\ DOMAIN paths' = DOMAIN paths \cup {n}
    /\ \A m \in DOMAIN paths : m # n => paths'[m] = paths[m]
    /\ Holds(paths'[n], memory') /\ paths'[n].len = path.len
    /\ \A i \in 1 .. path.len : memory'[paths'[n].array][i] = mem[path.array][i]
    /\ path.len # 0 => paths'[n].array \notin DOMAIN mem
    /\ \A a \in DOMAIN mem : a \in DOMAIN memory' /\ memory'[a] = mem[a]

LEMMA RecordIs ==
    ASSUME NEW n, NEW path, NEW mem \in Memories, NEW callers,
           Holds(path, mem), Record(n, path, mem, callers)
    PROVE  Recorded(n, path, mem)
<1> PICK copy : copy = Copied(path, mem)
  OBVIOUS
<1>1. /\ paths' = [m \in DOMAIN paths \cup {n} |-> IF m = n THEN copy.slice ELSE paths[m]]
      /\ memory' = copy.memory
      /\ stack' = Append(callers, [node |-> n, path |-> path, next |-> 1])
  BY DEF Record
<1>2. /\ copy.memory \in Memories
      /\ Holds(copy.slice, copy.memory)
      /\ copy.slice.len = path.len
      /\ Extends(path, mem, copy.slice, copy.memory)
      /\ \A a \in DOMAIN mem : a \in DOMAIN copy.memory /\ copy.memory[a] = mem[a]
      /\ path.len # 0 => copy.slice.array \notin DOMAIN mem
  BY CopiedIs
<1>3. DOMAIN paths' = DOMAIN paths \cup {n} /\ paths'[n] = copy.slice
  BY <1>1
<1>4. \A m \in DOMAIN paths : m # n => paths'[m] = paths[m]
  BY <1>1
<1> QED
  BY <1>1, <1>2, <1>3, <1>4 DEF Extends, Recorded

(* What one edge leaves as it is: recorded paths, and the calls but for    *)
(* where the last one stands.                                              *)
EdgeKeeps(callers) ==
    /\ tree' = tree /\ memory' \in Memories
    /\ Len(stack) \in DOMAIN stack /\ Len(stack) \in Nat
    /\ DOMAIN stack = 1 .. Len(stack)
    /\ Top = stack[Len(stack)] /\ Top.node \in DOMAIN tree /\ Top.next \in Nat \ {0}
    /\ NextEdge \in DOMAIN Edges(tree, Top.node) /\ TopEdge \in DOMAIN tree
    /\ NextEdge \in Nat \ {0} /\ Top.next <= NextEdge
    /\ \A e \in DOMAIN Edges(tree, Top.node) : e < NextEdge => e < Top.next
    /\ \A n \in DOMAIN paths :
         /\ n \in DOMAIN paths' /\ paths'[n] = paths[n] /\ Holds(paths[n], memory')
         /\ \A i \in 1 .. paths[n].len :
              memory'[paths[n].array][i] = memory[paths[n].array][i]
    /\ \A k \in DOMAIN stack :
         /\ Holds(stack[k].path, memory')
         /\ \A i \in 1 .. k - 1 :
              memory'[stack[k].path.array][i] = memory[stack[k].path.array][i]
    /\ callers \in Seq(Frames) /\ Len(callers) = Len(stack) /\ DOMAIN callers = DOMAIN stack
    /\ \A k \in DOMAIN stack :
         /\ callers[k].node = stack[k].node /\ callers[k].path = stack[k].path
         /\ callers[k].next = IF k = Len(stack) THEN NextEdge + 1 ELSE stack[k].next

(* An edge to a node that has been met, and to one that has not.           *)
MetBefore(callers) ==
    TopEdge \in DOMAIN paths /\ stack' = callers /\ paths' = paths

MetFirst(callers, path) ==
    /\ TopEdge \notin DOMAIN paths
    /\ DOMAIN paths' = DOMAIN paths \cup {TopEdge}
    /\ Holds(paths'[TopEdge], memory')
    /\ paths'[TopEdge].len = Len(stack)
    /\ \A i \in 1 .. Len(stack) - 1 :
         memory'[paths'[TopEdge].array][i] = stack[i].next - 1
    /\ memory'[paths'[TopEdge].array][Len(stack)] = NextEdge
    /\ paths'[TopEdge].array \notin DOMAIN memory
    /\ Holds(path, memory') /\ path.len = Len(stack)
    /\ \A i \in 1 .. Len(stack) - 1 : memory'[path.array][i] = stack[i].next - 1
    /\ memory'[path.array][Len(stack)] = NextEdge
    /\ path.array # paths'[TopEdge].array
    /\ \/ path.array = Top.path.array /\ Len(stack) # 1
       \/ path.array \notin DOMAIN memory
    /\ stack' \in Seq(Frames)
    /\ DOMAIN stack' = 1 .. Len(stack) + 1 /\ Len(stack') = Len(stack) + 1
    /\ \A k \in DOMAIN stack : stack'[k] = callers[k]
    /\ stack'[Len(stack) + 1].node = TopEdge
    /\ stack'[Len(stack) + 1].path = path
    /\ stack'[Len(stack) + 1].next = 1

LEMMA EdgeStep ==
    ASSUME TypeOK, CallsInv, OwnArrays, WalkEdge
    PROVE  \E callers : /\ EdgeKeeps(callers)
                        /\ MetBefore(callers) \/ \E path : MetFirst(callers, path)
<1> PICK L : L = Len(stack)
  OBVIOUS
<1>1. PICK mem, path, callers :
             /\ callers = [stack EXCEPT ![Len(stack)].next = NextEdge + 1]
             /\ mem \in Memories /\ Holds(path, mem) /\ path.len = Len(stack)
             /\ Keeps(Top.path, memory, mem)
             /\ \A i \in 1 .. Len(stack) - 1 : mem[path.array][i] = stack[i].next - 1
             /\ mem[path.array][Len(stack)] = NextEdge
             /\ \/ path.array = Top.path.array /\ Len(stack) # 1
                \/ path.array \notin DOMAIN memory
             /\ \/ /\ TopEdge \in DOMAIN paths
                   /\ memory' = mem /\ stack' = callers /\ paths' = paths
                \/ /\ TopEdge \notin DOMAIN paths
                   /\ Record(TopEdge, path, mem, callers)
  BY EdgeAppends
<1>2. tree' = tree /\ stack # <<>> /\ Ahead # {}
  BY DEF WalkEdge
<1>3. /\ L \in DOMAIN stack /\ L \in Nat /\ Top = stack[L] /\ Top.path \in Slices
      /\ Top.next \in Nat \ {0} /\ Top.node \in DOMAIN tree
      /\ Top.path.len = L - 1
      /\ NextEdge \in DOMAIN Edges(tree, Top.node) /\ TopEdge \in DOMAIN tree
      /\ NextEdge \in Nat \ {0} /\ Top.next <= NextEdge
      /\ \A e \in DOMAIN Edges(tree, Top.node) : e < NextEdge => e < Top.next
  <2>1. /\ L \in DOMAIN stack /\ L \in Nat /\ Top = stack[L]
    BY <1>2, FrameTypes DEF Top
  <2>2. /\ Top.path \in Slices /\ Top.next \in Nat \ {0} /\ Top.node \in DOMAIN tree
        /\ Top.path.len = L - 1
    BY <2>1, FrameTypes DEF CallsInv, CallOK
  <2>3. /\ NextEdge \in DOMAIN Edges(tree, Top.node) /\ NextEdge \in Nat \ {0}
        /\ Top.next <= NextEdge
        /\ \A e \in DOMAIN Edges(tree, Top.node) : e < NextEdge => e < Top.next
    BY <1>2, NextEdgeIs
  <2>4. TopEdge \in DOMAIN tree
    BY <2>2, <2>3, TreeLaws DEF TypeOK, TopEdge
  <2> QED
    BY <2>1, <2>2, <2>3, <2>4
<1>4. ASSUME NEW n \in DOMAIN paths
      PROVE  /\ Holds(paths[n], mem)
             /\ \A i \in 1 .. paths[n].len :
                  mem[paths[n].array][i] = memory[paths[n].array][i]
  <2>1. Holds(paths[n], memory) /\ paths[n].len \in Nat
    BY DEF TypeOK, Holds, Slices
  <2>2. CASE paths[n].len = 0
    BY <1>1, <1>3, <2>1, <2>2, HoldsStays
  <2>3. CASE paths[n].len # 0
    <3>1. paths[n].array # Top.path.array \/ Top.path.len = 0
      BY <1>3, <2>3 DEF OwnArrays
    <3> QED
      BY <1>1, <1>3, <2>1, <3>1, HoldsStays
  <2> QED
    BY <2>2, <2>3
<1>5. ASSUME NEW k \in DOMAIN stack
      PROVE  /\ Holds(stack[k].path, mem)
             /\ \A i \in 1 .. k - 1 :
                  mem[stack[k].path.array][i] = memory[stack[k].path.array][i]
  <2>1. /\ Holds(stack[k].path, memory) /\ stack[k].path.len = k - 1
        /\ k \in Nat /\ k <= L
    BY FrameTypes DEF TypeOK, CallsInv, CallOK
  <2>2. stack[k].path.len <= Top.path.len
    BY <1>3, <2>1
  <2> PICK slice : slice = stack[k].path
    OBVIOUS
  <2>3. /\ Holds(slice, mem)
        /\ \A i \in 1 .. slice.len : mem[slice.array][i] = memory[slice.array][i]
    <3>1. Top.path \in Slices /\ Top.path.len \in Nat /\ Holds(slice, memory)
          /\ slice.len <= Top.path.len
      BY <1>3, <2>1, <2>2 DEF Slices
    <3>2. Keeps(Top.path, memory, mem)
      BY <1>1
    <3> QED
      BY <3>1, <3>2, HoldsStays
  <2> QED
    BY <2>1, <2>3
<1>8. /\ callers \in Seq(Frames) /\ Len(callers) = Len(stack)
      /\ DOMAIN callers = DOMAIN stack /\ DOMAIN stack = 1 .. Len(stack)
      /\ \A k \in DOMAIN stack :
           /\ callers[k].node = stack[k].node /\ callers[k].path = stack[k].path
           /\ callers[k].next = IF k = Len(stack) THEN NextEdge + 1
                                ELSE stack[k].next
  BY <1>1, <1>2, CallersAre, FrameTypes
<1>6. CASE TopEdge \in DOMAIN paths
  <2>1. memory' = mem /\ stack' = callers /\ paths' = paths
    BY <1>1, <1>6
  <2>2. MetBefore(callers)
    BY <1>6, <2>1 DEF MetBefore
  <2>3. EdgeKeeps(callers)
    BY <1>1, <1>2, <1>3, <1>4, <1>5, <1>8, <2>1 DEF EdgeKeeps
  <2> QED
    BY <2>2, <2>3
<1>7. CASE TopEdge \notin DOMAIN paths
  <2>1. Record(TopEdge, path, mem, callers)
    BY <1>1, <1>7
  <2> PICK child : child = TopEdge
    OBVIOUS
  <2>3. /\ memory' \in Memories
        /\ DOMAIN paths' = DOMAIN paths \cup {TopEdge}
        /\ \A m \in DOMAIN paths : m # TopEdge => paths'[m] = paths[m]
        /\ Holds(paths'[TopEdge], memory') /\ paths'[TopEdge].len = path.len
        /\ \A i \in 1 .. path.len : memory'[paths'[TopEdge].array][i] = mem[path.array][i]
        /\ path.len # 0 => paths'[TopEdge].array \notin DOMAIN mem
        /\ \A a \in DOMAIN mem : a \in DOMAIN memory' /\ memory'[a] = mem[a]
    <3>1. Record(child, path, mem, callers)
      BY <2>1
    <3>2. mem \in Memories /\ Holds(path, mem)
      BY <1>1
    <3>3. Recorded(child, path, mem)
      BY <3>1, <3>2, RecordIs
    <3> QED
      BY <3>3 DEF Recorded
  <2> PICK frame : frame = [node |-> TopEdge, path |-> path, next |-> 1]
    OBVIOUS
  <2>4. /\ stack' \in Seq(Frames) /\ DOMAIN stack' = 1 .. L + 1 /\ Len(stack') = L + 1
        /\ \A k \in DOMAIN stack : stack'[k] = callers[k]
        /\ stack'[L + 1].node = TopEdge /\ stack'[L + 1].path = path
        /\ stack'[L + 1].next = 1
    <3>1. frame \in Frames
      BY <1>1, <1>3 DEF Frames, Holds
    <3>2. stack' = Append(callers, frame)
      BY <2>1 DEF Record
    <3>3. frame.node = TopEdge /\ frame.path = path /\ frame.next = 1
      OBVIOUS
    <3>4. /\ stack' \in Seq(Frames) /\ DOMAIN stack' = 1 .. L + 1 /\ Len(stack') = L + 1
          /\ \A k \in DOMAIN stack : stack'[k] = callers[k]
          /\ stack'[L + 1] = frame
      BY <1>8, <3>1, <3>2
    <3> QED
      BY <3>3, <3>4
  <2>5. ASSUME NEW slice, Holds(slice, mem)
        PROVE  /\ Holds(slice, memory')
               /\ \A i \in 1 .. slice.len : memory'[slice.array][i] = mem[slice.array][i]
    BY <2>3, <2>5 DEF Holds, Slices
  <2>6. \A n \in DOMAIN paths : n \in DOMAIN paths' /\ paths'[n] = paths[n]
    BY <1>7, <2>3
  <2>7. ASSUME NEW n \in DOMAIN paths
        PROVE  /\ Holds(paths[n], memory')
               /\ \A i \in 1 .. paths[n].len :
                    memory'[paths[n].array][i] = memory[paths[n].array][i]
    BY <1>4, <2>5
  <2>8. ASSUME NEW k \in DOMAIN stack
        PROVE  /\ Holds(stack[k].path, memory')
               /\ \A i \in 1 .. k - 1 :
                    memory'[stack[k].path.array][i] = memory[stack[k].path.array][i]
    <3>1. stack[k].path.len = k - 1
      BY DEF CallsInv, CallOK
    <3> QED
      BY <1>5, <2>5, <3>1
  <2>9. /\ Holds(path, memory')
        /\ \A i \in 1 .. L : memory'[path.array][i] = mem[path.array][i]
        /\ path.array \in DOMAIN mem
    BY <1>1, <1>3, <2>5 DEF Holds
  <2>10. /\ \A i \in 1 .. L - 1 : memory'[path.array][i] = stack[i].next - 1
         /\ memory'[path.array][L] = NextEdge
    BY <1>1, <1>3, <2>9
  <2>11. /\ \A i \in 1 .. L - 1 : memory'[paths'[TopEdge].array][i] = stack[i].next - 1
         /\ memory'[paths'[TopEdge].array][L] = NextEdge
    BY <1>1, <1>3, <2>3
  <2>12. /\ paths'[TopEdge].array \notin DOMAIN mem
         /\ path.array # paths'[TopEdge].array
         /\ paths'[TopEdge].array \notin DOMAIN memory
    BY <1>1, <1>3, <2>3, <2>9 DEF Keeps
  <2>13. EdgeKeeps(callers)
    BY <1>2, <1>3, <1>8, <2>3, <2>6, <2>7, <2>8 DEF EdgeKeeps
  <2>14. MetFirst(callers, path)
    BY <1>1, <1>7, <2>3, <2>4, <2>9, <2>10, <2>11, <2>12 DEF MetFirst
  <2> QED
    BY <2>13, <2>14
<1> QED
  BY <1>6, <1>7

(* Steps that are not of the walk.                                         *)
Quiet == UNCHANGED <<tree, memory, paths, stack>>

LEMMA Steps == [Next]_vars => WalkRoot \/ WalkEdge \/ WalkReturn \/ Quiet
  BY DEF Next, Format, JoinNext, Finish, vars, Quiet

LEMMA RootStep ==
    ASSUME TypeOK, WalkRoot
    PROVE  /\ tree' = tree /\ memory' = memory
           /\ DOMAIN paths = {} /\ DOMAIN paths' = {Root} /\ paths'[Root] = NilSlice
           /\ DOMAIN stack' = {1} /\ Len(stack') = 1
           /\ stack' \in Seq([node : {Root}, path : {NilSlice}, next : {1}])
           /\ stack'[1].node = Root /\ stack'[1].path = NilSlice /\ stack'[1].next = 1
<1>1. Record(Root, NilSlice, memory, <<>>) /\ tree' = tree /\ paths = <<>>
  BY DEF WalkRoot
<1>2. DOMAIN paths = {}
  BY <1>1
<1>3. Copied(NilSlice, memory) = [slice |-> NilSlice, memory |-> memory]
  BY DEF Copied, NilSlice
<1>4. memory' = memory /\ DOMAIN paths' = {Root} /\ paths'[Root] = NilSlice
  BY <1>1, <1>2, <1>3 DEF Record
<1>5. PICK frame : frame = [node |-> Root, path |-> NilSlice, next |-> 1]
  OBVIOUS
<1>6. stack' = Append(<<>>, frame)
  BY <1>1, <1>5 DEF Record
<1>7. /\ frame \in [node : {Root}, path : {NilSlice}, next : {1}]
      /\ frame.node = Root /\ frame.path = NilSlice /\ frame.next = 1
  BY <1>5
<1>8. stack' = <<frame>>
  BY <1>6
<1> QED
  BY <1>1, <1>2, <1>4, <1>7, <1>8

LEMMA ReturnStep ==
    ASSUME TypeOK, WalkReturn
    PROVE  /\ UNCHANGED <<tree, memory, paths>>
           /\ Len(stack) \in DOMAIN stack /\ Len(stack) \in Nat
           /\ Top = stack[Len(stack)] /\ Ahead = {}
           /\ stack' \in Seq(Frames) /\ Len(stack') = Len(stack) - 1
           /\ DOMAIN stack' = 1 .. Len(stack) - 1 /\ DOMAIN stack' \subseteq DOMAIN stack
           /\ \A k \in DOMAIN stack' : stack'[k] = stack[k]
<1>1. /\ stack' = SubSeq(stack, 1, Len(stack) - 1) /\ stack # <<>>
      /\ UNCHANGED <<tree, memory, paths>>
      /\ Ahead = {}
  BY DEF WalkReturn
<1> PICK L, F : L = Len(stack) /\ F = Frames
  OBVIOUS
<1>2. stack \in Seq(F) /\ L \in Nat /\ L # 0 /\ DOMAIN stack = 1 .. L
  BY <1>1 DEF TypeOK
<1>3. /\ stack' \in Seq(F) /\ Len(stack') = L - 1 /\ DOMAIN stack' = 1 .. L - 1
      /\ \A k \in 1 .. L - 1 : stack'[k] = stack[k]
  BY <1>1, <1>2
<1>4. L \in DOMAIN stack /\ 1 .. L - 1 \subseteq DOMAIN stack
  BY <1>2
<1> QED
  BY <1>1, <1>2, <1>3, <1>4 DEF Top

LEMMA SeqOfMore ==
    ASSUME NEW A, NEW B, \A x \in A : x \in B, NEW s \in Seq(A)
    PROVE  s \in Seq(B)
OBVIOUS

LEMMA TypeStep ==
    ASSUME TypeOK, CallsInv, OwnArrays, [Next]_vars
    PROVE  TypeOK'
<1>1. CASE WalkRoot
  <2>1. /\ tree' = tree /\ memory' = memory
        /\ DOMAIN paths' = {Root} /\ paths'[Root] = NilSlice
        /\ DOMAIN stack' = {1} /\ stack'[1].path = NilSlice
        /\ stack' \in Seq([node : {Root}, path : {NilSlice}, next : {1}])
    BY <1>1, RootStep
  <2>2. Holds(NilSlice, memory')
    BY DEF Holds, Slices, NilSlice
  <2>3. Root \in DOMAIN tree
    BY TreeLaws DEF TypeOK
  <2>4. [node : {Root}, path : {NilSlice}, next : {1}] \subseteq Frames
    <3>1. NilSlice \in Slices
      BY <2>2 DEF Holds
    <3> QED
      BY <2>3, <3>1 DEF Frames
  <2>5. stack' \in Seq(Frames) /\ Frames' = Frames
    <3>1. Frames' = Frames
      BY <2>1 DEF Frames
    <3> PICK A, B, s : A = [node : {Root}, path : {NilSlice}, next : {1}] /\ B = Frames /\ s = stack'
      OBVIOUS
    <3>2. s \in Seq(A) /\ A \subseteq B
      BY <2>1, <2>4
    <3>3. s \in Seq(B)
      BY <3>2, SeqOfMore
    <3> QED
      BY <3>1, <3>3
  <2> QED
    BY <2>1, <2>2, <2>3, <2>5 DEF TypeOK
<1>2. CASE WalkEdge
  <2>1. PICK callers : /\ EdgeKeeps(callers)
                       /\ MetBefore(callers) \/ \E path : MetFirst(callers, path)
    BY <1>2, EdgeStep
  <2>2. /\ tree' = tree /\ memory' \in Memories /\ TopEdge \in DOMAIN tree
        /\ \A n \in DOMAIN paths :
             n \in DOMAIN paths' /\ paths'[n] = paths[n] /\ Holds(paths[n], memory')
        /\ \A k \in DOMAIN stack : Holds(stack[k].path, memory')
        /\ callers \in Seq(Frames) /\ DOMAIN callers = DOMAIN stack
        /\ \A k \in DOMAIN stack : callers[k].path = stack[k].path
        /\ DOMAIN stack = 1 .. Len(stack) /\ Len(stack) \in Nat
    BY <2>1 DEF EdgeKeeps
  <2>3. Frames' = Frames
    BY <2>2 DEF Frames
  <2>4. CASE MetBefore(callers)
    BY <2>2, <2>3, <2>4 DEF TypeOK, MetBefore
  <2>5. ASSUME NEW path, MetFirst(callers, path)
        PROVE  TypeOK'
    <3>1. /\ stack' \in Seq(Frames) /\ DOMAIN stack' = 1 .. Len(stack) + 1
          /\ \A k \in DOMAIN stack : stack'[k] = callers[k]
          /\ stack'[Len(stack) + 1].path = path /\ Holds(path, memory')
          /\ DOMAIN paths' = DOMAIN paths \cup {TopEdge}
          /\ Holds(paths'[TopEdge], memory')
      BY <2>5 DEF MetFirst
    <3>2. \A k \in DOMAIN stack' : Holds(stack'[k].path, memory')
      <4>1. \A k \in DOMAIN stack : stack'[k].path = stack[k].path
        BY <2>2, <3>1
      <4>2. \A k \in DOMAIN stack' : k \in DOMAIN stack \/ k = Len(stack) + 1
        BY <2>2, <3>1
      <4> QED
        BY <2>2, <3>1, <4>1, <4>2
    <3>3. \A n \in DOMAIN paths' : Holds(paths'[n], memory') /\ n \in DOMAIN tree'
      BY <2>2, <3>1 DEF TypeOK
    <3> QED
      BY <2>2, <2>3, <3>1, <3>2, <3>3 DEF TypeOK
  <2> QED
    BY <2>1, <2>4, <2>5
<1>3. CASE WalkReturn
  <2>1. Frames' = Frames
    BY <1>3, ReturnStep DEF Frames
  <2> QED
    BY <1>3, <2>1, ReturnStep DEF TypeOK
<1>4. CASE Quiet
  BY <1>4 DEF Quiet, TypeOK, Frames
<1> QED
  BY <1>1, <1>2, <1>3, <1>4, Steps

LEMMA CallsStep ==
    ASSUME TypeOK, CallsInv, OwnArrays, [Next]_vars
    PROVE  CallsInv'
<1>1. CASE WalkRoot
  <2>1. /\ tree' = tree /\ memory' = memory
        /\ DOMAIN paths' = {Root} /\ DOMAIN stack' = {1}
        /\ stack'[1].node = Root /\ stack'[1].path = NilSlice /\ stack'[1].next = 1
    BY <1>1, RootStep
  <2>2. NilSlice.len = 0
    BY DEF NilSlice
  <2> QED
    BY <2>1, <2>2 DEF CallsInv, CallOK
<1>2. CASE WalkEdge
  <2> PICK L : L = Len(stack)
    OBVIOUS
  <2>1. PICK callers : /\ EdgeKeeps(callers)
                       /\ MetBefore(callers) \/ \E path : MetFirst(callers, path)
    BY <1>2, EdgeStep
  <2>2. /\ tree' = tree /\ L \in DOMAIN stack /\ Top = stack[L] /\ L \in Nat
        /\ DOMAIN stack = 1 .. L /\ DOMAIN callers = DOMAIN stack
        /\ TopEdge \in DOMAIN tree /\ NextEdge \in DOMAIN Edges(tree, Top.node)
        /\ Top.node \in DOMAIN tree /\ NextEdge \in Nat \ {0}
        /\ \A n \in DOMAIN paths : n \in DOMAIN paths'
        /\ \A k \in DOMAIN stack : \A i \in 1 .. k - 1 :
             memory'[stack[k].path.array][i] = memory[stack[k].path.array][i]
        /\ \A k \in DOMAIN stack :
             /\ callers[k].node = stack[k].node /\ callers[k].path = stack[k].path
             /\ callers[k].next = IF k = L THEN NextEdge + 1 ELSE stack[k].next
    BY <2>1 DEF EdgeKeeps
  <2>3. ASSUME NEW new, NEW k \in DOMAIN stack,
               \A j \in DOMAIN stack : new[j] = callers[j]
        PROVE  CallOK(k, new, memory', tree, DOMAIN paths')
    <3>1. k \in Nat \ {0} /\ CallOK(k, stack, memory, tree, DOMAIN paths)
      BY <2>2 DEF CallsInv
    <3>2. Unchanged(k, stack, new, memory, memory')
      <4>1. \A j \in 1 .. k - 1 : j \in DOMAIN stack /\ j # L
        BY <2>2
      <4> QED
        BY <2>2, <2>3, <4>1 DEF Unchanged
    <3>4. DOMAIN paths \subseteq DOMAIN paths'
      BY <2>2
    <3> QED
      BY <3>1, <3>2, <3>4, CallStays
  <2>4. CASE MetBefore(callers)
    BY <2>2, <2>3, <2>4 DEF MetBefore, CallsInv
  <2>5. ASSUME NEW path, MetFirst(callers, path)
        PROVE  CallsInv'
    <3> PICK new : new = stack'
      OBVIOUS
    <3>1. /\ DOMAIN new = 1 .. L + 1 /\ \A k \in DOMAIN stack : new[k] = callers[k]
          /\ new[L + 1].node = TopEdge /\ new[L + 1].path = path /\ new[L + 1].next = 1
          /\ path.len = L /\ memory'[path.array][L] = NextEdge
          /\ \A i \in 1 .. L - 1 : memory'[path.array][i] = stack[i].next - 1
          /\ DOMAIN paths' = DOMAIN paths \cup {TopEdge}
      BY <2>5 DEF MetFirst
    <3>2. new[L].next = NextEdge + 1 /\ new[L].node = Top.node
      BY <2>2, <3>1
    <3>4. ASSUME NEW j \in 1 .. L PROVE memory'[path.array][j] = new[j].next - 1
      <4>1. CASE j = L
        <5>1. memory'[path.array][L] = NextEdge /\ new[L].next - 1 = NextEdge
          BY <2>2, <3>1, <3>2
        <5> QED
          BY <4>1, <5>1
      <4>2. CASE j # L
        <5>1. j \in 1 .. L - 1 /\ j \in DOMAIN stack
          BY <2>2, <4>2
        <5>2. new[j].next = stack[j].next
          BY <2>2, <3>1, <4>2, <5>1
        <5> QED
          BY <3>1, <5>1, <5>2
      <4> QED
        BY <4>1, <4>2
    <3>5. /\ new[L].next - 1 = NextEdge /\ new[L].next > 1
          /\ TopEdge = Edges(tree, new[L].node)[new[L].next - 1]
          /\ new[L].next - 1 \in DOMAIN Edges(tree, new[L].node)
      <4>1. new[L].next - 1 = NextEdge /\ new[L].next > 1
        BY <2>2, <3>2
      <4> QED
        BY <2>2, <3>2, <4>1 DEF TopEdge
    <3>6. CallOK(L + 1, new, memory', tree, DOMAIN paths')
      <4>1. (L + 1) - 1 = L /\ L + 1 # 1
        BY <2>2
      <4> QED
        BY <3>1, <3>4, <3>5, <4>1 DEF CallOK
    <3>7. \A k \in DOMAIN new : k \in DOMAIN stack \/ k = L + 1
      BY <2>2, <3>1
    <3>8. \A k \in DOMAIN new : CallOK(k, new, memory', tree, DOMAIN paths')
      BY <2>3, <3>1, <3>6, <3>7
    <3> QED
      BY <2>2, <3>8 DEF CallsInv
  <2> QED
    BY <2>1, <2>4, <2>5
<1>3. CASE WalkReturn
  <2>1. /\ UNCHANGED <<tree, memory, paths>>
        /\ Len(stack) \in Nat
        /\ DOMAIN stack' = 1 .. Len(stack) - 1 /\ DOMAIN stack' \subseteq DOMAIN stack
        /\ \A k \in DOMAIN stack' : stack'[k] = stack[k]
    BY <1>3, ReturnStep
  <2> PICK new : new = stack'
    OBVIOUS
  <2>2. ASSUME NEW k \in DOMAIN new
        PROVE  CallOK(k, new, memory, tree, DOMAIN paths)
    <3>1. CallOK(k, stack, memory, tree, DOMAIN paths) /\ k \in Nat \ {0}
      BY <2>1 DEF CallsInv
    <3>2. \A j \in 1 .. k - 1 : j \in DOMAIN new
      BY <2>1
    <3>3. Unchanged(k, stack, new, memory, memory)
      BY <2>1, <3>2 DEF Unchanged
    <3> QED
      BY <3>1, <3>3, CallStays
  <2> QED
    BY <2>1, <2>2 DEF CallsInv
<1>4. CASE Quiet
  BY <1>4 DEF Quiet, CallsInv
<1> QED
  BY <1>1, <1>2, <1>3, <1>4, Steps

LEMMA OwnStep ==
    ASSUME TypeOK, CallsInv, OwnArrays, [Next]_vars
    PROVE  OwnArrays'
<1>1. CASE WalkRoot
  BY <1>1, RootStep DEF OwnArrays
<1>2. CASE WalkEdge
  <2> PICK L : L = Len(stack)
    OBVIOUS
  <2>1. PICK callers : /\ EdgeKeeps(callers)
                       /\ MetBefore(callers) \/ \E path : MetFirst(callers, path)
    BY <1>2, EdgeStep
  <2>2. /\ L \in DOMAIN stack /\ Top = stack[L] /\ L \in Nat
        /\ DOMAIN stack = 1 .. L /\ DOMAIN callers = DOMAIN stack
        /\ \A n \in DOMAIN paths : n \in DOMAIN paths' /\ paths'[n] = paths[n]
        /\ \A k \in DOMAIN stack : callers[k].path = stack[k].path
    BY <2>1 DEF EdgeKeeps
  <2>3. CASE MetBefore(callers)
    BY <2>2, <2>3 DEF MetBefore, OwnArrays
  <2>4. ASSUME NEW path, MetFirst(callers, path)
        PROVE  OwnArrays'
    <3>1. /\ DOMAIN paths' = DOMAIN paths \cup {TopEdge} /\ TopEdge \notin DOMAIN paths
          /\ paths'[TopEdge].array \notin DOMAIN memory
          /\ path.array # paths'[TopEdge].array
          /\ \/ path.array = Top.path.array /\ L # 1
             \/ path.array \notin DOMAIN memory
          /\ DOMAIN stack' = 1 .. L + 1
          /\ \A k \in DOMAIN stack : stack'[k] = callers[k]
          /\ stack'[L + 1].path = path
      BY <2>4 DEF MetFirst
    <3>4. \A k \in DOMAIN stack' : \/ k \in DOMAIN stack /\ stack'[k].path = stack[k].path
                                   \/ k = L + 1 /\ stack'[k].path = path
      BY <2>2, <3>1
    <3>5. \A k \in DOMAIN stack : k # 1 => stack[k].path.array \in DOMAIN memory
      <4>1. ASSUME NEW k \in DOMAIN stack, k # 1
            PROVE  stack[k].path.array \in DOMAIN memory
        <5>1. stack[k].path.len = k - 1 /\ k \in Nat /\ Holds(stack[k].path, memory)
          BY <2>2 DEF CallsInv, CallOK, TypeOK
        <5> QED
          BY <4>1, <5>1 DEF Holds
      <4> QED
        BY <4>1
    <3>6. \A n \in DOMAIN paths : paths[n].len # 0 => paths[n].array \in DOMAIN memory
      BY DEF TypeOK, Holds
    <3>7. ASSUME NEW n \in DOMAIN paths', NEW k \in DOMAIN stack',
                 paths'[n].len # 0, k # 1
          PROVE  paths'[n].array # stack'[k].path.array
      <4>1. CASE n \in DOMAIN paths
        <5>0. paths'[n] = paths[n]
          BY <2>2, <4>1
        <5>1. CASE k \in DOMAIN stack /\ stack'[k].path = stack[k].path
          BY <3>7, <4>1, <5>0, <5>1 DEF OwnArrays
        <5>2. CASE stack'[k].path = path
          <6>1. CASE path.array \notin DOMAIN memory
            BY <3>6, <3>7, <4>1, <5>0, <5>2, <6>1
          <6>2. CASE path.array = Top.path.array /\ L # 1
            BY <2>2, <3>7, <4>1, <5>0, <5>2, <6>2 DEF OwnArrays
          <6> QED
            BY <3>1, <6>1, <6>2
        <5> QED
          BY <3>4, <5>1, <5>2
      <4>2. CASE n = TopEdge
        <5>1. CASE k \in DOMAIN stack /\ stack'[k].path = stack[k].path
          BY <3>1, <3>5, <3>7, <4>2, <5>1
        <5>2. CASE stack'[k].path = path
          BY <3>1, <4>2, <5>2
        <5> QED
          BY <3>4, <5>1, <5>2
      <4> QED
        BY <3>1, <4>1, <4>2
    <3> QED
      BY <3>7 DEF OwnArrays
  <2> QED
    BY <2>1, <2>3, <2>4
<1>3. CASE WalkReturn
  BY <1>3, ReturnStep DEF OwnArrays
<1>4. CASE Quiet
  BY <1>4 DEF Quiet, OwnArrays
<1> QED
  BY <1>1, <1>2, <1>3, <1>4, Steps

-----------------------------------------------------------------------------
(* What the walk has done                                                  *)

OnStack == { stack[k].node : k \in DOMAIN stack }
Done    == DOMAIN paths \ OnStack

(* Nodes are done after all that is below them, and the edges that a call  *)
(* has passed lead to nodes that are done.                                 *)
DoneInv ==
    /\ \A n \in Done : \A e \in DOMAIN Edges(tree, n) : Edges(tree, n)[e] \in Done
    /\ \A k \in DOMAIN stack : \A e \in DOMAIN Edges(tree, stack[k].node) :
         e < (IF k = Len(stack) THEN stack[k].next ELSE stack[k].next - 1)
           => Edges(tree, stack[k].node)[e] \in Done

MetInv == /\ DOMAIN paths \subseteq Reachable(Graph(tree), Root)
          /\ DOMAIN paths # {} => Root \in DOMAIN paths

(* The children of an active call.                                         *)
LEMMA Passed ==
    ASSUME TypeOK, CallsInv, NEW k \in DOMAIN stack
    PROVE  /\ stack[k].node \in DOMAIN tree /\ stack[k].next \in Nat \ {0}
           /\ stack[k].node \in DOMAIN paths
           /\ \A e \in DOMAIN Edges(tree, stack[k].node) : e \in Nat \ {0}
           /\ k + 1 \in DOMAIN stack =>
                /\ stack[k].next - 1 \in DOMAIN Edges(tree, stack[k].node)
                /\ stack[k + 1].node = Edges(tree, stack[k].node)[stack[k].next - 1]
<1>1. /\ stack[k].node \in DOMAIN tree /\ stack[k].next \in Nat \ {0} /\ k \in Nat \ {0}
      /\ stack[k].node \in DOMAIN paths
  BY FrameTypes DEF CallsInv, CallOK
<1>2. \A e \in DOMAIN Edges(tree, stack[k].node) : e \in Nat \ {0}
  BY <1>1, TreeLaws DEF TypeOK
<1>3. ASSUME k + 1 \in DOMAIN stack
      PROVE  /\ stack[k].next - 1 \in DOMAIN Edges(tree, stack[k].node)
             /\ stack[k + 1].node = Edges(tree, stack[k].node)[stack[k].next - 1]
  <2>1. CallOK(k + 1, stack, memory, tree, DOMAIN paths)
    BY <1>3 DEF CallsInv
  <2>2. k + 1 > 1 /\ (k + 1) - 1 = k
    BY <1>1
  <2> QED
    BY <2>1, <2>2 DEF CallOK
<1> QED
  BY <1>1, <1>2, <1>3

(* No child of an active call is one of its callers or itself: there would *)
(* be a cycle.                                                             *)
LEMMA NoEdgeBack ==
    ASSUME TypeOK, CallsInv, NEW k \in DOMAIN stack, NEW j \in 1 .. k,
           NEW e \in DOMAIN Edges(tree, stack[k].node)
    PROVE  Edges(tree, stack[k].node)[e] # stack[j].node
<1> SUFFICES ASSUME Edges(tree, stack[k].node)[e] = stack[j].node PROVE FALSE
  OBVIOUS
<1> PICK S : S = { stack[i].node : i \in j .. k }
  OBVIOUS
<1>1. k \in Nat /\ j \in Nat /\ j <= k /\ \A i \in j .. k : i \in DOMAIN stack /\ i \in Nat
  BY FrameTypes
<1>2. \A i \in j .. k : stack[i].node \in DOMAIN tree
  BY <1>1, Passed
<1>3. S \subseteq DOMAIN tree /\ S # {}
  BY <1>1, <1>2
<1>4. ASSUME NEW i \in j .. k
      PROVE  Successors(Graph(tree), stack[i].node) \cap S # {}
  <2>1. /\ Successors(Graph(tree), stack[i].node) =
             { Edges(tree, stack[i].node)[x] : x \in DOMAIN Edges(tree, stack[i].node) }
    BY <1>2, TreeLaws DEF TypeOK
  <2>2. CASE i = k
    BY <1>1, <2>1, <2>2
  <2>3. CASE i # k
    <3>1. i + 1 \in j .. k /\ i + 1 \in DOMAIN stack /\ i \in DOMAIN stack
      BY <1>1, <2>3
    <3>2. /\ stack[i].next - 1 \in DOMAIN Edges(tree, stack[i].node)
          /\ stack[i + 1].node = Edges(tree, stack[i].node)[stack[i].next - 1]
      BY <3>1, Passed
    <3> QED
      BY <2>1, <3>1, <3>2
  <2> QED
    BY <2>2, <2>3
<1>5. Sinkless(Graph(tree), S)
  BY <1>4 DEF Sinkless
<1> QED
  BY <1>3, <1>5, TreeLaws DEF Acyclic, TypeOK

LEMMA CallsDiffer ==
    ASSUME TypeOK, CallsInv, NEW k \in DOMAIN stack, NEW j \in 1 .. k - 1
    PROVE  stack[j].node # stack[k].node
<1>1. k \in Nat /\ k - 1 \in Nat /\ k - 1 \in DOMAIN stack /\ (k - 1) + 1 = k
  BY FrameTypes
<1>2. /\ stack[k - 1].next - 1 \in DOMAIN Edges(tree, stack[k - 1].node)
      /\ stack[k].node = Edges(tree, stack[k - 1].node)[stack[k - 1].next - 1]
  BY <1>1, Passed
<1> QED
  BY <1>1, <1>2, NoEdgeBack

LEMMA DoneStep ==
    ASSUME TypeOK, CallsInv, OwnArrays, DoneInv, [Next]_vars
    PROVE  DoneInv'
<1>1. CASE WalkRoot
  <2>1. /\ tree' = tree /\ DOMAIN paths' = {Root} /\ DOMAIN stack' = {1}
        /\ stack'[1].node = Root /\ stack'[1].next = 1 /\ Len(stack') = 1
    BY <1>1, RootStep
  <2>2. Done' = {}
    BY <2>1 DEF Done, OnStack
  <2>3. \A e \in DOMAIN Edges(tree, Root) : e \in Nat \ {0}
    BY TreeLaws DEF TypeOK
  <2> QED
    BY <2>1, <2>2, <2>3 DEF DoneInv
<1>2. CASE WalkEdge
  <2> PICK L : L = Len(stack)
    OBVIOUS
  <2>1. PICK callers : /\ EdgeKeeps(callers)
                       /\ MetBefore(callers) \/ \E path : MetFirst(callers, path)
    BY <1>2, EdgeStep
  <2>2. /\ tree' = tree /\ L \in DOMAIN stack /\ Top = stack[L] /\ L \in Nat
        /\ DOMAIN stack = 1 .. L /\ DOMAIN callers = DOMAIN stack /\ Len(callers) = L
        /\ TopEdge \in DOMAIN tree /\ NextEdge \in DOMAIN Edges(tree, Top.node)
        /\ Top.node \in DOMAIN tree /\ Top.next \in Nat \ {0}
        /\ NextEdge \in Nat \ {0} /\ Top.next <= NextEdge
        /\ \A e \in DOMAIN Edges(tree, Top.node) : e < NextEdge => e < Top.next
        /\ \A k \in DOMAIN stack :
             /\ callers[k].node = stack[k].node
             /\ callers[k].next = IF k = L THEN NextEdge + 1 ELSE stack[k].next
    BY <2>1 DEF EdgeKeeps
  <2>3. \A k \in DOMAIN stack : stack[k].next \in Nat \ {0}
    BY FrameTypes
  <2>4. \A n \in DOMAIN tree : \A e \in DOMAIN Edges(tree, n) : e \in Nat
    BY TreeLaws DEF TypeOK
  <2>5. CASE MetBefore(callers)
    <3>1. TopEdge \in DOMAIN paths /\ stack' = callers /\ paths' = paths
      BY <2>5 DEF MetBefore
    <3>2. OnStack' = OnStack
      BY <2>2, <3>1 DEF OnStack
    <3>3. Done' = Done
      BY <3>1, <3>2 DEF Done
    <3>4. TopEdge \in Done
      <4>1. \A j \in DOMAIN stack : TopEdge # stack[j].node
        BY <2>2, NoEdgeBack DEF TopEdge
      <4> QED
        BY <3>1, <4>1 DEF Done, OnStack
    <3>5. ASSUME NEW k \in DOMAIN stack, NEW e \in DOMAIN Edges(tree, stack[k].node),
                 e < (IF k = L THEN callers[k].next ELSE callers[k].next - 1)
          PROVE  Edges(tree, stack[k].node)[e] \in Done
      <4>1. stack[k].node \in DOMAIN tree /\ e \in Nat
        BY <2>4, FrameTypes
      <4>2. CASE k = L /\ e = NextEdge
        BY <2>2, <3>4, <4>2 DEF TopEdge
      <4>3. CASE ~ (k = L /\ e = NextEdge)
        <5>1. e < (IF k = Len(stack) THEN stack[k].next ELSE stack[k].next - 1)
          <6>1. /\ stack[k].next \in Nat \ {0}
                /\ callers[k].next = IF k = L THEN NextEdge + 1 ELSE stack[k].next
            BY <2>2, <2>3
          <6>2. CASE k = L
            <7>1. e < NextEdge + 1 /\ e # NextEdge /\ Top.next = stack[k].next
              BY <2>2, <3>5, <4>3, <6>1, <6>2
            <7>2. e < NextEdge
              BY <2>2, <4>1, <7>1
            <7> QED
              BY <2>2, <6>2, <7>1, <7>2
          <6>3. CASE k # L
            BY <3>5, <6>1, <6>3
          <6> QED
            BY <6>2, <6>3
        <5> QED
          BY <5>1 DEF DoneInv
      <4> QED
        BY <4>2, <4>3
    <3> QED
      BY <2>2, <3>1, <3>3, <3>5 DEF DoneInv
  <2>6. ASSUME NEW path, MetFirst(callers, path)
        PROVE  DoneInv'
    <3>1. /\ TopEdge \notin DOMAIN paths /\ DOMAIN paths' = DOMAIN paths \cup {TopEdge}
          /\ DOMAIN stack' = 1 .. L + 1 /\ Len(stack') = L + 1
          /\ \A k \in DOMAIN stack : stack'[k] = callers[k]
          /\ stack'[L + 1].node = TopEdge /\ stack'[L + 1].next = 1
      BY <2>6 DEF MetFirst
    <3>2. OnStack' = OnStack \cup {TopEdge}
      <4>1. \A k \in DOMAIN stack' : k \in DOMAIN stack \/ k = L + 1
        BY <2>2, <3>1
      <4>2. \A k \in DOMAIN stack : stack'[k].node = stack[k].node /\ k \in DOMAIN stack'
        BY <2>2, <3>1
      <4>3. L + 1 \in DOMAIN stack'
        BY <2>2, <3>1
      <4> QED
        BY <3>1, <4>1, <4>2, <4>3 DEF OnStack
    <3>3. Done' = Done
      BY <3>1, <3>2 DEF Done
    <3>4. ASSUME NEW k \in DOMAIN stack', NEW e \in DOMAIN Edges(tree, stack'[k].node),
                 e < (IF k = L + 1 THEN stack'[k].next ELSE stack'[k].next - 1)
          PROVE  Edges(tree, stack'[k].node)[e] \in Done
      <4>1. CASE k = L + 1
        <5>3. stack'[k].node = TopEdge
          BY <3>1, <4>1
        <5>1. e \in Nat /\ e >= 1
          BY <2>2, <2>4, <5>3, TreeLaws DEF TypeOK
        <5> QED
          BY <3>1, <3>4, <4>1, <5>1
      <4>2. CASE k # L + 1
        <5>1. /\ k \in DOMAIN stack /\ stack'[k].node = stack[k].node
              /\ stack'[k].next = IF k = L THEN NextEdge + 1 ELSE stack[k].next
          BY <2>2, <3>1, <4>2
        <5>2. stack[k].node \in DOMAIN tree /\ e \in Nat
          BY <2>4, <5>1, FrameTypes
        <5>3. e < (IF k = Len(stack) THEN stack[k].next ELSE stack[k].next - 1)
          <6>1. CASE k = L
            <7>1. e < NextEdge /\ stack[k].next = Top.next /\ stack[k].node = Top.node
              BY <2>2, <3>4, <4>2, <5>1, <5>2, <6>1
            <7>2. e < Top.next
              BY <2>2, <3>4, <5>1, <7>1
            <7> QED
              BY <6>1, <7>1, <7>2
          <6>2. CASE k # L
            BY <2>3, <3>4, <4>2, <5>1, <5>2, <6>2
          <6> QED
            BY <6>1, <6>2
        <5> QED
          BY <5>1, <5>3 DEF DoneInv
      <4> QED
        BY <4>1, <4>2
    <3> QED
      BY <2>2, <3>1, <3>3, <3>4 DEF DoneInv
  <2> QED
    BY <2>1, <2>5, <2>6
<1>3. CASE WalkReturn
  <2> PICK L : L = Len(stack)
    OBVIOUS
  <2>1. /\ tree' = tree /\ paths' = paths /\ L \in DOMAIN stack /\ L \in Nat
        /\ Top = stack[L] /\ Ahead = {}
        /\ DOMAIN stack' = 1 .. L - 1 /\ Len(stack') = L - 1
        /\ \A k \in DOMAIN stack' : stack'[k] = stack[k]
        /\ DOMAIN stack = 1 .. L
    BY <1>3, ReturnStep, FrameTypes
  <2>2. OnStack' = OnStack \ {Top.node}
    <3>1. \A k \in DOMAIN stack' : stack'[k].node # Top.node /\ k \in DOMAIN stack
      BY <2>1, CallsDiffer
    <3>2. \A k \in DOMAIN stack : k \in DOMAIN stack' \/ k = L
      BY <2>1
    <3> QED
      BY <2>1, <3>1, <3>2 DEF OnStack
  <2>3. Done' = Done \cup {Top.node}
    <3>1. Top.node \in DOMAIN paths /\ Top.node \in OnStack
      BY <2>1, Passed DEF OnStack
    <3> QED
      BY <2>1, <2>2, <3>1 DEF Done
  <2>4. ASSUME NEW e \in DOMAIN Edges(tree, Top.node)
        PROVE  Edges(tree, Top.node)[e] \in Done
    <3>1. e < Top.next
      <4>1. Top.next \in Nat \ {0} /\ e \in Nat \ {0}
        BY <2>1, Passed
      <4> QED
        BY <2>1, <4>1 DEF Ahead
    <3> QED
      BY <2>1, <3>1 DEF DoneInv
  <2>5. ASSUME NEW k \in DOMAIN stack', NEW e \in DOMAIN Edges(tree, stack[k].node),
               e < (IF k = L - 1 THEN stack[k].next ELSE stack[k].next - 1)
        PROVE  Edges(tree, stack[k].node)[e] \in Done'
    <3>1. k \in DOMAIN stack /\ k # L /\ k + 1 \in DOMAIN stack /\ k \in Nat
      BY <2>1
    <3>2. /\ stack[k].next \in Nat \ {0} /\ e \in Nat
          /\ stack[k + 1].node = Edges(tree, stack[k].node)[stack[k].next - 1]
      BY <3>1, Passed
    <3>3. CASE e < stack[k].next - 1
      BY <2>1, <2>3, <3>1, <3>3 DEF DoneInv
    <3>4. CASE ~ (e < stack[k].next - 1)
      <4>1. k = L - 1 /\ e = stack[k].next - 1
        BY <2>5, <3>2, <3>4
      <4>2. k + 1 = L
        BY <2>1, <4>1
      <4> QED
        BY <2>1, <2>3, <3>2, <4>1, <4>2
    <3> QED
      BY <3>3, <3>4
  <2>6. \A n \in Done' : \A e \in DOMAIN Edges(tree, n) : Edges(tree, n)[e] \in Done'
    BY <2>3, <2>4 DEF DoneInv
  <2> QED
    BY <2>1, <2>5, <2>6 DEF DoneInv
<1>4. CASE Quiet
  BY <1>4 DEF Quiet, DoneInv, Done, OnStack
<1> QED
  BY <1>1, <1>2, <1>3, <1>4, Steps

LEMMA ReachableLaws ==
    ASSUME NEW g, NEW r \in DOMAIN g
    PROVE  /\ r \in Reachable(g, r) /\ Reachable(g, r) \subseteq DOMAIN g
           /\ \A o \in Reachable(g, r) : \A c \in Successors(g, o) :
                c \in DOMAIN g => c \in Reachable(g, r)
           /\ \A S \in SUBSET DOMAIN g :
                r \in S /\ Closed(g, S) => Reachable(g, r) \subseteq S
BY DEF Reachable, Closed

LEMMA MetStep ==
    ASSUME TypeOK, CallsInv, OwnArrays, MetInv, [Next]_vars
    PROVE  MetInv'
<1>1. CASE WalkRoot
  <2>1. Root \in Reachable(Graph(tree), Root)
    BY TreeLaws, ReachableLaws DEF TypeOK
  <2> QED
    BY <1>1, <2>1, RootStep DEF MetInv
<1>2. CASE WalkEdge
  <2>1. PICK callers : /\ EdgeKeeps(callers)
                       /\ MetBefore(callers) \/ \E path : MetFirst(callers, path)
    BY <1>2, EdgeStep
  <2>2. /\ tree' = tree /\ NextEdge \in DOMAIN Edges(tree, Top.node)
        /\ Len(stack) \in DOMAIN stack /\ Top = stack[Len(stack)]
    BY <2>1 DEF EdgeKeeps
  <2>3. Top.node \in DOMAIN paths /\ Top.node \in DOMAIN tree
    BY <2>2, Passed
  <2>4. TopEdge \in Successors(Graph(tree), Top.node) /\ TopEdge \in DOMAIN Graph(tree)
    BY <2>2, <2>3, TreeLaws DEF TypeOK, TopEdge
  <2>5. TopEdge \in Reachable(Graph(tree), Root)
    <3>1. Root \in DOMAIN Graph(tree)
      BY TreeLaws DEF TypeOK
    <3> QED
      BY <2>3, <2>4, <3>1, ReachableLaws DEF MetInv
  <2>6. DOMAIN paths' \subseteq DOMAIN paths \cup {TopEdge} /\ DOMAIN paths \subseteq DOMAIN paths'
    BY <2>1 DEF MetBefore, MetFirst
  <2> QED
    BY <2>2, <2>3, <2>5, <2>6 DEF MetInv
<1>3. CASE WalkReturn
  BY <1>3, ReturnStep DEF MetInv
<1>4. CASE Quiet
  BY <1>4 DEF Quiet, MetInv
<1> QED
  BY <1>1, <1>2, <1>3, <1>4, Steps

-----------------------------------------------------------------------------
(* First paths                                                             *)

IsPath(q) == Len(q) \in Nat /\ q = [i \in 1 .. Len(q) |-> q[i]]

(* The path leads to the node, and of all that do it is the first.         *)
LeadsFirst(t, n, path) ==
    /\ Followed(t, path) = {n}
    /\ \A other : IsPath(other) /\ Followed(t, other) = {n}
                    => other = path \/ Precedes(path, other)

PathsInv == \A n \in DOMAIN paths : LeadsFirst(tree, n, Contents(paths[n]))

(* What is read through a slice.                                           *)
Reading(slice, mem) ==
    IF slice.len = 0 THEN <<>> ELSE SubSeq(mem[slice.array], 1, slice.len)

ReadsAs(c, slice, mem) ==
    /\ IsPath(c) /\ Len(c) = slice.len /\ slice.len \in Nat
    /\ \A i \in 1 .. slice.len : c[i] = mem[slice.array][i]

LEMMA ContentsAre ==
    ASSUME NEW mem \in Memories, NEW slice, Holds(slice, mem)
    PROVE  ReadsAs(Reading(slice, mem), slice, mem)
<1> PICK c : c = Reading(slice, mem)
  OBVIOUS
<1> PICK a, n : a = slice.array /\ n = slice.len
  OBVIOUS
<1>0. a \in Nat /\ n \in Nat
  BY DEF Holds, Slices
<1>1. CASE n = 0
  BY <1>1 DEF IsPath, Reading, ReadsAs
<1>2. CASE n # 0
  <2>1. a \in DOMAIN mem /\ n <= Len(mem[a]) /\ mem[a] \in Seq(Nat)
    BY <1>2 DEF Holds, Memories
  <2>2. c = SubSeq(mem[a], 1, n)
    BY <1>2 DEF Reading
  <2>3. c \in Seq(Nat) /\ Len(c) = n /\ \A i \in 1 .. n : c[i] = mem[a][i]
    BY <1>0, <2>1, <2>2
  <2>4. c = [i \in 1 .. Len(c) |-> c[i]]
    BY <2>3
  <2> QED
    BY <1>0, <2>3, <2>4 DEF IsPath, ReadsAs
<1> QED
  BY <1>1, <1>2

(* A walk stays in the tree.                                               *)
LEMMA WalkTyped ==
    ASSUME NEW t \in Trees, NEW path, NEW k \in Nat, NEW w, Walk(t, path, k, w)
    PROVE  \A i \in 0 .. k : w[i] \in DOMAIN t
<1> DEFINE S == { i \in Nat : i <= k => w[i] \in DOMAIN t }
<1>1. 0 \in S
  BY TreeLaws DEF Walk
<1>2. ASSUME NEW i \in Nat, i \in S PROVE i + 1 \in S
  <2> SUFFICES ASSUME i + 1 <= k PROVE w[i + 1] \in DOMAIN t
    OBVIOUS
  <2>1. i + 1 \in 1 .. k /\ (i + 1) - 1 = i /\ w[i] \in DOMAIN t
    BY <1>2
  <2>2. path[i + 1] \in DOMAIN Edges(t, w[i]) /\ w[i + 1] = Edges(t, w[i])[path[i + 1]]
    BY <2>1 DEF Walk
  <2> QED
    BY <2>1, <2>2, TreeLaws
<1> HIDE DEF S
<1>3. Nat \subseteq S
  BY <1>1, <1>2, Climb
<1> QED
  BY <1>3 DEF S

(* No walk comes back to where it has been.                                *)
LEMMA NoWayBack ==
    ASSUME NEW t \in Trees, NEW path, NEW k \in Nat, NEW w, Walk(t, path, k, w),
           NEW i \in 0 .. k, i # k
    PROVE  w[i] # w[k]
<1> SUFFICES ASSUME w[i] = w[k] PROVE FALSE
  OBVIOUS
<1> PICK S : S = { w[m] : m \in i .. k - 1 }
  OBVIOUS
<1>1. i \in Nat /\ i <= k - 1 /\ \A m \in i .. k - 1 : m \in 0 .. k /\ m + 1 \in 1 .. k
  OBVIOUS
<1>2. S \subseteq DOMAIN t /\ S # {}
  BY <1>1, WalkTyped
<1>3. ASSUME NEW m \in i .. k - 1
      PROVE  Successors(Graph(t), w[m]) \cap S # {}
  <2>1. /\ path[m + 1] \in DOMAIN Edges(t, w[m])
        /\ w[m + 1] = Edges(t, w[m])[path[m + 1]]
    <3>1. m + 1 \in 1 .. k /\ (m + 1) - 1 = m
      BY <1>1
    <3> QED
      BY <3>1 DEF Walk
  <2>2. w[m] \in DOMAIN t
    BY <1>1, WalkTyped
  <2>3. w[m + 1] \in Successors(Graph(t), w[m])
    BY <2>1, <2>2, TreeLaws
  <2>4. w[m + 1] \in S
    <3>1. CASE m = k - 1
      <4>1. m + 1 = k /\ i \in i .. k - 1
        BY <1>1, <3>1
      <4> QED
        BY <4>1
    <3>2. CASE m # k - 1
      <4>1. m + 1 \in i .. k - 1
        BY <1>1, <3>2
      <4> QED
        BY <4>1
    <3> QED
      BY <3>1, <3>2
  <2> QED
    BY <2>3, <2>4
<1>4. Sinkless(Graph(t), S)
  BY <1>3 DEF Sinkless
<1> QED
  BY <1>2, <1>4, TreeLaws DEF Acyclic

(* Below a node that is done, all are done.                                *)
LEMMA StaysDone ==
    ASSUME DoneInv, NEW path, NEW k \in Nat, NEW w, Walk(tree, path, k, w),
           NEW i \in 0 .. k, w[i] \in Done
    PROVE  w[k] \in Done
<1> PICK D : D = Done
  OBVIOUS
<1>0. \A n \in D : \A e \in DOMAIN Edges(tree, n) : Edges(tree, n)[e] \in D
  BY DEF DoneInv
<1> DEFINE S == { j \in Nat : i <= j /\ j <= k => w[j] \in D }
<1>1. 0 \in S
  OBVIOUS
<1>2. ASSUME NEW j \in Nat, j \in S PROVE j + 1 \in S
  <2> SUFFICES ASSUME i <= j + 1, j + 1 <= k PROVE w[j + 1] \in D
    OBVIOUS
  <2>1. CASE i = j + 1
    BY <2>1
  <2>2. CASE i # j + 1
    <3>1. j + 1 \in 1 .. k /\ (j + 1) - 1 = j /\ w[j] \in D
      BY <1>2, <2>2
    <3> QED
      BY <1>0, <3>1 DEF Walk
  <2> QED
    BY <2>1, <2>2
<1> HIDE DEF S
<1>3. k \in S
  BY <1>1, <1>2, Climb
<1> QED
  BY <1>3 DEF S

(* The path that an edge to a new node makes.                              *)
EdgePath(p) ==
    /\ IsPath(p) /\ Len(p) = Len(stack)
    /\ \A i \in 1 .. Len(stack) - 1 : p[i] = stack[i].next - 1
    /\ p[Len(stack)] = NextEdge

LEMMA NewPath ==
    ASSUME TypeOK, CallsInv, DoneInv, stack # <<>>,
           Ahead # {}, TopEdge \notin DOMAIN paths,
           NEW p, EdgePath(p)
    PROVE  LeadsFirst(tree, TopEdge, p)
<1> PICK L, c : L = Len(stack) /\ c = TopEdge
  OBVIOUS
<1>1. /\ L \in DOMAIN stack /\ L \in Nat /\ L # 0 /\ DOMAIN stack = 1 .. L
      /\ Top = stack[L]
      /\ NextEdge \in DOMAIN Edges(tree, Top.node) /\ NextEdge \in Nat
      /\ \A e \in DOMAIN Edges(tree, Top.node) : e < NextEdge => e < Top.next
  <2>1. L \in DOMAIN stack /\ L \in Nat /\ L # 0 /\ DOMAIN stack = 1 .. L
    BY FrameTypes
  <2> QED
    BY <2>1, NextEdgeIs DEF Top
<1>2. PICK w : w = [i \in 0 .. L |-> IF i = L THEN c ELSE stack[i + 1].node]
  OBVIOUS
<1>3. /\ w[L] = c /\ \A i \in 1 .. L : w[i - 1] = stack[i].node
      /\ \A i \in 1 .. L - 1 : w[i] = stack[i + 1].node
  <2>1. w[L] = c
    BY <1>1, <1>2
  <2>2. ASSUME NEW i \in 1 .. L PROVE w[i - 1] = stack[i].node
    <3>1. i - 1 \in 0 .. L /\ i - 1 # L /\ (i - 1) + 1 = i
      BY <1>1
    <3> QED
      BY <1>2, <3>1
  <2>3. ASSUME NEW i \in 1 .. L - 1 PROVE w[i] = stack[i + 1].node
    <3>1. i \in 0 .. L /\ i # L
      BY <1>1
    <3> QED
      BY <1>2, <3>1
  <2> QED
    BY <2>1, <2>2, <2>3
<1>4. Len(p) = L /\ IsPath(p) /\ p[L] = NextEdge
      /\ \A i \in 1 .. L - 1 : p[i] = stack[i].next - 1
  BY DEF EdgePath
<1>5. Walk(tree, p, L, w)
  <2>1. w[0] = Root
    <3>1. stack[1].node = Root /\ 1 \in 1 .. L /\ 1 - 1 = 0
      BY <1>1 DEF CallsInv, CallOK
    <3> QED
      BY <1>3, <3>1
  <2>2. ASSUME NEW i \in 1 .. L
        PROVE  /\ p[i] \in DOMAIN Edges(tree, w[i - 1])
               /\ w[i] = Edges(tree, w[i - 1])[p[i]]
    <3>1. CASE i = L
      BY <1>1, <1>3, <1>4, <3>1 DEF TopEdge
    <3>2. CASE i # L
      <4>1. i \in DOMAIN stack /\ i + 1 \in DOMAIN stack /\ i \in 1 .. L - 1
        BY <1>1, <3>2
      <4>2. /\ stack[i].next - 1 \in DOMAIN Edges(tree, stack[i].node)
            /\ stack[i + 1].node = Edges(tree, stack[i].node)[stack[i].next - 1]
        BY <4>1, Passed
      <4> QED
        BY <1>3, <1>4, <4>1, <4>2
    <3> QED
      BY <3>1, <3>2
  <2> QED
    BY <2>1, <2>2 DEF Walk
<1>6. Followed(tree, p) = {c}
  BY <1>1, <1>3, <1>4, <1>5, FollowedOne
<1>7. tree \in Trees /\ Done \subseteq DOMAIN paths
  BY DEF TypeOK, Done
<1>8. ASSUME NEW q, IsPath(q), Followed(tree, q) = {c}, q # p
      PROVE  Precedes(p, q)
  <2> PICK K : K = Len(q)
    OBVIOUS
  <2>1. K \in Nat /\ q = [i \in 1 .. K |-> q[i]] /\ p = [i \in 1 .. L |-> p[i]]
    BY <1>4, <1>8 DEF IsPath
  <2>2. PICK v : Walk(tree, q, K, v) /\ v[K] = c
    <3>1. K \in Nat /\ c \in Followed(tree, q)
      BY <1>8, <2>1
    <3> QED
      BY <3>1, FollowedIs
  <2>3. c \notin DOMAIN paths
    OBVIOUS
  <2> PICK D : D = { i \in Nat : i \in 1 .. K /\ i \in 1 .. L /\ p[i] # q[i] }
    OBVIOUS
  <2>4. CASE D # {}
    <3>1. PICK i \in D : \A m \in D : i <= m
      BY <2>4, Least
    <3>2. /\ i \in Nat /\ i \in 1 .. K /\ i \in 1 .. L /\ p[i] # q[i] /\ i - 1 \in Nat
          /\ \A j \in 1 .. i - 1 : p[j] = q[j]
      <4>1. i \in Nat /\ i \in 1 .. K /\ i \in 1 .. L /\ p[i] # q[i] /\ i - 1 \in Nat
        OBVIOUS
      <4>2. ASSUME NEW j \in 1 .. i - 1 PROVE p[j] = q[j]
        <5>1. j \in Nat /\ j \in 1 .. K /\ j \in 1 .. L /\ ~ (i <= j)
          BY <1>1, <2>1, <4>1
        <5> QED
          BY <3>1, <5>1
      <4> QED
        BY <4>1, <4>2
    <3>3. v[i - 1] = stack[i].node
      <4>1. Walk(tree, p, i - 1, w) /\ Walk(tree, q, i - 1, v)
        <5>1. \A j \in 1 .. i - 1 : j \in 1 .. K /\ j \in 1 .. L
          BY <1>1, <2>1, <3>2
        <5> QED
          BY <1>5, <2>2, <5>1 DEF Walk
      <4>2. w[i - 1] = v[i - 1]
        BY <3>2, <4>1, WalksAgree
      <4> QED
        BY <1>3, <3>2, <4>2
    <3>4. /\ q[i] \in DOMAIN Edges(tree, stack[i].node)
          /\ v[i] = Edges(tree, stack[i].node)[q[i]]
      BY <2>2, <3>2, <3>3 DEF Walk
    <3>5. i \in DOMAIN stack /\ stack[i].next \in Nat \ {0}
          /\ stack[i].node \in DOMAIN tree
      BY <1>1, <3>2, FrameTypes
    <3>6. q[i] \in Nat
      BY <1>7, <3>4, <3>5, TreeLaws
    <3>7. p[i] = IF i = L THEN NextEdge ELSE stack[i].next - 1
      <4>1. CASE i = L
        BY <1>1, <1>4, <4>1
      <4>2. CASE i # L
        <5>1. i \in 1 .. L - 1
          BY <1>1, <3>2, <4>2
        <5> QED
          BY <1>4, <4>2, <5>1
      <4> QED
        BY <4>1, <4>2
    <3>8. p[i] \in Int
      BY <1>1, <3>5, <3>7
    <3>9. ~ (q[i] < p[i])
      <4> SUFFICES ASSUME q[i] < p[i] PROVE FALSE
        OBVIOUS
      <4>1. v[i] \in Done
        <5>1. q[i] < (IF i = Len(stack) THEN stack[i].next ELSE stack[i].next - 1)
          BY <1>1, <3>4, <3>7
        <5> QED
          BY <3>4, <3>5, <5>1 DEF DoneInv
      <4>2. i \in 0 .. K
        BY <2>1, <3>2
      <4>3. v[K] \in Done
        BY <2>1, <2>2, <4>1, <4>2, StaysDone
      <4> QED
        BY <1>7, <2>2, <2>3, <4>3
    <3>10. p[i] < q[i]
      BY <3>2, <3>6, <3>8, <3>9
    <3>11. i \in DOMAIN p \cap DOMAIN q
      BY <2>1, <3>2
    <3> QED
      BY <3>2, <3>10, <3>11 DEF Precedes
  <2>5. CASE D = {}
    <3>1. \A i \in 1 .. K : i \in 1 .. L => p[i] = q[i]
      BY <2>5
    <3>2. CASE K = L
      BY <1>8, <2>1, <3>1, <3>2
    <3>3. CASE K < L
      <4>1. Walk(tree, p, K, w) /\ \A i \in 1 .. K : p[i] = q[i]
        <5>1. \A i \in 1 .. K : i \in 1 .. L
          BY <1>1, <2>1, <3>3
        <5> QED
          BY <1>5, <3>1, <5>1 DEF Walk
      <4>2. w[K] = v[K]
        <5>1. K \in Nat /\ K \in 0 .. K
          BY <2>1
        <5>2. \A i \in 0 .. K : w[i] = v[i]
          BY <2>2, <4>1, <5>1, WalksAgree
        <5> QED
          BY <5>1, <5>2
      <4>3. K + 1 \in DOMAIN stack /\ K + 1 \in 1 .. L /\ (K + 1) - 1 = K
        BY <1>1, <2>1, <3>3
      <4>4. w[K] = stack[K + 1].node /\ stack[K + 1].node \in DOMAIN paths
        BY <1>3, <4>3, Passed
      <4> QED
        BY <2>2, <2>3, <4>2, <4>4
    <3>4. CASE L < K
      <4>1. Walk(tree, q, L, v) /\ \A i \in 1 .. L : p[i] = q[i]
        <5>1. \A i \in 1 .. L : i \in 1 .. K
          BY <1>1, <2>1, <3>4
        <5> QED
          BY <2>2, <3>1, <5>1 DEF Walk
      <4>2. w[L] = v[L]
        BY <1>1, <1>5, <4>1, WalksAgree
      <4>3. L \in 0 .. K /\ L # K
        BY <1>1, <2>1, <3>4
      <4>4. v[L] # v[K]
        <5>1. K \in Nat
          BY <2>1
        <5> QED
          BY <1>7, <2>2, <4>3, <5>1, NoWayBack
      <4> QED
        BY <1>3, <2>2, <4>2, <4>4
    <3> QED
      BY <1>1, <2>1, <3>2, <3>3, <3>4
  <2> QED
    BY <2>4, <2>5
<1> QED
  BY <1>6, <1>8 DEF LeadsFirst

(* The root is where the empty path leads, and no other.                   *)
LEMMA RootPath ==
    ASSUME NEW t \in Trees
    PROVE  LeadsFirst(t, Root, <<>>)
<1>1. Followed(t, <<>>) = {Root}
  <2>1. PICK w : w = [i \in {0} |-> Root]
    OBVIOUS
  <2>2. Walk(t, <<>>, 0, w) /\ w[0] = Root /\ Len(<<>>) = 0
    BY <2>1 DEF Walk
  <2> QED
    BY <2>2, FollowedOne
<1>2. ASSUME NEW q, IsPath(q), Followed(t, q) = {Root} PROVE q = <<>>
  <2> PICK K : K = Len(q)
    OBVIOUS
  <2>1. K \in Nat /\ q = [i \in 1 .. K |-> q[i]]
    BY <1>2 DEF IsPath
  <2>5. K \in Nat
    BY <2>1
  <2>6. Root \in Followed(t, q)
    BY <1>2
  <2>2. PICK v : Walk(t, q, K, v) /\ v[K] = Root
    BY <2>5, <2>6, FollowedIs
  <2>3. v[0] = v[K]
    BY <2>2 DEF Walk
  <2>4. K = 0
    <3>1. 0 \in 0 .. K
      BY <2>5
    <3> QED
      BY <2>2, <2>3, <2>5, <3>1, NoWayBack
  <2> QED
    BY <2>1, <2>4
<1> QED
  BY <1>1, <1>2 DEF LeadsFirst

LEMMA PathsStep ==
    ASSUME TypeOK, CallsInv, OwnArrays, DoneInv, PathsInv, [Next]_vars
    PROVE  PathsInv'
<1>1. CASE WalkRoot
  <2>1. /\ tree' = tree /\ DOMAIN paths' = {Root} /\ paths'[Root] = NilSlice
    BY <1>1, RootStep
  <2>2. Contents(paths[Root])' = <<>>
    BY <2>1 DEF Contents, NilSlice
  <2>3. LeadsFirst(tree, Root, <<>>)
    BY RootPath DEF TypeOK
  <2> QED
    BY <2>1, <2>2, <2>3 DEF PathsInv
<1>2. CASE WalkEdge
  <2>1. PICK callers : /\ EdgeKeeps(callers)
                       /\ MetBefore(callers) \/ \E path : MetFirst(callers, path)
    BY <1>2, EdgeStep
  <2>2. tree' = tree /\ memory' \in Memories /\ memory \in Memories
    BY <2>1 DEF EdgeKeeps, TypeOK
  <2>3. ASSUME NEW n \in DOMAIN paths
        PROVE  n \in DOMAIN paths' /\ LeadsFirst(tree, n, Contents(paths[n])')
    <3> PICK slice, old, new : /\ slice = paths[n] /\ old = Contents(paths[n])
                               /\ new = Contents(paths[n])'
      OBVIOUS
    <3>1. /\ n \in DOMAIN paths' /\ paths'[n] = slice
          /\ Holds(slice, memory') /\ Holds(slice, memory)
          /\ \A i \in 1 .. slice.len : memory'[slice.array][i] = memory[slice.array][i]
      BY <2>1 DEF EdgeKeeps, TypeOK
    <3>2. /\ IsPath(old) /\ Len(old) = slice.len
          /\ \A i \in 1 .. slice.len : old[i] = memory[slice.array][i]
      <4>1. old = Reading(slice, memory)
        BY <3>1 DEF Contents, Reading
      <4>2. ReadsAs(old, slice, memory)
        BY <2>2, <3>1, <4>1, ContentsAre
      <4> QED
        BY <4>2 DEF ReadsAs
    <3>3. /\ IsPath(new) /\ Len(new) = slice.len
          /\ \A i \in 1 .. slice.len : new[i] = memory'[slice.array][i]
      <4>1. new = Reading(slice, memory')
        BY <3>1 DEF Contents, Reading
      <4>2. ReadsAs(new, slice, memory')
        BY <2>2, <3>1, <4>1, ContentsAre
      <4> QED
        BY <4>2 DEF ReadsAs
    <3>4. new = old
      BY <3>1, <3>2, <3>3 DEF IsPath
    <3> QED
      BY <3>1, <3>4 DEF PathsInv
  <2>4. CASE MetBefore(callers)
    BY <2>2, <2>3, <2>4 DEF MetBefore, PathsInv
  <2>5. ASSUME NEW path, MetFirst(callers, path) PROVE PathsInv'
    <3> PICK c, slice, new : /\ c = TopEdge /\ slice = paths'[c]
                             /\ new = Contents(paths[c])'
      OBVIOUS
    <3>1. /\ c \notin DOMAIN paths /\ DOMAIN paths' = DOMAIN paths \cup {c}
          /\ Holds(slice, memory') /\ slice.len = Len(stack)
          /\ \A i \in 1 .. Len(stack) - 1 : memory'[slice.array][i] = stack[i].next - 1
          /\ memory'[slice.array][Len(stack)] = NextEdge
      BY <2>5 DEF MetFirst
    <3>2. /\ IsPath(new) /\ Len(new) = slice.len
          /\ \A i \in 1 .. slice.len : new[i] = memory'[slice.array][i]
      <4>1. new = Reading(slice, memory')
        BY <3>1 DEF Contents, Reading
      <4>2. ReadsAs(new, slice, memory')
        BY <2>2, <3>1, <4>1, ContentsAre
      <4> QED
        BY <4>2 DEF ReadsAs
    <3>3. Len(stack) \in DOMAIN stack /\ Len(stack) \in Nat /\ DOMAIN stack = 1 .. Len(stack)
          /\ Ahead # {}
      BY <1>2, <2>1 DEF EdgeKeeps, WalkEdge
    <3>4. EdgePath(new)
      <4> PICK L : L = Len(stack)
        OBVIOUS
      <4>1. L \in 1 .. L /\ \A i \in 1 .. L - 1 : i \in 1 .. L
        BY <3>3
      <4> QED
        BY <3>1, <3>2, <4>1 DEF EdgePath
    <3>5. stack # <<>>
      BY <3>3
    <3>6. LeadsFirst(tree, c, new)
      BY <3>1, <3>3, <3>4, <3>5, NewPath
    <3> QED
      BY <2>2, <2>3, <3>1, <3>6 DEF PathsInv
  <2> QED
    BY <2>1, <2>4, <2>5
<1>3. CASE WalkReturn
  BY <1>3, ReturnStep DEF PathsInv, Contents
<1>4. CASE Quiet
  BY <1>4 DEF Quiet, PathsInv, Contents
<1> QED
  BY <1>1, <1>2, <1>3, <1>4, Steps

(* No path is recorded until the root is met.                              *)
LEMMA WalkInit ==
    ASSUME Init
    PROVE  TypeOK /\ CallsInv /\ OwnArrays /\ DoneInv /\ MetInv /\ PathsInv
<1>1. /\ tree \in Trees /\ memory = <<>> /\ DOMAIN paths = {} /\ stack = <<>>
      /\ DOMAIN stack = {} /\ stack \in Seq(Frames)
  BY DEF Init
<1> QED
  BY <1>1 DEF TypeOK, CallsInv, OwnArrays, DoneInv, MetInv, PathsInv, Memories, Done, OnStack

WalkInv == TypeOK /\ CallsInv /\ OwnArrays /\ DoneInv /\ MetInv /\ PathsInv

LEMMA WalkStep == WalkInv /\ [Next]_vars => WalkInv'
  BY TypeStep, CallsStep, OwnStep, DoneStep, MetStep, PathsStep DEF WalkInv

(* Every node that was met has a path recorded that leads to it and comes  *)
(* before all others that do, also after its siblings have appended to the *)
(* arrays that its path went through.                                      *)
THEOREM PathsAreFirst == Spec => []FirstPathsRecorded
<1>1. Init => WalkInv
  BY WalkInit DEF WalkInv
<1>2. WalkInv => FirstPathsRecorded
  <2> SUFFICES ASSUME WalkInv, NEW other \in Paths
               PROVE  /\ IsPath(other)
                      /\ \A n \in Followed(tree, other) : Followed(tree, other) = {n}
    BY DEF WalkInv, PathsInv, LeadsFirst, FirstPathsRecorded
  <2>1. PICK k \in 0 .. Cardinality(DOMAIN tree) - 1 : \E S : other \in [1 .. k -> S]
    BY DEF Paths
  <2>2. k \in Nat
    <3>1. Cardinality(DOMAIN tree) \in Nat
      BY FS_CardinalityType, TreesAssumption DEF WalkInv, TypeOK
    <3> QED
      BY <3>1
  <2>3. DOMAIN other = 1 .. k /\ other = [i \in 1 .. k |-> other[i]]
    BY <2>1
  <2>4. Len(other) = k
    BY <2>2, <2>3
  <2>5. ASSUME NEW n \in Followed(tree, other)
        PROVE  Followed(tree, other) = {n}
    <3>1. Len(other) \in Nat
      BY <2>2, <2>4
    <3>2. PICK w : Walk(tree, other, Len(other), w) /\ w[Len(other)] = n
      BY <3>1, FollowedIs
    <3> QED
      BY <3>1, <3>2, FollowedOne
  <2> QED
    BY <2>2, <2>3, <2>4, <2>5 DEF IsPath
<1> QED
  BY <1>1, WalkStep, <1>2, PTL DEF Spec

-----------------------------------------------------------------------------
(* The second tree                                                         *)

(* A walk through the first tree is one through the second if the nodes it *)
(* comes through have the same edges there.                                *)
LEMMA SameWalk ==
    ASSUME NEW t, NEW r, NEW path, NEW k \in Nat, NEW w, Walk(t, path, k, w),
           \A i \in 0 .. k - 1 : Edges(r, w[i]) = Edges(t, w[i])
    PROVE  Walk(r, path, k, w)
<1>1. ASSUME NEW i \in 1 .. k
      PROVE  /\ path[i] \in DOMAIN Edges(r, w[i - 1])
             /\ w[i] = Edges(r, w[i - 1])[path[i]]
  <2>1. i - 1 \in 0 .. k - 1
    OBVIOUS
  <2>2. Edges(r, w[i - 1]) = Edges(t, w[i - 1])
    BY <2>1
  <2> QED
    BY <2>2 DEF Walk
<1> QED
  BY <1>1 DEF Walk

(* A walk meets what can be reached.                                       *)
LEMMA WalkMeets ==
    ASSUME NEW t \in Trees, NEW path, NEW k \in Nat, NEW w, Walk(t, path, k, w)
    PROVE  \A i \in 0 .. k : w[i] \in Reachable(Graph(t), Root)
<1> PICK met : met = Reachable(Graph(t), Root)
  OBVIOUS
<1>0. /\ Root \in met /\ met \subseteq DOMAIN t
      /\ \A n \in met : \A e \in DOMAIN Edges(t, n) : Edges(t, n)[e] \in met
  <2>1. /\ Root \in DOMAIN Graph(t) /\ DOMAIN Graph(t) = DOMAIN t
    BY TreeLaws
  <2>2. /\ Root \in met /\ met \subseteq DOMAIN t
        /\ \A o \in met : \A c \in Successors(Graph(t), o) : c \in DOMAIN t => c \in met
    BY <2>1, ReachableLaws
  <2> QED
    BY <2>2, TreeLaws
<1> DEFINE S == { i \in Nat : i <= k => w[i] \in met }
<1>1. 0 \in S
  BY <1>0 DEF Walk
<1>2. ASSUME NEW i \in Nat, i \in S PROVE i + 1 \in S
  <2> SUFFICES ASSUME i + 1 <= k PROVE w[i + 1] \in met
    OBVIOUS
  <2>1. i + 1 \in 1 .. k /\ (i + 1) - 1 = i /\ w[i] \in met
    BY <1>2
  <2> QED
    BY <1>0, <2>1 DEF Walk
<1> HIDE DEF S
<1>3. Nat \subseteq S
  BY <1>1, <1>2, Climb
<1> QED
  BY <1>3 DEF S

-----------------------------------------------------------------------------
(* The join                                                                *)

Found(id) == { n \in Followed(reparsed, Contents(paths[id])) :
                 reparsed[n].kind = tree[id].kind }

(* Every ID that the loop has behind it was found, and its entry made.     *)
Joined ==
    /\ Outputs(tree) # {} /\ todo \subseteq DOMAIN tree
    /\ \A id \in DOMAIN paths \ todo : Found(id) # {}
    /\ \A x : x \in entries <=>
                \E id \in DOMAIN paths \ todo : \E n \in Found(id) :
                  HasRange(n) /\ x = [node |-> id, range |-> n]

JoinInv ==
    /\ paths # <<>> => Root \in DOMAIN paths
    /\ phase \in {"walk", "join", "mapped", "error"}
    /\ phase = "walk" => entries = {}
    /\ phase # "walk" => stack = <<>> /\ paths # <<>>
    /\ phase \in {"join", "mapped"} => Joined
    /\ phase = "mapped" => todo = {}
    /\ phase = "error" /\ Outputs(tree) # {} => \E id \in DOMAIN paths : Found(id) = {}

LEMMA JoinStep ==
    ASSUME WalkInv, JoinInv, [Next]_vars
    PROVE  JoinInv'
<1>0. TypeOK /\ CallsInv /\ OwnArrays
  BY DEF WalkInv
<1>1. CASE WalkRoot
  <2>1. /\ phase = "walk" /\ phase' = phase /\ entries' = entries
        /\ Root \in DOMAIN paths'
    BY <1>0, <1>1, RootStep DEF WalkRoot
  <2> QED
    BY <2>1 DEF JoinInv
<1>2. CASE WalkEdge
  <2>1. /\ phase = "walk" /\ phase' = phase /\ entries' = entries /\ stack # <<>>
    BY <1>2 DEF WalkEdge
  <2>2. PICK callers : EdgeKeeps(callers)
    BY <1>0, <1>2, EdgeStep
  <2>3. /\ Len(stack) \in DOMAIN stack
        /\ \A n \in DOMAIN paths : n \in DOMAIN paths'
    BY <2>2 DEF EdgeKeeps
  <2>4. DOMAIN paths # {}
    BY <2>3 DEF WalkInv, CallsInv, CallOK
  <2>5. Root \in DOMAIN paths'
    BY <2>3, <2>4 DEF WalkInv, MetInv
  <2> QED
    BY <2>1, <2>5 DEF JoinInv
<1>3. CASE WalkReturn
  BY <1>3 DEF WalkReturn, JoinInv
<1>4. CASE Format
  <2>1. /\ phase = "walk" /\ paths # <<>> /\ stack = <<>> /\ entries = {}
        /\ UNCHANGED <<tree, memory, paths, stack, entries>>
    BY <1>4 DEF Format, JoinInv
  <2>4. Outputs(tree)' = Outputs(tree)
    BY <2>1
  <2>2. CASE reparsed' \in Outputs(tree) /\ todo' = DOMAIN tree /\ phase' = "join"
    <3>1. DOMAIN paths' \ todo' = {}
      BY <2>1, <2>2 DEF WalkInv, TypeOK
    <3>3. Joined'
      BY <2>1, <2>2, <2>4, <3>1 DEF Joined
    <3> QED
      BY <2>1, <2>2, <3>3 DEF JoinInv
  <2>3. CASE Outputs(tree) = {} /\ phase' = "error"
    BY <2>1, <2>3, <2>4 DEF JoinInv
  <2> QED
    BY <1>4, <2>2, <2>3 DEF Format
<1>5. CASE JoinNext
  <2>1. /\ phase = "join" /\ todo # {} /\ UNCHANGED <<tree, memory, paths, stack, reparsed>>
        /\ Joined
    BY <1>5 DEF JoinNext, JoinInv
  <2>2. PICK id \in todo : Join(id)
    <3>1. todo \in SUBSET Nat
      BY <2>1, TreeLaws DEF Joined, WalkInv, TypeOK
    <3>2. \E i \in todo : \A j \in todo : i <= j
      BY <2>1, <3>1, Least
    <3> QED
      BY <1>5, <3>2 DEF JoinNext
  <2>3. /\ \A i : Found(i)' = Found(i)
        /\ \A i : HasRange(i)' = HasRange(i)
        /\ Outputs(tree)' = Outputs(tree)
    BY <2>1 DEF Found, Contents, HasRange
  <2>4. todo' = todo \ {id} /\ todo' \subseteq DOMAIN tree
    BY <2>1, <2>2 DEF Join, Drop, Joined
  <2>5. CASE id \notin DOMAIN paths /\ entries' = entries /\ phase' = phase
    <3>1. DOMAIN paths' \ todo' = DOMAIN paths \ todo
      BY <2>1, <2>4, <2>5
    <3>2. Joined'
      BY <2>1, <2>3, <2>4, <2>5, <3>1 DEF Joined
    <3> QED
      BY <2>1, <2>5, <3>2 DEF JoinInv
  <2>6. CASE id \in DOMAIN paths /\ Found(id) = {} /\ phase' = "error"
    BY <2>1, <2>3, <2>6 DEF JoinInv, Joined
  <2>7. CASE /\ id \in DOMAIN paths /\ Found(id) # {} /\ phase' = phase
             /\ entries' = entries \cup { [node |-> id, range |-> n] :
                                          n \in { m \in Found(id) : HasRange(m) } }
    <3>1. DOMAIN paths' \ todo' = (DOMAIN paths \ todo) \cup {id}
      BY <2>1, <2>2, <2>4, <2>7
    <3>2. Joined'
      <4>1. \A i \in DOMAIN paths' \ todo' : Found(i)' # {}
        BY <2>1, <2>3, <2>7, <3>1 DEF Joined
      <4>2. ASSUME NEW x
            PROVE  x \in entries' <=>
                     \E i \in DOMAIN paths' \ todo' : \E n \in Found(i)' :
                       HasRange(n)' /\ x = [node |-> i, range |-> n]
        <5>1. x \in entries' <=> \/ x \in entries
                                 \/ \E n \in Found(id) :
                                      HasRange(n) /\ x = [node |-> id, range |-> n]
          BY <2>7
        <5>2. x \in entries <=>
                \E i \in DOMAIN paths \ todo : \E n \in Found(i) :
                  HasRange(n) /\ x = [node |-> i, range |-> n]
          BY <2>1 DEF Joined
        <5> QED
          BY <2>3, <3>1, <5>1, <5>2
      <4> QED
        BY <2>1, <2>3, <2>4, <4>1, <4>2 DEF Joined
    <3> QED
      BY <2>1, <2>7, <3>2 DEF JoinInv
  <2> QED
    BY <2>2, <2>5, <2>6, <2>7 DEF Join, Found
<1>6. CASE Finish
  <2>1. /\ phase = "join" /\ todo = {} /\ phase' = "mapped"
        /\ UNCHANGED <<tree, memory, paths, stack, reparsed, todo, entries>>
    BY <1>6 DEF Finish
  <2>2. Joined'
    BY <2>1 DEF JoinInv, Joined, Found, Contents, HasRange
  <2> QED
    BY <2>1, <2>2 DEF JoinInv
<1>7. CASE UNCHANGED vars
  BY <1>7 DEF vars, JoinInv, Joined, Found, Contents, HasRange
<1> QED
  BY <1>1, <1>2, <1>3, <1>4, <1>5, <1>6, <1>7 DEF Next

IInv == WalkInv /\ JoinInv

LEMMA Invariant == Spec => []IInv
<1>1. Init => IInv
  BY WalkInit DEF IInv, WalkInv, JoinInv, Init
<1>2. IInv /\ [Next]_vars => IInv'
  BY WalkStep, JoinStep DEF IInv
<1> QED
  BY <1>1, <1>2, PTL DEF Spec

(* After the walk, the nodes with a path are those the root reaches.       *)
LEMMA AllMet ==
    ASSUME IInv, phase # "walk"
    PROVE  DOMAIN paths = Met
<1>1. /\ stack = <<>> /\ Root \in DOMAIN paths /\ DOMAIN paths \subseteq DOMAIN tree
      /\ DOMAIN paths \subseteq Reachable(Graph(tree), Root) /\ tree \in Trees
  BY DEF IInv, WalkInv, JoinInv, MetInv, TypeOK
<1>2. Done = DOMAIN paths
  BY <1>1 DEF Done, OnStack
<1>3. Closed(Graph(tree), DOMAIN paths)
  <2>1. \A n \in DOMAIN paths : \A e \in DOMAIN Edges(tree, n) : Edges(tree, n)[e] \in DOMAIN paths
    BY <1>2 DEF IInv, WalkInv, DoneInv
  <2> QED
    BY <1>1, <2>1, TreeLaws DEF Closed
<1> QED
  BY <1>1, <1>3, TreeLaws, ReachableLaws DEF Met

(* The path of a node that was met.                                        *)
LEMMA PathOf ==
    ASSUME IInv, NEW id \in DOMAIN paths
    PROVE  IsPath(Contents(paths[id])) /\ Followed(tree, Contents(paths[id])) = {id}
<1>1. memory \in Memories /\ Holds(paths[id], memory)
  BY DEF IInv, WalkInv, TypeOK
<1>2. Contents(paths[id]) = Reading(paths[id], memory)
  BY DEF Contents, Reading
<1>3. IsPath(Contents(paths[id]))
  BY <1>1, <1>2, ContentsAre DEF ReadsAs
<1> QED
  BY <1>3 DEF IInv, WalkInv, PathsInv, LeadsFirst

(* It is one of those that the properties range over: no path of a tree    *)
(* comes twice to a node.                                                  *)
LEMMA RecordedInPaths ==
    ASSUME IInv, NEW id \in DOMAIN paths
    PROVE  Contents(paths[id]) \in Paths
<1> PICK p, k : p = Contents(paths[id]) /\ k = Len(p)
  OBVIOUS
<1>1. tree \in Trees /\ k \in Nat /\ p = [i \in 1 .. k |-> p[i]] /\ Followed(tree, p) = {id}
  BY PathOf DEF IInv, WalkInv, TypeOK, IsPath
<1>2. PICK v : Walk(tree, p, k, v)
  BY <1>1, FollowedIs
<1>3. \A i \in 0 .. k : v[i] \in DOMAIN tree
  BY <1>1, <1>2, WalkTyped
<1>4. IsFiniteSet(DOMAIN tree)
  BY <1>1, TreesAssumption
<1>5. ASSUME NEW i \in 0 .. k, NEW j \in 0 .. k, i < j PROVE v[i] # v[j]
  <2>1. j \in Nat /\ i \in 0 .. j /\ i # j /\ \A m \in 1 .. j : m \in 1 .. k
    BY <1>1, <1>5
  <2>2. Walk(tree, p, j, v) /\ tree \in Trees
    BY <1>1, <1>2, <2>1 DEF Walk
  <2> QED
    BY <2>1, <2>2, NoWayBack
<1> PICK f : f = [i \in 0 .. k |-> v[i]]
  OBVIOUS
<1>6. f \in Injection(0 .. k, DOMAIN tree)
  <2>1. f \in [0 .. k -> DOMAIN tree]
    BY <1>3
  <2>2. ASSUME NEW i \in 0 .. k, NEW j \in 0 .. k, f[i] = f[j] PROVE i = j
    <3>1. ~ (i < j) /\ ~ (j < i)
      BY <1>5, <2>2
    <3> QED
      BY <1>1, <3>1
  <2> QED
    BY <2>1, <2>2 DEF Injection, IsInjective
<1>7. Cardinality(0 .. k) <= Cardinality(DOMAIN tree)
  BY <1>4, <1>6, FS_Injection
<1>8. Cardinality(0 .. k) = k + 1
  <2>1. 0 \in Int /\ k \in Int /\ ~ (0 > k)
    BY <1>1
  <2>2. Cardinality(0 .. k) = IF 0 > k THEN 0 ELSE k - 0 + 1
    BY <2>1, FS_Interval
  <2> QED
    BY <2>1, <2>2
<1>9. k \in 0 .. Cardinality(DOMAIN tree) - 1
  <2>1. Cardinality(DOMAIN tree) \in Nat
    BY <1>4, FS_CardinalityType
  <2> QED
    BY <1>1, <1>7, <1>8, <2>1
<1> PICK steps : steps = UNION { DOMAIN Edges(tree, n) : n \in DOMAIN tree }
  OBVIOUS
<1>10. ASSUME NEW i \in 1 .. k PROVE p[i] \in steps
  <2>1. i - 1 \in 0 .. k
    BY <1>1
  <2>2. p[i] \in DOMAIN Edges(tree, v[i - 1]) /\ v[i - 1] \in DOMAIN tree
    BY <1>2, <1>3, <2>1 DEF Walk
  <2> QED
    BY <2>2
<1>11. p \in [1 .. k -> steps]
  BY <1>1, <1>10
<1> QED
  BY <1>9, <1>11 DEF Paths

(* Of two different paths at most one precedes the other.                  *)
LEMMA PrecedesOne ==
    ASSUME tree \in Trees, NEW p \in Paths, NEW q \in Paths, Precedes(p, q)
    PROVE  ~ Precedes(q, p)
<1> SUFFICES ASSUME Precedes(q, p) PROVE FALSE
  OBVIOUS
<1> PICK steps : steps = UNION { DOMAIN Edges(tree, n) : n \in DOMAIN tree }
  OBVIOUS
<1>1. \A e \in steps : e \in Nat
  BY TreeLaws
<1>2. Cardinality(DOMAIN tree) \in Nat
  BY FS_CardinalityType, TreesAssumption
<1>3. ASSUME NEW r \in Paths
      PROVE  \A i \in DOMAIN r : i \in Nat \ {0} /\ r[i] \in Nat
  <2>1. PICK k \in 0 .. Cardinality(DOMAIN tree) - 1 : r \in [1 .. k -> steps]
    BY DEF Paths
  <2>2. k \in Nat
    BY <1>2
  <2> QED
    BY <1>1, <2>1, <2>2
<1>4. PICK i \in DOMAIN p \cap DOMAIN q : p[i] < q[i] /\ \A j \in 1 .. i - 1 : p[j] = q[j]
  BY DEF Precedes
<1>5. PICK j \in DOMAIN q \cap DOMAIN p : q[j] < p[j] /\ \A m \in 1 .. j - 1 : q[m] = p[m]
  BY DEF Precedes
<1>6. /\ i \in Nat \ {0} /\ j \in Nat \ {0}
      /\ p[i] \in Nat /\ q[i] \in Nat /\ p[j] \in Nat /\ q[j] \in Nat
  BY <1>3
<1>7. CASE i = j
  BY <1>4, <1>5, <1>6, <1>7
<1>8. CASE i < j
  <2>1. i \in 1 .. j - 1
    BY <1>6, <1>8
  <2> QED
    BY <1>4, <1>5, <1>6, <2>1
<1>9. CASE j < i
  <2>1. j \in 1 .. i - 1
    BY <1>6, <1>9
  <2> QED
    BY <1>4, <1>5, <1>6, <2>1
<1> QED
  BY <1>6, <1>7, <1>8, <1>9

(* The path recorded is the first path.                                    *)
LEMMA RecordedIsFirst ==
    ASSUME IInv, NEW id \in DOMAIN paths
    PROVE  Contents(paths[id]) = FirstPath(id)
<1> PICK p, leading : /\ p = Contents(paths[id])
                      /\ leading = { q \in Paths : Followed(tree, q) = {id} }
  OBVIOUS
<1>1. p \in leading
  BY RecordedInPaths, PathOf
<1>2. ASSUME NEW q \in leading PROVE q = p \/ Precedes(p, q)
  <2>1. IsPath(q)
    <3>1. PICK k \in 0 .. Cardinality(DOMAIN tree) - 1 : \E S : q \in [1 .. k -> S]
      BY DEF Paths
    <3>2. k \in Nat
      <4>1. Cardinality(DOMAIN tree) \in Nat
        BY FS_CardinalityType, TreesAssumption DEF IInv, WalkInv, TypeOK
      <4> QED
        BY <4>1
    <3>3. DOMAIN q = 1 .. k /\ q = [i \in 1 .. k |-> q[i]]
      BY <3>1
    <3>4. Len(q) = k
      BY <3>2, <3>3
    <3> QED
      BY <3>2, <3>3, <3>4 DEF IsPath
  <2> QED
    BY <2>1 DEF IInv, WalkInv, PathsInv, LeadsFirst
<1>3. ASSUME NEW q \in leading, \A other \in leading : other = q \/ Precedes(q, other)
      PROVE  q = p
  <2>1. tree \in Trees /\ p \in Paths /\ q \in Paths
    BY <1>1 DEF IInv, WalkInv, TypeOK
  <2>2. p = q \/ Precedes(q, p)
    BY <1>1, <1>3
  <2>3. q = p \/ Precedes(p, q)
    BY <1>2
  <2> QED
    BY <2>1, <2>2, <2>3, PrecedesOne
<1>4. p = CHOOSE q \in leading : \A other \in leading : other = q \/ Precedes(q, other)
  BY <1>1, <1>2, <1>3
<1> QED
  BY <1>4 DEF FirstPath

(* Where every node comes back with its edges, a source map maps the nodes *)
(* of the root's tree that have text to their own ranges, and nothing else.*)
THEOREM EveryEntryIsFaithful == Spec => []EntriesAreFaithful
<1>1. ASSUME IInv, phase = "mapped", Unmoved
      PROVE  entries = { [node |-> n, range |-> n] : n \in { m \in Met : HasRange(m) } }
  <2>1. Joined /\ todo = {} /\ DOMAIN paths = Met /\ tree \in Trees
    BY <1>1, AllMet DEF IInv, JoinInv, WalkInv, TypeOK
  <2>2. ASSUME NEW id \in DOMAIN paths PROVE Found(id) = {id}
    <3> PICK p, k : p = Contents(paths[id]) /\ k = Len(p)
      OBVIOUS
    <3>1. k \in Nat /\ Followed(tree, p) = {id}
      BY <1>1, PathOf DEF IsPath
    <3>2. PICK w : Walk(tree, p, k, w) /\ w[k] = id
      BY <3>1, FollowedIs
    <3>3. \A i \in 0 .. k : w[i] \in Met
      BY <2>1, <3>1, <3>2, WalkMeets DEF Met
    <3>4. \A i \in 0 .. k - 1 : Edges(reparsed, w[i]) = Edges(tree, w[i])
      <4>1. \A i \in 0 .. k - 1 : i \in 0 .. k
        BY <3>1
      <4> QED
        BY <1>1, <3>3, <4>1 DEF Unmoved
    <3>5. Walk(reparsed, p, k, w)
      BY <3>1, <3>2, <3>4, SameWalk
    <3>6. Followed(reparsed, p) = {id}
      BY <3>1, <3>2, <3>5, FollowedOne
    <3>7. Found(id) # {}
      BY <2>1 DEF Joined
    <3> QED
      BY <3>6, <3>7 DEF Found
  <2>3. \A x : x \in entries <=>
                 \E id \in DOMAIN paths : HasRange(id) /\ x = [node |-> id, range |-> id]
    BY <2>1, <2>2 DEF Joined
  <2> QED
    BY <2>1, <2>3
<1>2. IInv => EntriesAreFaithful
  BY <1>1 DEF EntriesAreFaithful
<1> QED
  BY <1>2, Invariant, PTL

(* Whatever the formatter does, a map is made exactly if the output parses *)
(* and the first path to each node leads to one of its kind there.         *)
THEOREM EveryErrorIsJustified == Spec => []ErrorIsJustified
<1> DEFINE stands(n) == \E m \in Followed(reparsed, FirstPath(n)) :
                          reparsed[m].kind = tree[n].kind
<1>1. ASSUME IInv, NEW n \in DOMAIN paths PROVE stands(n) <=> Found(n) # {}
  <2>1. FirstPath(n) = Contents(paths[n])
    BY <1>1, RecordedIsFirst
  <2> QED
    BY <2>1 DEF Found
<1>2. ASSUME IInv, phase = "error", Outputs(tree) # {}
      PROVE  \E n \in Met : ~ stands(n)
  <2>1. PICK id \in DOMAIN paths : Found(id) = {}
    BY <1>2 DEF IInv, JoinInv
  <2>2. DOMAIN paths = Met
    BY <1>2, AllMet
  <2>3. ~ stands(id)
    BY <1>1, <1>2, <2>1
  <2> QED
    BY <2>2, <2>3
<1>3. ASSUME IInv, phase = "mapped"
      PROVE  Outputs(tree) # {} /\ \A n \in Met : stands(n)
  <2>1. Joined /\ todo = {} /\ DOMAIN paths = Met
    BY <1>3, AllMet DEF IInv, JoinInv
  <2>2. \A n \in DOMAIN paths : Found(n) # {}
    BY <2>1 DEF Joined
  <2>3. \A n \in Met : stands(n)
    BY <1>1, <1>3, <2>1, <2>2
  <2> QED
    BY <2>1, <2>3 DEF Joined
<1>4. ASSUME IInv PROVE ErrorIsJustified
  <2>1. CASE phase = "mapped"
    BY <1>3, <1>4, <2>1 DEF ErrorIsJustified
  <2>2. CASE phase = "error"
    BY <1>2, <1>4, <2>2 DEF ErrorIsJustified
  <2> QED
    BY <2>1, <2>2 DEF ErrorIsJustified
<1> QED
  BY <1>4, Invariant, PTL
=============================================================================
