--------------------------- MODULE CommonJSProofs ---------------------------
(***************************************************************************)
(* Proofs about CommonJS, for every application, every set of requests and *)
(* every depth of nested loads: a file has one live instance, the cache    *)
(* offers no module whose load failed, what was loaded stays, JSON is      *)
(* answered whole, and the state has its types.                            *)
(*                                                                         *)
(* What makes these inductive is who owns a key: the keys of a load are in *)
(* the cache, name that load's instance, and belong to no other load, so   *)
(* that ~TempModule can erase them without asking.  For the first four     *)
(* nothing is assumed of the paths, ResolvePath and FullPath may answer    *)
(* anything; the types rest on what they do answer, which comes last.      *)
(***************************************************************************)
EXTENDS CommonJS, SequenceTheorems, TLAPS

IsSeq(s) == s \in Seq({s[i] : i \in DOMAIN s})

AnInstance(r) ==
    r \in [path : {r.path}, kind : {"module", "data", "placeholder", "entry"},
           state : {"loading", "done", "failed"}]

ALoad(l) ==
    l \in [asked : {l.asked}, path : {l.path}, keys : {l.keys},
           instance : {l.instance}, phase : {"script", "body"}]

Shape ==
    /\ IsSeq(made) /\ \A i \in DOMAIN made : AnInstance(made[i])
    /\ IsSeq(stack) /\ \A i \in DOMAIN stack : ALoad(stack[i])

EntriesExist == \A k \in DOMAIN loaded : loaded[k] \in DOMAIN made

(* A load works on an instance of its own and owns its keys. *)
LoadsOwn ==
    \A i \in DOMAIN stack :
        /\ stack[i].instance \in DOMAIN made
        /\ made[stack[i].instance].state = "loading"
        /\ made[stack[i].instance].kind # "data"
        /\ \A k \in stack[i].keys : k \in DOMAIN loaded /\ loaded[k] = stack[i].instance
        /\ \A j \in DOMAIN stack : stack[j].instance = stack[i].instance => i = j

(* Every entry is of a loaded module or owned by a load. *)
EntryIsOwned ==
    \A k \in DOMAIN loaded :
        \/ made[loaded[k]].state = "done"
        \/ \E i \in DOMAIN stack : k \in stack[i].keys

(* An instance of a required file is found under its path. *)
LiveIsFound ==
    \A i \in DOMAIN made :
        made[i].kind \in {"module", "data"} /\ Alive(i)
        => PathKey(made[i].path) \in DOMAIN loaded /\ loaded[PathKey(made[i].path)] = i

IsJson(name) == (IF Len(name) > 1 THEN Last(name) ELSE "") = "json"

(* The key tells whether its entry is the object of a JSON file. *)
KeyTellsKind ==
    \A k \in DOMAIN loaded :
        made[loaded[k]].kind = "data" <=> k.kind = "path" /\ IsJson(k.name)

Cache == /\ EntriesExist /\ LoadsOwn /\ EntryIsOwned /\ LiveIsFound /\ KeyTellsKind

AnswerExists == last.instance \in {NoInstance} \cup DOMAIN made

IInv == Shape /\ Cache /\ AnswerExists /\ DataWhole

-----------------------------------------------------------------------------
(* A sequence of anything is a sequence of its own elements. *)
LEMMA SeqIsSeq ==
  ASSUME NEW S, NEW s \in Seq(S)
  PROVE  IsSeq(s) /\ Len(s) \in Nat /\ DOMAIN s = 1..Len(s)
<1>1. Len(s) \in Nat /\ s \in [1..Len(s) -> S] /\ DOMAIN s = 1..Len(s)
  BY LenProperties
<1>2. s \in [1..Len(s) -> {s[i] : i \in DOMAIN s}]
  BY <1>1
<1> QED
  BY <1>1, <1>2 DEF IsSeq

(* What Append adds to a sequence. *)
LEMMA AppendTo ==
  ASSUME NEW s, IsSeq(s), NEW e
  PROVE  /\ IsSeq(Append(s, e)) /\ Len(s) \in Nat
         /\ Len(Append(s, e)) = Len(s) + 1
         /\ DOMAIN s = 1..Len(s) /\ DOMAIN Append(s, e) = 1..(Len(s) + 1)
         /\ \A i \in 1..Len(s) : Append(s, e)[i] = s[i]
         /\ Append(s, e)[Len(s) + 1] = e
<1> DEFINE S == {s[i] : i \in DOMAIN s} \cup {e}
<1>1. s \in Seq({s[i] : i \in DOMAIN s})
  BY DEF IsSeq
<1>2. s \in Seq(S)
  BY <1>1, SeqMonotonic
<1>3. e \in S
  OBVIOUS
<1> HIDE DEF S
<1>4. /\ Append(s, e) \in Seq(S)
      /\ Len(Append(s, e)) = Len(s)+1
      /\ \A i \in 1.. Len(s) : Append(s, e)[i] = s[i]
      /\ Append(s, e)[Len(s)+1] = e
  BY <1>2, <1>3, AppendProperties
<1>5. IsSeq(Append(s, e)) /\ DOMAIN Append(s, e) = 1..Len(Append(s, e))
  BY <1>4, SeqIsSeq
<1>6. Len(s) \in Nat /\ DOMAIN s = 1..Len(s)
  BY <1>2, SeqIsSeq
<1> QED
  BY <1>4, <1>5, <1>6

(* What Front leaves of a sequence. *)
LEMMA FrontOf ==
  ASSUME NEW s, IsSeq(s), s # <<>>
  PROVE  /\ IsSeq(Front(s)) /\ Len(s) \in Nat \ {0} /\ DOMAIN s = 1..Len(s)
         /\ DOMAIN Front(s) = 1..(Len(s) - 1)
         /\ \A i \in 1..(Len(s) - 1) : Front(s)[i] = s[i]
<1> DEFINE S == {s[i] : i \in DOMAIN s}
<1>1. s \in Seq(S)
  BY DEF IsSeq
<1>2. Len(s) \in Nat \ {0} /\ DOMAIN s = 1..Len(s)
  <2>1. Len(s) \in Nat /\ DOMAIN s = 1..Len(s)
    BY <1>1, SeqIsSeq
  <2> HIDE DEF S
  <2>2. Len(s) # 0
    BY <1>1, EmptySeq
  <2> QED
    BY <2>1, <2>2
<1>3. \A i \in 1..(Len(s) - 1) : s[i] \in S
  BY <1>2
<1>4. 1 \in Int /\ Len(s) - 1 \in Int
  BY <1>2
<1> HIDE DEF S
<1>5. /\ SubSeq(s, 1, Len(s) - 1) \in Seq(S)
      /\ Len(SubSeq(s, 1, Len(s) - 1))
            = IF 1 <= Len(s) - 1 THEN (Len(s) - 1) - 1 + 1 ELSE 0
      /\ \A i \in 1 .. (Len(s) - 1) - 1 + 1 : SubSeq(s, 1, Len(s) - 1)[i] = s[1 + i - 1]
  BY <1>3, <1>4, SubSeqProperties
<1>6. /\ Len(SubSeq(s, 1, Len(s) - 1)) = Len(s) - 1
      /\ \A i \in 1 .. (Len(s) - 1) : SubSeq(s, 1, Len(s) - 1)[i] = s[i]
  <2>1. (Len(s) - 1) - 1 + 1 = Len(s) - 1
    BY <1>2
  <2>2. \A i \in 1 .. (Len(s) - 1) : 1 + i - 1 = i
    BY <1>2
  <2>3. Len(SubSeq(s, 1, Len(s) - 1)) = Len(s) - 1
    BY <1>2, <1>5
  <2> QED
    BY <1>5, <2>1, <2>2, <2>3
<1>7. IsSeq(Front(s)) /\ DOMAIN Front(s) = 1..Len(Front(s))
  BY <1>5, SeqIsSeq DEF Front
<1> QED
  BY <1>2, <1>6, <1>7 DEF Front

(* What changing one element does to a sequence. *)
LEMMA ReplaceIn ==
  ASSUME NEW s, IsSeq(s), NEW n \in DOMAIN s, NEW e
  PROVE  /\ IsSeq([s EXCEPT ![n] = e]) /\ Len([s EXCEPT ![n] = e]) = Len(s)
         /\ DOMAIN [s EXCEPT ![n] = e] = DOMAIN s
         /\ [s EXCEPT ![n] = e][n] = e
         /\ \A i \in DOMAIN s : i # n => [s EXCEPT ![n] = e][i] = s[i]
<1> DEFINE S == {s[i] : i \in DOMAIN s} \cup {e}
<1>1. s \in Seq({s[i] : i \in DOMAIN s})
  BY DEF IsSeq
<1>2. s \in Seq(S)
  BY <1>1, SeqMonotonic
<1>3. e \in S
  OBVIOUS
<1> HIDE DEF S
<1>4. DOMAIN s = 1..Len(s)
  BY <1>2, SeqIsSeq
<1>5. /\ [s EXCEPT ![n] = e] \in Seq(S)
      /\ Len([s EXCEPT ![n] = e]) = Len(s)
  BY <1>2, <1>3, <1>4, ExceptSeq
<1>6. IsSeq([s EXCEPT ![n] = e])
  BY <1>5, SeqIsSeq
<1> QED
  BY <1>5, <1>6

-----------------------------------------------------------------------------
(* A new instance, entered under keys that nobody has: emplace adds them all. *)
Grows(path, kind, state, keys) ==
    LET new == Len(made')
    IN  /\ IsSeq(made') /\ DOMAIN made' = DOMAIN made \cup {new}
        /\ new \notin DOMAIN made /\ new # NoInstance
        /\ \A i \in DOMAIN made : made'[i] = made[i]
        /\ made'[new] = [path |-> path, kind |-> kind, state |-> state]
        /\ DOMAIN loaded' = DOMAIN loaded \cup keys
        /\ \A k \in DOMAIN loaded : loaded'[k] = loaded[k]
        /\ \A k \in keys : k \notin DOMAIN loaded /\ loaded'[k] = new

(* NewInstance and Emplace do just that. *)
LEMMA Grown ==
  ASSUME Shape, NEW path, NEW kind, NEW state, NEW keys,
         keys \cap DOMAIN loaded = {},
         made' = NewInstance(path, kind, state),
         \/ loaded' = Emplace(loaded, keys, Len(made'))
         \/ keys = {} /\ UNCHANGED loaded
  PROVE  Grows(path, kind, state, keys)
<1> DEFINE e == [path |-> path, kind |-> kind, state |-> state]
<1>1. IsSeq(made) /\ made' = Append(made, e)
  BY DEF Shape, NewInstance
<1> HIDE DEF e
<1>2. /\ IsSeq(made') /\ Len(made) \in Nat
      /\ Len(made') = Len(made) + 1
      /\ DOMAIN made = 1..Len(made) /\ DOMAIN made' = 1..(Len(made) + 1)
      /\ \A i \in 1..Len(made) : made'[i] = made[i]
      /\ made'[Len(made) + 1] = e
  BY <1>1, AppendTo
<1>3. /\ DOMAIN made' = DOMAIN made \cup {Len(made')}
      /\ Len(made') \notin DOMAIN made /\ Len(made') # NoInstance
  BY <1>2 DEF NoInstance
<1>4. /\ DOMAIN loaded' = DOMAIN loaded \cup keys
      /\ \A k \in DOMAIN loaded : loaded'[k] = loaded[k]
      /\ \A k \in keys : k \notin DOMAIN loaded /\ loaded'[k] = Len(made')
  BY DEF Emplace
<1> QED
  BY <1>2, <1>3, <1>4 DEF e, Grows

(* What the two ways to grow have in common. *)
LEMMA GrownParts ==
  ASSUME Shape, Cache, NEW path, NEW kind, NEW state, NEW keys,
         kind \in {"module", "data", "placeholder", "entry"},
         state \in {"loading", "done"},
         Grows(path, kind, state, keys),
         kind \in {"module", "data"} => PathKey(path) \in keys,
         \A k \in keys : kind = "data" <=> k.kind = "path" /\ IsJson(k.name)
  PROVE  /\ \A i \in DOMAIN made' : AnInstance(made'[i])
         /\ EntriesExist' /\ LiveIsFound' /\ KeyTellsKind'
<1> DEFINE N == Len(made')
<1>1. /\ DOMAIN made' = DOMAIN made \cup {N} /\ N \notin DOMAIN made
      /\ \A i \in DOMAIN made : made'[i] = made[i]
      /\ made'[N] = [path |-> path, kind |-> kind, state |-> state]
      /\ DOMAIN loaded' = DOMAIN loaded \cup keys
      /\ \A k \in DOMAIN loaded : loaded'[k] = loaded[k]
      /\ \A k \in keys : k \notin DOMAIN loaded /\ loaded'[k] = N
  BY DEF Grows
<1> HIDE DEF N
<1>2. \A i \in DOMAIN made' : AnInstance(made'[i])
  BY <1>1 DEF Shape, AnInstance
<1>3. EntriesExist'
  BY <1>1 DEF Cache, EntriesExist
<1>4. LiveIsFound'
  <2>1. SUFFICES ASSUME NEW i \in DOMAIN made',
                        made'[i].kind \in {"module", "data"}, made'[i].state # "failed"
                 PROVE  /\ PathKey(made'[i].path) \in DOMAIN loaded'
                        /\ loaded'[PathKey(made'[i].path)] = i
    BY DEF LiveIsFound, Alive
  <2>2. CASE i = N
    <3>1. made'[i].path = path /\ made'[i].kind = kind
      BY <1>1, <2>2
    <3> QED
      BY <1>1, <2>1, <2>2, <3>1
  <2>3. CASE i \in DOMAIN made
    BY <1>1, <2>1, <2>3 DEF Cache, LiveIsFound, Alive
  <2> QED
    BY <1>1, <2>2, <2>3
<1>5. KeyTellsKind'
  <2>1. SUFFICES ASSUME NEW k \in DOMAIN loaded'
                 PROVE  made'[loaded'[k]].kind = "data" <=> k.kind = "path" /\ IsJson(k.name)
    BY DEF KeyTellsKind
  <2>2. CASE k \in keys
    <3>1. made'[loaded'[k]].kind = kind
      BY <1>1, <2>2
    <3> QED
      BY <2>2, <3>1
  <2>3. CASE k \in DOMAIN loaded
    <3>1. made'[loaded'[k]] = made[loaded[k]]
      BY <1>1, <2>3 DEF Cache, EntriesExist
    <3> QED
      BY <2>3, <3>1 DEF Cache, KeyTellsKind
  <2> QED
    BY <1>1, <2>2, <2>3
<1> QED
  BY <1>2, <1>3, <1>4, <1>5

(* A finished instance is entered: a placeholder or the object of a JSON file. *)
LEMMA EnterDone ==
  ASSUME Shape, Cache, NEW path, NEW kind, NEW keys,
         kind \in {"data", "placeholder"},
         Grows(path, kind, "done", keys),
         kind = "data" => PathKey(path) \in keys,
         \A k \in keys : kind = "data" <=> k.kind = "path" /\ IsJson(k.name),
         UNCHANGED stack
  PROVE  Shape' /\ Cache'
<1> DEFINE N == Len(made')
<1>1. /\ IsSeq(made') /\ DOMAIN made' = DOMAIN made \cup {N} /\ N \notin DOMAIN made
      /\ \A i \in DOMAIN made : made'[i] = made[i]
      /\ made'[N] = [path |-> path, kind |-> kind, state |-> "done"]
      /\ DOMAIN loaded' = DOMAIN loaded \cup keys
      /\ \A k \in DOMAIN loaded : loaded'[k] = loaded[k]
      /\ \A k \in keys : k \notin DOMAIN loaded /\ loaded'[k] = N
  BY DEF Grows
<1>2. /\ \A i \in DOMAIN made' : AnInstance(made'[i])
      /\ EntriesExist' /\ LiveIsFound' /\ KeyTellsKind'
  BY GrownParts
<1> HIDE DEF N
<1>3. Shape'
  BY <1>1, <1>2 DEF Shape
<1>4. LoadsOwn'
  BY <1>1 DEF Cache, LoadsOwn
<1>5. EntryIsOwned'
  <2>1. \A k \in DOMAIN loaded : made'[loaded'[k]] = made[loaded[k]]
    BY <1>1 DEF Cache, EntriesExist
  <2>2. \A k \in keys : made'[loaded'[k]].state = "done"
    BY <1>1
  <2> QED
    BY <1>1, <2>1, <2>2 DEF Cache, EntryIsOwned
<1> QED
  BY <1>2, <1>3, <1>4, <1>5 DEF Cache

(* A load begins: TempModule enters the new module, or RunModule enters none. *)
LEMMA EnterLoading ==
  ASSUME Shape, Cache, NEW asked, NEW path, NEW kind, NEW keys,
         kind \in {"module", "entry"},
         Grows(path, kind, "loading", keys),
         kind = "module" => PathKey(path) \in keys,
         \A k \in keys : ~(k.kind = "path" /\ IsJson(k.name)),
         stack' = Append(stack, [asked |-> asked, path |-> path, keys |-> keys,
                                 instance |-> Len(made'), phase |-> "script"])
  PROVE  Shape' /\ Cache'
<1> DEFINE N == Len(made')
           top == [asked |-> asked, path |-> path, keys |-> keys,
                   instance |-> N, phase |-> "script"]
           n == Len(stack) + 1
<1>1. /\ IsSeq(made') /\ DOMAIN made' = DOMAIN made \cup {N} /\ N \notin DOMAIN made
      /\ \A i \in DOMAIN made : made'[i] = made[i]
      /\ made'[N] = [path |-> path, kind |-> kind, state |-> "loading"]
      /\ DOMAIN loaded' = DOMAIN loaded \cup keys
      /\ \A k \in DOMAIN loaded : loaded'[k] = loaded[k]
      /\ \A k \in keys : k \notin DOMAIN loaded /\ loaded'[k] = N
  BY DEF Grows
<1>2. /\ \A i \in DOMAIN made' : AnInstance(made'[i])
      /\ EntriesExist' /\ LiveIsFound' /\ KeyTellsKind'
  BY GrownParts
<1> HIDE DEF N
<1>3. stack' = Append(stack, top)
  BY DEF N
<1>4. ALoad(top) /\ top.keys = keys /\ top.instance = N
  BY DEF ALoad
<1> HIDE DEF top
<1>5. /\ IsSeq(stack') /\ DOMAIN stack' = DOMAIN stack \cup {n} /\ n \notin DOMAIN stack
      /\ \A i \in DOMAIN stack : stack'[i] = stack[i]
      /\ stack'[n] = top
  <2>1. IsSeq(stack)
    BY DEF Shape
  <2>2. /\ IsSeq(Append(stack, top)) /\ Len(stack) \in Nat
        /\ DOMAIN stack = 1..Len(stack) /\ DOMAIN Append(stack, top) = 1..(Len(stack) + 1)
        /\ \A i \in 1..Len(stack) : Append(stack, top)[i] = stack[i]
        /\ Append(stack, top)[Len(stack) + 1] = top
    BY <2>1, AppendTo
  <2> QED
    BY <1>3, <2>2
<1> HIDE DEF n
<1>6. Shape'
  BY <1>1, <1>2, <1>4, <1>5 DEF Shape
<1>7. LoadsOwn'
  <2>1. \A i \in DOMAIN stack : stack[i].instance \in DOMAIN made /\ stack[i].instance # N
    BY <1>1 DEF Cache, LoadsOwn
  <2>2. ASSUME NEW i \in DOMAIN stack'
        PROVE  /\ stack'[i].instance \in DOMAIN made'
               /\ made'[stack'[i].instance].state = "loading"
               /\ made'[stack'[i].instance].kind # "data"
               /\ \A k \in stack'[i].keys :
                    k \in DOMAIN loaded' /\ loaded'[k] = stack'[i].instance
    <3>1. CASE i = n
      <4>1. stack'[i].instance = N /\ stack'[i].keys = keys
        BY <1>4, <1>5, <3>1
      <4>2. made'[N].state = "loading" /\ made'[N].kind = kind
        BY <1>1
      <4> QED
        BY <1>1, <4>1, <4>2
    <3>2. CASE i \in DOMAIN stack
      BY <1>1, <1>5, <3>2 DEF Cache, LoadsOwn
    <3> QED
      BY <1>5, <3>1, <3>2
  <2>3. \A i, j \in DOMAIN stack' : stack'[j].instance = stack'[i].instance => i = j
    <3>1. \A i, j \in DOMAIN stack : stack[j].instance = stack[i].instance => i = j
      BY DEF Cache, LoadsOwn
    <3> QED
      BY <1>4, <1>5, <2>1, <3>1
  <2> QED
    BY <2>2, <2>3 DEF LoadsOwn
<1>8. EntryIsOwned'
  <2>1. \A k \in DOMAIN loaded : made'[loaded'[k]] = made[loaded[k]]
    BY <1>1 DEF Cache, EntriesExist
  <2>2. \A k \in keys : k \in stack'[n].keys
    BY <1>4, <1>5
  <2> QED
    BY <1>1, <1>5, <2>1, <2>2 DEF Cache, EntryIsOwned
<1> QED
  BY <1>2, <1>6, <1>7, <1>8 DEF Cache

-----------------------------------------------------------------------------
(* The innermost load leaves the stack. *)
Pops == /\ stack # <<>>
        /\ stack' = Front(stack)

(* SetState: the instance of the innermost load changes its state. *)
SetState(state) == made' = [made EXCEPT ![Top.instance].state = state]

(* What the end of a load does to stack and made. *)
LEMMA Popped ==
  ASSUME Shape, Cache, Pops, NEW state, state \in {"done", "failed"}, SetState(state)
  PROVE  /\ Shape'
         /\ Len(stack) \in DOMAIN stack /\ Top = stack[Len(stack)]
         /\ DOMAIN stack' = DOMAIN stack \ {Len(stack)}
         /\ \A i \in DOMAIN stack' : stack'[i] = stack[i]
         /\ DOMAIN made' = DOMAIN made
         /\ \A i \in DOMAIN made : i # Top.instance => made'[i] = made[i]
         /\ \A i \in DOMAIN made :
              made'[i].path = made[i].path /\ made'[i].kind = made[i].kind
         /\ Top.instance \in DOMAIN made /\ made'[Top.instance].state = state
<1> DEFINE n == Len(stack)
           x == Top.instance
           e == [made[x] EXCEPT !.state = state]
<1>1. IsSeq(stack) /\ stack # <<>> /\ stack' = Front(stack)
  BY DEF Shape, Pops
<1>2. /\ IsSeq(stack') /\ n \in Nat \ {0} /\ DOMAIN stack = 1..n
      /\ DOMAIN stack' = 1..(n - 1)
      /\ \A i \in 1..(n - 1) : stack'[i] = stack[i]
  BY <1>1, FrontOf
<1>3. /\ n \in DOMAIN stack /\ Top = stack[n]
      /\ DOMAIN stack' = DOMAIN stack \ {n}
      /\ \A i \in DOMAIN stack' : stack'[i] = stack[i]
  BY <1>2 DEF Top, Last
<1> HIDE DEF n
<1>4. x \in DOMAIN made
  BY <1>3 DEF Cache, LoadsOwn
<1>5. made' = [made EXCEPT ![x] = e]
  BY DEF SetState
<1>6. AnInstance(made[x])
  BY <1>4 DEF Shape
<1>7. /\ AnInstance(e) /\ e.state = state
      /\ e.path = made[x].path /\ e.kind = made[x].kind
  BY <1>6 DEF AnInstance
<1> HIDE DEF e, x
<1>8. /\ IsSeq(made') /\ DOMAIN made' = DOMAIN made /\ made'[x] = e
      /\ \A i \in DOMAIN made : i # x => made'[i] = made[i]
  BY <1>4, <1>5, ReplaceIn DEF Shape
<1>9. \A i \in DOMAIN made' : AnInstance(made'[i])
  BY <1>7, <1>8 DEF Shape
<1>10. \A i \in DOMAIN stack' : ALoad(stack'[i])
  BY <1>3 DEF Shape
<1>11. Shape'
  BY <1>2, <1>8, <1>9, <1>10 DEF Shape
<1>12. \A i \in DOMAIN made : made'[i].path = made[i].path /\ made'[i].kind = made[i].kind
  BY <1>7, <1>8
<1> QED
  BY <1>3, <1>4, <1>7, <1>8, <1>11, <1>12 DEF n, x

(* The other loads keep their instances and their keys. *)
LEMMA OthersUndisturbed ==
  ASSUME Shape, Cache, Pops, NEW state, state \in {"done", "failed"}, SetState(state)
  PROVE  \A i \in DOMAIN stack' :
           /\ stack'[i] = stack[i] /\ stack[i].instance \in DOMAIN made'
           /\ stack[i].instance # Top.instance
           /\ made'[stack[i].instance] = made[stack[i].instance]
           /\ stack[i].keys \cap Top.keys = {}
<1> SUFFICES ASSUME NEW i \in DOMAIN stack'
             PROVE  /\ stack'[i] = stack[i] /\ stack[i].instance \in DOMAIN made'
                    /\ stack[i].instance # Top.instance
                    /\ made'[stack[i].instance] = made[stack[i].instance]
                    /\ stack[i].keys \cap Top.keys = {}
  OBVIOUS
<1>1. /\ Len(stack) \in DOMAIN stack /\ Top = stack[Len(stack)]
      /\ DOMAIN stack' = DOMAIN stack \ {Len(stack)}
      /\ \A j \in DOMAIN stack' : stack'[j] = stack[j]
      /\ DOMAIN made' = DOMAIN made
      /\ \A j \in DOMAIN made : j # Top.instance => made'[j] = made[j]
  BY Popped
<1>2. i \in DOMAIN stack /\ i # Len(stack)
  BY <1>1
<1>3. stack[i].instance \in DOMAIN made /\ stack[i].instance # Top.instance
  BY <1>1, <1>2 DEF Cache, LoadsOwn
<1>4. /\ \A k \in stack[i].keys : loaded[k] = stack[i].instance
      /\ \A k \in Top.keys : loaded[k] = Top.instance
  BY <1>1, <1>2 DEF Cache, LoadsOwn
<1> QED
  BY <1>1, <1>3, <1>4

(* A load that succeeds: its module stays under its keys. *)
LEMMA KeepPreserves ==
  ASSUME Shape, Cache, stack # <<>>, Keep
  PROVE  Shape' /\ Cache'
<1>1. Pops /\ SetState("done") /\ UNCHANGED loaded
  BY DEF Keep, Pops, SetState
<1>2. /\ Shape'
      /\ Len(stack) \in DOMAIN stack /\ Top = stack[Len(stack)]
      /\ DOMAIN stack' = DOMAIN stack \ {Len(stack)}
      /\ DOMAIN made' = DOMAIN made
      /\ \A i \in DOMAIN made : i # Top.instance => made'[i] = made[i]
      /\ \A i \in DOMAIN made :
           made'[i].path = made[i].path /\ made'[i].kind = made[i].kind
      /\ Top.instance \in DOMAIN made /\ made'[Top.instance].state = "done"
  BY <1>1, Popped
<1>3. \A i \in DOMAIN stack' :
        /\ stack'[i] = stack[i] /\ stack[i].instance \in DOMAIN made'
        /\ stack[i].instance # Top.instance
        /\ made'[stack[i].instance] = made[stack[i].instance]
        /\ stack[i].keys \cap Top.keys = {}
  BY <1>1, OthersUndisturbed
<1>4. EntriesExist' /\ KeyTellsKind'
  BY <1>1, <1>2 DEF Cache, EntriesExist, KeyTellsKind
<1>5. LoadsOwn'
  BY <1>1, <1>2, <1>3 DEF Cache, LoadsOwn
<1>6. EntryIsOwned'
  <2>1. SUFFICES ASSUME NEW k \in DOMAIN loaded, made'[loaded[k]].state # "done"
                 PROVE  \E i \in DOMAIN stack' : k \in stack'[i].keys
    BY <1>1 DEF EntryIsOwned
  <2>2. loaded[k] # Top.instance /\ made'[loaded[k]] = made[loaded[k]]
    BY <1>2, <2>1 DEF Cache, EntriesExist
  <2>3. PICK i \in DOMAIN stack : k \in stack[i].keys
    BY <2>1, <2>2 DEF Cache, EntryIsOwned
  <2>4. stack[i].instance = loaded[k]
    BY <2>3 DEF Cache, LoadsOwn
  <2>5. i # Len(stack)
    BY <1>2, <2>2, <2>4
  <2> QED
    BY <1>2, <1>3, <2>3, <2>5
<1>7. LiveIsFound'
  <2>1. \A i \in DOMAIN made : made[i].state = "failed" => made'[i].state = "failed"
    <3>1. made[Top.instance].state = "loading"
      BY <1>2 DEF Cache, LoadsOwn
    <3> QED
      BY <1>2, <3>1
  <2> QED
    BY <1>1, <1>2, <2>1 DEF Cache, LiveIsFound, Alive
<1> QED
  BY <1>2, <1>4, <1>5, <1>6, <1>7 DEF Cache

(* A load that fails: ~TempModule takes exactly its own entries away. *)
LEMMA DisposePreserves ==
  ASSUME Shape, Cache, stack # <<>>, NEW how, Dispose(how)
  PROVE  Shape' /\ Cache'
<1>1. Pops /\ SetState("failed") /\ loaded' = Erase(loaded, Top.keys)
  BY DEF Dispose, Pops, SetState
<1>2. /\ Shape'
      /\ Len(stack) \in DOMAIN stack /\ Top = stack[Len(stack)]
      /\ DOMAIN stack' = DOMAIN stack \ {Len(stack)}
      /\ DOMAIN made' = DOMAIN made
      /\ \A i \in DOMAIN made : i # Top.instance => made'[i] = made[i]
      /\ \A i \in DOMAIN made :
           made'[i].path = made[i].path /\ made'[i].kind = made[i].kind
      /\ Top.instance \in DOMAIN made /\ made'[Top.instance].state = "failed"
  BY <1>1, Popped
<1>3. \A i \in DOMAIN stack' :
        /\ stack'[i] = stack[i] /\ stack[i].instance \in DOMAIN made'
        /\ stack[i].instance # Top.instance
        /\ made'[stack[i].instance] = made[stack[i].instance]
        /\ stack[i].keys \cap Top.keys = {}
  BY <1>1, OthersUndisturbed
<1>4. /\ DOMAIN loaded' = DOMAIN loaded \ Top.keys
      /\ \A k \in DOMAIN loaded' : loaded'[k] = loaded[k]
  BY <1>1 DEF Erase
<1>5. EntriesExist' /\ KeyTellsKind'
  BY <1>2, <1>4 DEF Cache, EntriesExist, KeyTellsKind
<1>6. LoadsOwn'
  <2>1. \A i \in DOMAIN stack' : \A k \in stack'[i].keys :
          k \in DOMAIN loaded' /\ loaded'[k] = stack'[i].instance
    BY <1>2, <1>3, <1>4 DEF Cache, LoadsOwn
  <2> QED
    BY <1>2, <1>3, <2>1 DEF Cache, LoadsOwn
<1>7. \A k \in DOMAIN loaded' : loaded[k] # Top.instance
  <2>1. made[Top.instance].state = "loading"
    BY <1>2 DEF Cache, LoadsOwn
  <2>2. SUFFICES ASSUME NEW k \in DOMAIN loaded', loaded[k] = Top.instance PROVE FALSE
    OBVIOUS
  <2>3. k \in DOMAIN loaded /\ k \notin Top.keys
    BY <1>4
  <2>4. PICK i \in DOMAIN stack : k \in stack[i].keys
    BY <2>1, <2>2, <2>3 DEF Cache, EntryIsOwned
  <2>5. stack[i].instance = Top.instance
    BY <2>2, <2>4 DEF Cache, LoadsOwn
  <2>6. i = Len(stack)
    BY <1>2, <2>5 DEF Cache, LoadsOwn
  <2> QED
    BY <1>2, <2>3, <2>4, <2>6
<1>8. EntryIsOwned'
  <2>1. SUFFICES ASSUME NEW k \in DOMAIN loaded', made'[loaded'[k]].state # "done"
                 PROVE  \E i \in DOMAIN stack' : k \in stack'[i].keys
    BY DEF EntryIsOwned
  <2>2. k \in DOMAIN loaded /\ loaded'[k] = loaded[k] /\ k \notin Top.keys
    BY <1>4
  <2>3. made'[loaded[k]] = made[loaded[k]]
    BY <1>2, <1>7, <2>2 DEF Cache, EntriesExist
  <2>4. PICK i \in DOMAIN stack : k \in stack[i].keys
    BY <2>1, <2>2, <2>3 DEF Cache, EntryIsOwned
  <2> QED
    BY <1>2, <1>3, <2>2, <2>4
<1>9. LiveIsFound'
  <2>1. SUFFICES ASSUME NEW i \in DOMAIN made,
                        made[i].kind \in {"module", "data"}, made'[i].state # "failed"
                 PROVE  /\ PathKey(made[i].path) \in DOMAIN loaded'
                        /\ loaded'[PathKey(made[i].path)] = i
    BY <1>2 DEF LiveIsFound, Alive
  <2>2. i # Top.instance /\ made'[i] = made[i]
    BY <1>2, <2>1
  <2>3. PathKey(made[i].path) \in DOMAIN loaded /\ loaded[PathKey(made[i].path)] = i
    BY <2>1, <2>2 DEF Cache, LiveIsFound, Alive
  <2>4. \A k \in Top.keys : loaded[k] = Top.instance
    BY <1>2 DEF Cache, LoadsOwn
  <2> QED
    BY <1>4, <2>2, <2>3, <2>4
<1> QED
  BY <1>2, <1>5, <1>6, <1>8, <1>9 DEF Cache

-----------------------------------------------------------------------------
(* LoadedStays of one step. *)
StaysLoaded ==
    \A k \in DOMAIN loaded :
        made[loaded[k]].state = "done" => k \in DOMAIN loaded' /\ loaded'[k] = loaded[k]

Preserved == IInv' /\ StaysLoaded

(* A require() that answers from what is there. *)
LEMMA NothingNew ==
  ASSUME IInv, UNCHANGED <<loaded, made, stack>>, AnswerExists', DataWhole'
  PROVE  Preserved
<1>1. Shape' /\ Cache'
  BY DEF IInv, Shape, Cache, EntriesExist, LoadsOwn, EntryIsOwned, LiveIsFound, Alive,
         KeyTellsKind
<1> QED
  BY <1>1 DEF IInv, Preserved, StaysLoaded

(* A require() that throws. *)
LEMMA OnlyThrows ==
  ASSUME IInv, UNCHANGED <<loaded, made>>, NEW path, NEW resolved, NEW how,
         how # "whole", Return(path, resolved, how, NoInstance)
  PROVE  Preserved
<1>1. last'.instance = NoInstance /\ UNCHANGED stack
  BY DEF Return, Answer
<1>2. AnswerExists' /\ DataWhole'
  BY <1>1 DEF AnswerExists, DataWhole
<1> QED
  BY <1>1, <1>2, NothingNew

(* The first lookup answers exports, and never finds a JSON object. *)
LEMMA CachedPreserves ==
  ASSUME IInv, NEW path, RequireCached(path)
  PROVE  Preserved
<1>1. /\ CacheKey(path) \in DOMAIN loaded /\ UNCHANGED <<loaded, made, stack>>
      /\ last'.instance = loaded[CacheKey(path)] /\ last'.how = "exports"
  BY DEF RequireCached, Return, Answer
<1>2. CacheKey(path).kind = "cache"
  BY DEF CacheKey
<1>3. loaded[CacheKey(path)] \in DOMAIN made /\ made[loaded[CacheKey(path)]].kind # "data"
  BY <1>1, <1>2 DEF IInv, Cache, EntriesExist, KeyTellsKind
<1>4. AnswerExists' /\ DataWhole'
  BY <1>1, <1>3 DEF AnswerExists, DataWhole
<1> QED
  BY <1>1, <1>4, NothingNew

(* The second lookup tells JSON by the extension of the file. *)
LEMMA LoadedPreserves ==
  ASSUME IInv, NEW path, NEW resolved, RequireLoaded(path, resolved)
  PROVE  Preserved
<1> DEFINE key == PathKey(resolved)
<1>1. /\ key \in DOMAIN loaded /\ UNCHANGED <<loaded, made, stack>>
      /\ last'.instance = loaded[key]
      /\ last'.how = IF Extension(resolved) = "json" THEN "whole" ELSE "exports"
  BY DEF RequireLoaded, Return, Answer
<1>2. key.kind = "path" /\ (IsJson(key.name) <=> Extension(resolved) = "json")
  BY DEF PathKey, IsJson, Extension
<1> HIDE DEF key
<1>3. /\ loaded[key] \in DOMAIN made
      /\ made[loaded[key]].kind = "data" <=> Extension(resolved) = "json"
  BY <1>1, <1>2 DEF IInv, Cache, EntriesExist, KeyTellsKind
<1>4. AnswerExists' /\ DataWhole'
  BY <1>1, <1>3 DEF AnswerExists, DataWhole
<1> QED
  BY <1>1, <1>4, NothingNew

(* The answer is the instance just made. *)
LEMMA GrownAnswer ==
  ASSUME NEW path, NEW kind, NEW state, NEW keys, Grows(path, kind, state, keys),
         last'.instance = Len(made'), last'.how = "whole" <=> kind = "data"
  PROVE  AnswerExists' /\ DataWhole'
<1>1. /\ Len(made') \in DOMAIN made'
      /\ made'[Len(made')] = [path |-> path, kind |-> kind, state |-> state]
  BY DEF Grows
<1>2. made'[last'.instance].kind = kind
  BY <1>1
<1> QED
  BY <1>1, <1>2 DEF AnswerExists, DataWhole

(* The answer is the old one and its instance is of the same kind. *)
LEMMA OldAnswer ==
  ASSUME IInv, UNCHANGED last, DOMAIN made \subseteq DOMAIN made',
         \A i \in DOMAIN made : made'[i].kind = made[i].kind
  PROVE  AnswerExists' /\ DataWhole'
BY DEF IInv, AnswerExists, DataWhole

(* A placeholder is entered under the cache key. *)
LEMMA PlaceholderPreserves ==
  ASSUME IInv, NEW path, NEW resolved, CacheKey(path) \notin DOMAIN loaded,
         RequirePlaceholder(path, resolved)
  PROVE  Preserved
<1> DEFINE keys == {CacheKey(path)}
<1>1. /\ made' = NewInstance(path, "placeholder", "done")
      /\ loaded' = Emplace(loaded, keys, Len(made')) /\ UNCHANGED stack
      /\ last'.instance = Len(made') /\ last'.how = "exports"
  BY DEF RequirePlaceholder, Return, Answer
<1>2. \A k \in keys : k.kind = "cache"
  BY DEF CacheKey
<1>3. keys \cap DOMAIN loaded = {}
  OBVIOUS
<1> HIDE DEF keys
<1>4. Grows(path, "placeholder", "done", keys)
  BY <1>1, <1>3, Grown DEF IInv
<1>5. Shape' /\ Cache'
  BY <1>1, <1>2, <1>4, EnterDone DEF IInv
<1>6. AnswerExists' /\ DataWhole'
  BY <1>1, <1>4, GrownAnswer
<1>7. StaysLoaded
  BY <1>4 DEF Grows, StaysLoaded
<1> QED
  BY <1>5, <1>6, <1>7 DEF IInv, Preserved

(* The object of a JSON file is entered under its path. *)
LEMMA LoadDataPreserves ==
  ASSUME IInv, NEW path, NEW resolved, LoadData(path, resolved)
  PROVE  Preserved
<1>1. CASE Return(path, resolved, "throws", NoInstance) /\ UNCHANGED <<loaded, made>>
  BY <1>1, OnlyThrows
<1>2. CASE /\ made' = NewInstance(resolved, "data", "done")
           /\ loaded' = Emplace(loaded, {PathKey(resolved)}, Len(made'))
           /\ Return(path, resolved, "whole", Len(made'))
  <2> DEFINE keys == {PathKey(resolved)}
  <2>1. /\ loaded' = Emplace(loaded, keys, Len(made')) /\ UNCHANGED stack
        /\ last'.instance = Len(made') /\ last'.how = "whole"
    BY <1>2 DEF Return, Answer
  <2>2. \A k \in keys : k.kind = "path" /\ IsJson(k.name)
    BY DEF LoadData, PathKey, IsJson, Extension
  <2>3. keys \cap DOMAIN loaded = {} /\ PathKey(resolved) \in keys
    BY DEF LoadData
  <2> HIDE DEF keys
  <2>4. Grows(resolved, "data", "done", keys)
    BY <1>2, <2>1, <2>3, Grown DEF IInv
  <2>5. Shape' /\ Cache'
    BY <2>1, <2>2, <2>3, <2>4, EnterDone DEF IInv
  <2>6. AnswerExists' /\ DataWhole'
    BY <2>1, <2>4, GrownAnswer
  <2>7. StaysLoaded
    BY <2>4 DEF Grows, StaysLoaded
  <2> QED
    BY <2>5, <2>6, <2>7 DEF IInv, Preserved
<1> QED
  BY <1>1, <1>2 DEF LoadData

(* A module is entered under both keys before its code runs. *)
LEMMA LoadModulePreserves ==
  ASSUME IInv, NEW path, NEW resolved, CacheKey(path) \notin DOMAIN loaded,
         LoadModule(path, resolved)
  PROVE  Preserved
<1> DEFINE keys == {PathKey(resolved), CacheKey(path)}
<1>1. /\ made' = NewInstance(resolved, "module", "loading")
      /\ loaded' = Emplace(loaded, keys, Len(made')) /\ UNCHANGED last
      /\ stack' = Append(stack, [asked |-> path, path |-> resolved, keys |-> keys,
                                 instance |-> Len(made'), phase |-> "script"])
  BY DEF LoadModule
<1>2. \A k \in keys : ~(k.kind = "path" /\ IsJson(k.name))
  <2>1. CacheKey(path).kind = "cache"
    BY DEF CacheKey
  <2>2. ~IsJson(PathKey(resolved).name)
    BY DEF LoadModule, PathKey, IsJson, Extension
  <2> QED
    BY <2>1, <2>2
<1>3. keys \cap DOMAIN loaded = {} /\ PathKey(resolved) \in keys
  BY DEF LoadModule
<1> HIDE DEF keys
<1>4. Grows(resolved, "module", "loading", keys)
  BY <1>1, <1>3, Grown DEF IInv
<1>5. Shape' /\ Cache'
  BY <1>1, <1>2, <1>3, <1>4, EnterLoading, SMTT(20) DEF IInv
<1>6. AnswerExists' /\ DataWhole'
  BY <1>1, <1>4, OldAnswer DEF Grows
<1>7. StaysLoaded
  BY <1>4 DEF Grows, StaysLoaded
<1> QED
  BY <1>5, <1>6, <1>7 DEF IInv, Preserved

(* RunModule enters nothing. *)
LEMMA RunModulePreserves ==
  ASSUME IInv, NEW path, RunModule(path)
  PROVE  Preserved
<1> DEFINE keys == {}
<1>1. /\ made' = NewInstance(path, "entry", "loading") /\ UNCHANGED <<loaded, last>>
      /\ stack = <<>> /\ keys = {}
      /\ stack' = <<[asked |-> path, path |-> path, keys |-> keys,
                     instance |-> Len(made'), phase |-> "script"]>>
  BY DEF RunModule
<1> HIDE DEF keys
<1>2. stack' = Append(stack, [asked |-> path, path |-> path, keys |-> keys,
                              instance |-> Len(made'), phase |-> "script"])
  BY <1>1
<1>3. Grows(path, "entry", "loading", keys)
  BY <1>1, Grown DEF IInv
<1>4. Shape' /\ Cache'
  <2>1. \A k \in keys : ~(k.kind = "path" /\ IsJson(k.name))
    BY <1>1
  <2>2. Shape /\ Cache
    BY DEF IInv
  <2> QED
    BY <1>2, <1>3, <2>1, <2>2, EnterLoading, SMTT(30)
<1>5. AnswerExists' /\ DataWhole'
  BY <1>1, <1>3, OldAnswer DEF Grows
<1>6. StaysLoaded
  BY <1>1 DEF StaysLoaded
<1> QED
  BY <1>4, <1>5, <1>6 DEF IInv, Preserved

(* LoadImpl as a whole, whatever the name resolves to. *)
LEMMA ResolvedPreserves ==
  ASSUME IInv, NEW path, NEW resolved, RequireResolved(path, resolved)
  PROVE  Preserved
<1>1. CASE RequireMissing(path, resolved)
  BY <1>1, OnlyThrows DEF RequireMissing
<1>2. CASE RequirePlaceholder(path, resolved)
  BY <1>2, PlaceholderPreserves DEF RequireResolved
<1>3. CASE RequireLoaded(path, resolved)
  BY <1>3, LoadedPreserves
<1>4. CASE LoadModule(path, resolved)
  BY <1>4, LoadModulePreserves DEF RequireResolved
<1>5. CASE LoadData(path, resolved)
  BY <1>5, LoadDataPreserves
<1>6. CASE RequireUnsupported(path, resolved)
  BY <1>6, OnlyThrows DEF RequireUnsupported
<1> QED
  BY <1>1, <1>2, <1>3, <1>4, <1>5, <1>6 DEF RequireResolved

(* require() as a whole. *)
LEMMA RequirePreserves ==
  ASSUME IInv, NEW request, NEW dir, RequireFile(request, dir)
  PROVE  Preserved
<1>1. PICK path : path = FullPath(files, request, dir)
  OBVIOUS
<1>2. PICK resolved : resolved = ResolvePath(files, Front(path), Last(path))
  OBVIOUS
<1>3. RequireCached(path) \/ RequireResolved(path, resolved)
  BY <1>1, <1>2 DEF RequireFile
<1> QED
  BY <1>3, CachedPreserves, ResolvedPreserves

(* The module's code is about to run. *)
LEMMA ScriptLoadsPreserves ==
  ASSUME IInv, ScriptLoads
  PROVE  Preserved
<1> DEFINE n == Len(stack)
           e == [stack[n] EXCEPT !.phase = "body"]
<1>1. /\ IsSeq(stack) /\ stack # <<>> /\ UNCHANGED <<loaded, made, last>>
      /\ stack' = [stack EXCEPT ![n] = e]
  BY DEF ScriptLoads, IInv, Shape
<1>2. n \in DOMAIN stack
  BY <1>1, FrontOf
<1>3. ALoad(e) /\ e.keys = stack[n].keys /\ e.instance = stack[n].instance
  BY <1>2 DEF IInv, Shape, ALoad
<1> HIDE DEF e, n
<1>4. /\ IsSeq(stack') /\ DOMAIN stack' = DOMAIN stack /\ stack'[n] = e
      /\ \A i \in DOMAIN stack : i # n => stack'[i] = stack[i]
  BY <1>1, <1>2, ReplaceIn
<1>5. \A i \in DOMAIN stack :
        /\ ALoad(stack'[i])
        /\ stack'[i].keys = stack[i].keys /\ stack'[i].instance = stack[i].instance
  BY <1>3, <1>4 DEF IInv, Shape
<1>6. Shape'
  BY <1>1, <1>4, <1>5 DEF IInv, Shape
<1>7. LoadsOwn' /\ EntryIsOwned'
  BY <1>1, <1>4, <1>5 DEF IInv, Cache, LoadsOwn, EntryIsOwned
<1>8. EntriesExist' /\ LiveIsFound' /\ KeyTellsKind'
  BY <1>1 DEF IInv, Cache, EntriesExist, LiveIsFound, Alive, KeyTellsKind
<1>9. AnswerExists' /\ DataWhole' /\ StaysLoaded
  BY <1>1 DEF IInv, AnswerExists, DataWhole, StaysLoaded
<1> QED
  BY <1>6, <1>7, <1>8, <1>9 DEF IInv, Cache, Preserved

(* A load ends well. *)
LEMMA BodyReturnsPreserves ==
  ASSUME IInv, stack # <<>>, Keep
  PROVE  Preserved
<1>1. Shape' /\ Cache'
  BY KeepPreserves DEF IInv
<1>2. Pops /\ SetState("done") /\ UNCHANGED loaded
  BY DEF Keep, Pops, SetState
<1>3. last'.instance = Top.instance /\ last'.how = "exports"
  BY DEF Keep, Answer
<1>4. /\ Len(stack) \in DOMAIN stack /\ Top = stack[Len(stack)]
      /\ DOMAIN made' = DOMAIN made
      /\ \A i \in DOMAIN made : made'[i].kind = made[i].kind
      /\ Top.instance \in DOMAIN made
  BY <1>2, Popped DEF IInv
<1>5. made[Top.instance].kind # "data"
  BY <1>4 DEF IInv, Cache, LoadsOwn
<1>6. AnswerExists' /\ DataWhole'
  BY <1>3, <1>4, <1>5 DEF AnswerExists, DataWhole
<1> QED
  BY <1>1, <1>2, <1>6 DEF IInv, Preserved, StaysLoaded

(* A load fails: what others have loaded is under keys that are not its own. *)
LEMMA FailurePreserves ==
  ASSUME IInv, stack # <<>>, NEW how, how # "whole", Dispose(how)
  PROVE  Preserved
<1>1. Shape' /\ Cache'
  BY DisposePreserves DEF IInv
<1>2. last'.instance = NoInstance
  BY DEF Dispose, Answer
<1>3. AnswerExists' /\ DataWhole'
  BY <1>2 DEF AnswerExists, DataWhole
<1>4. /\ DOMAIN loaded' = DOMAIN loaded \ Top.keys
      /\ \A k \in DOMAIN loaded' : loaded'[k] = loaded[k]
  BY DEF Dispose, Erase
<1>5. Len(stack) \in DOMAIN stack /\ Top = stack[Len(stack)]
  <2>1. Pops /\ SetState("failed")
    BY DEF Dispose, Pops, SetState
  <2> QED
    BY <2>1, Popped DEF IInv
<1>6. \A k \in Top.keys : made[loaded[k]].state = "loading"
  BY <1>5 DEF IInv, Cache, LoadsOwn
<1>7. StaysLoaded
  BY <1>4, <1>6 DEF StaysLoaded
<1> QED
  BY <1>1, <1>3, <1>7 DEF IInv, Preserved

-----------------------------------------------------------------------------
(* The isolate starts with an empty cache. *)
LEMMA InitIInv == Init => IInv
<1> SUFFICES ASSUME Init PROVE IInv
  OBVIOUS
<1>1. made = <<>> /\ stack = <<>> /\ DOMAIN loaded = {} /\ last.instance = NoInstance
  BY DEF Init, Answer
<1>2. IsSeq(<<>>) /\ DOMAIN <<>> = {}
  BY DEF IsSeq
<1>3. Shape
  BY <1>1, <1>2 DEF Shape
<1>4. Cache
  BY <1>1, <1>2 DEF Cache, EntriesExist, LoadsOwn, EntryIsOwned, LiveIsFound, KeyTellsKind
<1> QED
  BY <1>1, <1>3, <1>4 DEF IInv, AnswerExists, DataWhole

(* Every step preserves the invariant and keeps what was loaded. *)
LEMMA NextPreserves == IInv /\ [Next]_vars => Preserved
<1> SUFFICES ASSUME IInv, [Next]_vars PROVE Preserved
  OBVIOUS
<1>1. ASSUME NEW request \in Requests, RequireUrl(request) PROVE Preserved
  BY <1>1, OnlyThrows DEF RequireUrl
<1>2. ASSUME NEW request \in Requests, NEW dir \in CallingDirs, RequireFile(request, dir)
      PROVE  Preserved
  BY <1>2, RequirePreserves
<1>3. CASE ScriptLoads
  BY <1>3, ScriptLoadsPreserves
<1>4. CASE ScriptFails
  BY <1>4, FailurePreserves DEF ScriptFails
<1>5. CASE BodyReturns
  BY <1>5, BodyReturnsPreserves DEF BodyReturns
<1>6. CASE BodyThrows
  BY <1>6, FailurePreserves DEF BodyThrows
<1>7. ASSUME NEW path \in Entries, RunModule(path) PROVE Preserved
  BY <1>7, RunModulePreserves
<1>8. CASE UNCHANGED <<loaded, made, stack, last>>
  BY <1>8, NothingNew DEF IInv, AnswerExists, DataWhole
<1>9. LiveSync \/ UNCHANGED vars => UNCHANGED <<loaded, made, stack, last>>
  BY DEF LiveSync, vars
<1> QED
  BY <1>1, <1>2, <1>3, <1>4, <1>5, <1>6, <1>7, <1>8, <1>9 DEF Next

(* The invariant holds in every reachable state. *)
LEMMA Inductive == Spec => []IInv
<1>1. IInv /\ [Next]_vars => IInv'
  BY NextPreserves DEF Preserved
<1> QED
  BY <1>1, InitIInv, PTL DEF Spec

(* However requires are nested and by whatever names, a file has at most one *)
(* live instance (LoadImpl's lookups, TempModule).                           *)
THEOREM FilesAreShared == Spec => []SharedInstance
<1>1. IInv => SharedInstance
  BY DEF IInv, Cache, LiveIsFound, SharedInstance
<1> QED
  BY <1>1, Inductive, PTL

(* loadedModules_ never offers a module whose load has failed (~TempModule). *)
THEOREM CacheIsSound == Spec => []NothingBroken
<1>1. IInv => NothingBroken
  BY DEF IInv, Cache, LoadsOwn, EntryIsOwned, NothingBroken
<1> QED
  BY <1>1, Inductive, PTL

(* require() hands out the parsed object for a JSON file and exports for     *)
(* everything else (RequireCallback's isData).                               *)
THEOREM JsonIsWhole == Spec => []DataWhole
<1>1. IInv => DataWhole
  BY DEF IInv
<1> QED
  BY <1>1, Inductive, PTL

(* What was loaded stays loaded, also when other loads fail (~TempModule).   *)
THEOREM ModulesStay == Spec => LoadedStays
<1>1. IInv /\ [Next]_vars =>
        [\A k \in DOMAIN loaded :
           made[loaded[k]].state = "done"
           => k \in DOMAIN loaded' /\ loaded'[k] = loaded[k]]_vars
  BY NextPreserves DEF Preserved, StaysLoaded
<1> QED
  BY <1>1, Inductive, PTL DEF Spec, LoadedStays

-----------------------------------------------------------------------------
(* The paths: what the operators of ModulePaths answer. *)

(* The path of something that has a name: anything but the root. *)
NamedPath == Path \ {<<>>}

(* The last element of a sequence is one of its elements. *)
LEMMA LastElement ==
  ASSUME NEW S, NEW s \in Seq(S), s # <<>>
  PROVE  Last(s) \in S
<1>1. Len(s) \in Nat /\ s \in [1..Len(s) -> S]
  BY LenProperties
<1>2. Len(s) # 0
  BY EmptySeq
<1> QED
  BY <1>1, <1>2 DEF Last

(* Front leaves a sequence over the same set. *)
LEMMA FrontElements ==
  ASSUME NEW S, NEW s \in Seq(S)
  PROVE  Front(s) \in Seq(S)
<1>1. Len(s) \in Nat /\ s \in [1..Len(s) -> S]
  BY LenProperties
<1>2. \A i \in 1..(Len(s) - 1) : s[i] \in S
  BY <1>1
<1>3. 1 \in Int /\ Len(s) - 1 \in Int
  BY <1>1
<1>4. SubSeq(s, 1, Len(s) - 1) \in Seq(S)
  BY <1>2, <1>3, SubSeqProperties
<1> QED
  BY <1>4 DEF Front

(* Sequences of one and of two elements. *)
LEMMA ShortSequences ==
  ASSUME NEW S, NEW a \in S, NEW b \in S
  PROVE  <<a>> \in Seq(S) /\ <<a, b>> \in Seq(S)
OBVIOUS

(* Append gives a sequence that is not empty. *)
LEMMA AppendElements ==
  ASSUME NEW S, NEW s \in Seq(S), NEW e \in S
  PROVE  Append(s, e) \in Seq(S) /\ Append(s, e) # <<>>
<1>1. Append(s, e) \in Seq(S) /\ Len(Append(s, e)) = Len(s) + 1 /\ Len(s) \in Nat
  BY AppendProperties, LenProperties
<1>2. Len(<<>>) = 0
  BY EmptySeq
<1> QED
  BY <1>1, <1>2

(* So does joining two sequences of which one is not empty. *)
LEMMA JoinElements ==
  ASSUME NEW S, NEW s \in Seq(S), NEW t \in Seq(S)
  PROVE  /\ s \o t \in Seq(S)
         /\ s # <<>> \/ t # <<>> => s \o t # <<>>
<1>1. /\ s \o t \in Seq(S) /\ Len(s \o t) = Len(s) + Len(t)
      /\ Len(s) \in Nat /\ Len(t) \in Nat
  BY ConcatProperties, LenProperties
<1>2. (s = <<>> <=> Len(s) = 0) /\ (t = <<>> <=> Len(t) = 0)
  BY EmptySeq
<1>3. Len(<<>>) = 0
  BY EmptySeq
<1> QED
  BY <1>1, <1>2, <1>3

(* A file in a directory, and a file with one more extension, have a name. *)
LEMMA NamesTyped ==
  /\ \A dir \in Path, name \in Seq(STRING) : JoinPath(dir, name) \in NamedPath
  /\ \A path \in NamedPath, ext \in STRING : WithExtension(path, ext) \in NamedPath
<1>1. ASSUME NEW dir \in Path, NEW name \in Seq(STRING)
      PROVE  JoinPath(dir, name) \in NamedPath
  <2>1. dir \in Seq(Seq(STRING))
    BY DEF Path
  <2>2. Append(dir, name) \in Seq(Seq(STRING)) /\ Append(dir, name) # <<>>
    BY <2>1, AppendElements
  <2> QED
    BY <2>2 DEF JoinPath, NamedPath, Path
<1>2. ASSUME NEW path \in NamedPath, NEW ext \in STRING
      PROVE  WithExtension(path, ext) \in NamedPath
  <2>1. path \in Seq(Seq(STRING)) /\ path # <<>>
    BY DEF Path, NamedPath
  <2>2. Front(path) \in Seq(Seq(STRING)) /\ Last(path) \in Seq(STRING)
    BY <2>1, FrontElements, LastElement
  <2>3. Append(Last(path), ext) \in Seq(STRING)
    BY <2>2, AppendElements
  <2>4. /\ Append(Front(path), Append(Last(path), ext)) \in Seq(Seq(STRING))
        /\ Append(Front(path), Append(Last(path), ext)) # <<>>
    BY <2>2, <2>3, AppendElements
  <2> QED
    BY <2>4 DEF WithExtension, NamedPath, Path
<1> QED
  BY <1>1, <1>2

(* What is tried in turn has a name. *)
LEMMA FirstTyped ==
  ASSUME NEW path \in NamedPath, NEW there, NEW otherwise
  PROVE  FirstWithExtension(path, there, otherwise) \in NamedPath \cup {otherwise}
<1>1. WithExtension(path, "js") \in NamedPath /\ WithExtension(path, "mjs") \in NamedPath
  BY PathsAssumption, NamesTyped
<1> QED
  BY <1>1 DEF FirstWithExtension

(* So has the index of a directory. *)
LEMMA IndexTyped ==
  ASSUME NEW fs, NEW dir \in Path, NEW otherwise
  PROVE  IndexOf(fs, dir, otherwise) \in NamedPath \cup {otherwise}
<1>1. <<"index", "js">> \in Seq(STRING) /\ <<"index", "mjs">> \in Seq(STRING)
  BY PathsAssumption, ShortSequences
<1>2. /\ JoinPath(dir, <<"index", "js">>) \in NamedPath
      /\ JoinPath(dir, <<"index", "mjs">>) \in NamedPath
  BY <1>1, NamesTyped
<1> QED
  BY <1>2 DEF IndexOf

(* Where a package.json leads has a name. *)
LEMMA MainBaseTyped ==
  ASSUME NEW d \in DOMAIN PackageMain, d # <<>>, PackageMain[d] # Corrupt
  PROVE  MainBase(d) \in NamedPath
<1> DEFINE main == IF PackageMain[d] = NoMain THEN << <<"index">> >> ELSE PackageMain[d]
<1>1. d \in Seq(Seq(STRING))
  BY PathsAssumption DEF Path
<1>2. << <<"index">> >> \in Seq(Seq(STRING))
  BY PathsAssumption, ShortSequences
<1>3. main \in Seq(Seq(STRING))
  BY <1>2, PathsAssumption DEF Path
<1> HIDE DEF main
<1>4. d \o main \in Seq(Seq(STRING)) /\ d \o main # <<>>
  BY <1>1, <1>3, JoinElements
<1> QED
  BY <1>4 DEF main, MainBase, NamedPath, Path

(* Every package.json that is read is of a directory that has a name. *)
LEMMA ReadAreNamed ==
  ASSUME NEW fs, NEW dir \in DOMAIN PackageMain, dir # <<>>
  PROVE  PackagesRead(fs, dir) \subseteq DOMAIN PackageMain \ {<<>>}
<1> DEFINE S == DOMAIN PackageMain \ {<<>>}
<1>1. S \in SUBSET DOMAIN PackageMain /\ dir \in S
  OBVIOUS
<1>2. ASSUME NEW r \in S, Follows(fs, r) PROVE MainBase(r) \in S
  <2>1. PackageMain[r] # Corrupt /\ MainBase(r) \in DOMAIN PackageMain
    BY <1>2 DEF Follows
  <2>2. MainBase(r) \in NamedPath
    BY <2>1, MainBaseTyped
  <2> QED
    BY <2>1, <2>2 DEF NamedPath
<1> HIDE DEF S
<1>3. ASSUME NEW d \in PackagesRead(fs, dir) PROVE d \in S
  BY <1>1, <1>2 DEF PackagesRead
<1> QED
  BY <1>3 DEF S

(* The entry of a package has a name. *)
LEMMA EntryTyped ==
  ASSUME NEW fs, NEW d \in DOMAIN PackageMain, d # <<>>
  PROVE  EntryOf(fs, d) \in NamedPath \cup {Corrupt}
<1>1. CASE PackageMain[d] = Corrupt
  BY <1>1 DEF EntryOf
<1>2. CASE PackageMain[d] # Corrupt
  <2> DEFINE base == MainBase(d)
             whole == WithExtension(base, "js")
             inside == IF base \in Directories THEN IndexOf(fs, base, whole) ELSE whole
  <2>1. base \in NamedPath
    BY <1>2, MainBaseTyped
  <2> HIDE DEF base
  <2>2. whole \in NamedPath /\ base \in Path
    BY <2>1, NamesTyped, PathsAssumption DEF NamedPath
  <2> HIDE DEF whole
  <2>3. inside \in NamedPath
    BY <2>2, IndexTyped
  <2> HIDE DEF inside
  <2>4. FirstWithExtension(base, fs, inside) \in NamedPath
    BY <2>1, <2>3, FirstTyped
  <2>5. EntryOf(fs, d) = FirstWithExtension(base, fs, inside)
    BY <1>2 DEF EntryOf, base, whole, inside
  <2> QED
    BY <2>4, <2>5
<1> QED
  BY <1>1, <1>2

(* What ResolvePathFromPackageJson answers. *)
LEMMA PackageTyped ==
  ASSUME NEW fs, NEW dir \in DOMAIN PackageMain, dir # <<>>
  PROVE  ResolvePathFromPackageJson(fs, dir) \in NamedPath \cup {Corrupt, Never}
<1> DEFINE ends == {d \in PackagesRead(fs, dir) : ~Follows(fs, d)}
<1>1. ends \subseteq DOMAIN PackageMain \ {<<>>}
  BY ReadAreNamed
<1>2. ResolvePathFromPackageJson(fs, dir) =
        IF ends = {} THEN Never ELSE EntryOf(fs, CHOOSE d \in ends : TRUE)
  BY DEF ResolvePathFromPackageJson
<1> HIDE DEF ends
<1>3. CASE ends = {}
  BY <1>2, <1>3
<1>4. CASE ends # {}
  <2>1. (CHOOSE d \in ends : TRUE) \in ends
    BY <1>4
  <2>2. EntryOf(fs, CHOOSE d \in ends : TRUE) \in NamedPath \cup {Corrupt}
    BY <1>1, <2>1, EntryTyped
  <2> QED
    BY <1>2, <1>4, <2>2
<1> QED
  BY <1>3, <1>4

(* What ResolvePath answers. *)
LEMMA ResolveTyped ==
  ASSUME NEW fs, NEW dir \in Path, NEW name \in Seq(STRING)
  PROVE  ResolvePath(fs, dir, name) \in NamedPath \cup {Absent, Throws, Never}
<1> DEFINE path == JoinPath(dir, name)
           index == IndexOf(fs, path, path)
           package == ResolvePathFromPackageJson(fs, path)
           folder == IF path \notin DOMAIN PackageMain THEN index
                     ELSE IF package = Corrupt THEN Throws
                     ELSE package
           missing == IF IsLikelyOptionalModule(name) THEN Absent ELSE Throws
           otherwise == IF path \in Directories THEN folder ELSE missing
<1>1. ResolvePath(fs, dir, name) = FirstWithExtension(path, fs, otherwise)
  BY DEF ResolvePath
<1>2. path \in NamedPath
  BY NamesTyped
<1> HIDE DEF path
<1>3. index \in NamedPath
  BY <1>2, IndexTyped DEF NamedPath
<1>4. path \in DOMAIN PackageMain => package \in NamedPath \cup {Corrupt, Never}
  BY <1>2, PackageTyped DEF NamedPath
<1>5. missing \in {Absent, Throws}
  OBVIOUS
<1> HIDE DEF index, package, missing
<1>6. otherwise \in NamedPath \cup {Absent, Throws, Never}
  BY <1>3, <1>4, <1>5
<1> HIDE DEF otherwise
<1>7. FirstWithExtension(path, fs, otherwise) \in NamedPath \cup {otherwise}
  BY <1>2, FirstTyped
<1> QED
  BY <1>1, <1>6, <1>7

(* The path RequireCallback builds. *)
LEMMA FullTyped ==
  ASSUME NEW fs, NEW request \in Requests, request.form # "url", NEW dir \in Path
  PROVE  FullPath(fs, request, dir) \in Path
<1>1. \A p \in Path, q \in Path : p \o q \in Path
  BY JoinElements DEF Path
<1>2. /\ ApplicationPath \in NamedPath /\ AppMain \in Path
      /\ << <<"tns_modules">> >> \in Path /\ << <<"tns-core-modules">> >> \in Path
  BY PathsAssumption, ShortSequences DEF NamedPath, Path
<1>3. request.form \in {"main", "relative", "tilde", "bare", "absolute"}
  BY CommonJSAssumption
<1>4. CASE request.form = "main"
  <2> DEFINE base == ApplicationPath \o AppMain
  <2>1. base \in NamedPath
    BY <1>2, JoinElements DEF NamedPath, Path
  <2> HIDE DEF base
  <2>2. WithExtension(base, "js") \in NamedPath
    BY <2>1, NamesTyped, PathsAssumption
  <2>3. FirstWithExtension(base, fs \cup Directories, WithExtension(base, "js")) \in NamedPath
    BY <2>1, <2>2, FirstTyped
  <2>4. FullPath(fs, request, dir) = ResolveMainEntryFromPackageJson(fs)
    BY <1>4, Zenon DEF FullPath
  <2> QED
    BY <2>3, <2>4 DEF ResolveMainEntryFromPackageJson, base, NamedPath
<1>5. CASE request.form = "relative"
  <2> DEFINE top == SubSeq(dir, 1, Len(dir) - request.up)
  <2>1. request.to \in Path /\ request.up \in Nat
    BY <1>5, CommonJSAssumption
  <2>2. dir \in Seq(Seq(STRING)) /\ Len(dir) \in Nat /\ dir \in [1..Len(dir) -> Seq(STRING)]
    BY LenProperties DEF Path
  <2>3. 1 \in Int /\ Len(dir) - request.up \in Int
    BY <2>1, <2>2
  <2>4. \A i \in 1..(Len(dir) - request.up) : dir[i] \in Seq(STRING)
    BY <2>1, <2>2
  <2>5. top \in Path
    BY <2>3, <2>4, SubSeqProperties DEF Path
  <2> HIDE DEF top
  <2>6. FullPath(fs, request, dir) = top \o request.to
    BY <1>5, Zenon DEF FullPath, top
  <2> QED
    BY <1>1, <2>1, <2>5, <2>6
<1>6. CASE request.form = "tilde"
  <2>1. FullPath(fs, request, dir) = ApplicationPath \o request.to
    BY <1>6, Zenon DEF FullPath
  <2> QED
    BY <1>1, <1>2, <1>6, <2>1, CommonJSAssumption DEF NamedPath
<1>7. CASE request.form = "bare"
  <2> DEFINE tns == ApplicationPath \o << <<"tns_modules">> >>
             shared == tns \o request.to
             core == tns \o << <<"tns-core-modules">> >> \o request.to
  <2>1. request.to \in Path
    BY <1>7, CommonJSAssumption
  <2>2. tns \in Path
    BY <1>1, <1>2 DEF NamedPath
  <2> HIDE DEF tns
  <2>3. shared \in Path /\ core \in Path
    BY <1>1, <1>2, <2>1, <2>2
  <2>4. FullPath(fs, request, dir) =
          IF \E p \in Forms(shared) : Exists(fs, p) THEN shared ELSE core
    BY <1>7, Zenon DEF FullPath, tns
  <2> HIDE DEF shared, core
  <2> QED
    BY <2>3, <2>4
<1>8. CASE request.form = "absolute"
  <2>1. FullPath(fs, request, dir) = request.to
    BY <1>8, Zenon DEF FullPath
  <2> QED
    BY <1>8, <2>1, CommonJSAssumption
<1> QED
  BY <1>3, <1>4, <1>5, <1>6, <1>7, <1>8

(* PackagesRead is closed: with a directory it has the one it leads to. *)
LEMMA ReadIsClosed ==
  ASSUME NEW fs, NEW dir \in DOMAIN PackageMain
  PROVE  /\ PackagesRead(fs, dir) \in SUBSET DOMAIN PackageMain
         /\ dir \in PackagesRead(fs, dir)
         /\ \A r \in PackagesRead(fs, dir) :
              Follows(fs, r) => MainBase(r) \in PackagesRead(fs, dir)
<1>1. PackagesRead(fs, dir) \in SUBSET DOMAIN PackageMain /\ dir \in PackagesRead(fs, dir)
  BY DEF PackagesRead
<1>2. ASSUME NEW r \in PackagesRead(fs, dir), Follows(fs, r)
      PROVE  MainBase(r) \in PackagesRead(fs, dir)
  <2>1. MainBase(r) \in DOMAIN PackageMain
    BY <1>2 DEF Follows
  <2>2. ASSUME NEW read \in SUBSET DOMAIN PackageMain, dir \in read,
               \A q \in read : Follows(fs, q) => MainBase(q) \in read
        PROVE  MainBase(r) \in read
    <3>1. r \in read
      BY <1>2, <2>2 DEF PackagesRead
    <3> QED
      BY <1>2, <2>2, <3>1
  <2> QED
    BY <2>1, <2>2 DEF PackagesRead
<1> QED
  BY <1>1, <1>2

(* PackagesRead is the least such set. *)
LEMMA ReadIsLeast ==
  ASSUME NEW fs, NEW dir, NEW read \in SUBSET DOMAIN PackageMain, dir \in read,
         \A r \in read : Follows(fs, r) => MainBase(r) \in read
  PROVE  PackagesRead(fs, dir) \subseteq read
BY DEF PackagesRead

(* ResolvePathFromPackageJson calls itself on the package.json its "main"    *)
(* leads to and answers for itself where there is none: what is defined      *)
(* without recursion satisfies the recursion of the code.                    *)
THEOREM PackageJsonRecursion ==
  ASSUME NEW fs, NEW dir \in DOMAIN PackageMain
  PROVE  ResolvePathFromPackageJson(fs, dir) =
           IF Follows(fs, dir) THEN ResolvePathFromPackageJson(fs, MainBase(dir))
           ELSE EntryOf(fs, dir)
<1> DEFINE Ends(x) == {d \in PackagesRead(fs, x) : ~Follows(fs, d)}
<1>0. \A x : ResolvePathFromPackageJson(fs, x) =
               IF Ends(x) = {} THEN Never ELSE EntryOf(fs, CHOOSE d \in Ends(x) : TRUE)
  BY DEF ResolvePathFromPackageJson
<1>1. CASE ~Follows(fs, dir)
  <2>1. PackagesRead(fs, dir) = {dir}
    <3> DEFINE own == {dir}
    <3>1. /\ own \in SUBSET DOMAIN PackageMain /\ dir \in own
          /\ \A r \in own : Follows(fs, r) => MainBase(r) \in own
      BY <1>1
    <3> HIDE DEF own
    <3>2. PackagesRead(fs, dir) \subseteq own
      BY <3>1, ReadIsLeast
    <3>3. dir \in PackagesRead(fs, dir)
      BY ReadIsClosed
    <3> QED
      BY <3>2, <3>3 DEF own
  <2>2. Ends(dir) = {dir}
    BY <1>1, <2>1
  <2>3. (CHOOSE d \in Ends(dir) : TRUE) = dir
    BY <2>2
  <2> QED
    BY <1>1, <2>2, <2>3 DEF ResolvePathFromPackageJson
<1>2. CASE Follows(fs, dir)
  <2> DEFINE next == MainBase(dir)
             both == {dir} \cup PackagesRead(fs, next)
  <2>1. next \in DOMAIN PackageMain
    BY <1>2 DEF Follows
  <2>2. /\ next \in PackagesRead(fs, next)
        /\ PackagesRead(fs, next) \in SUBSET DOMAIN PackageMain
        /\ \A r \in PackagesRead(fs, next) :
              Follows(fs, r) => MainBase(r) \in PackagesRead(fs, next)
    BY <2>1, ReadIsClosed
  <2>3. /\ both \in SUBSET DOMAIN PackageMain /\ dir \in both
        /\ \A r \in both : Follows(fs, r) => MainBase(r) \in both
    BY <2>2
  <2> HIDE DEF both
  <2>4. PackagesRead(fs, dir) \subseteq both
    BY <2>3, ReadIsLeast
  <2>5. /\ dir \in PackagesRead(fs, dir) /\ next \in PackagesRead(fs, dir)
        /\ PackagesRead(fs, dir) \in SUBSET DOMAIN PackageMain
        /\ \A r \in PackagesRead(fs, dir) :
              Follows(fs, r) => MainBase(r) \in PackagesRead(fs, dir)
    BY <1>2, ReadIsClosed
  <2>6. PackagesRead(fs, next) \subseteq PackagesRead(fs, dir)
    BY <2>5, ReadIsLeast
  <2>7. Ends(dir) = Ends(next)
    BY <1>2, <2>4, <2>6 DEF both
  <2> QED
    <3> HIDE DEF Ends
    <3>1. ResolvePathFromPackageJson(fs, next) = ResolvePathFromPackageJson(fs, dir)
      BY <1>0, <2>7
    <3> QED
      BY <1>2, <3>1
<1> QED
  BY <1>1, <1>2

(* A "main" that leads round in a circle, to its own directory for ".": the  *)
(* recursion has no end and require() never returns.                         *)
THEOREM CyclicMainNeverReturns ==
  ASSUME NEW fs, NEW circle \in SUBSET DOMAIN PackageMain, NEW dir \in circle,
         \A r \in circle : Follows(fs, r) /\ MainBase(r) \in circle
  PROVE  ResolvePathFromPackageJson(fs, dir) = Never
<1>1. PackagesRead(fs, dir) \subseteq circle
  BY ReadIsLeast
<1>2. {d \in PackagesRead(fs, dir) : ~Follows(fs, d)} = {}
  BY <1>1
<1> QED
  BY <1>2 DEF ResolvePathFromPackageJson

-----------------------------------------------------------------------------
(* What TypeOK says beyond the shape of the state and the instances it names. *)
MadeTyped ==
    \A i \in DOMAIN made : made[i].path \in Path /\ i \in 1 .. MaxInstances

CacheTyped == DOMAIN loaded \subseteq Key

LoadsTyped ==
    \A i \in DOMAIN stack :
        stack[i].asked \in Path /\ stack[i].path \in Path /\ stack[i].keys \subseteq Key

AnswerTyped == last.how \in {"undefined", "throws", "exports", "whole"}

DeviceTyped ==
    /\ \A f \in files : f \in InitialFiles \cup SyncedFiles
    /\ syncs \in 0 .. MaxSyncs

Types == MadeTyped /\ CacheTyped /\ LoadsTyped /\ AnswerTyped /\ DeviceTyped

(* Both keys of a named path are keys. *)
LEMMA KeysTyped ==
  ASSUME NEW path \in NamedPath
  PROVE  PathKey(path) \in Key /\ CacheKey(path) \in Key
<1>1. path \in Seq(Seq(STRING)) /\ path # <<>>
  BY DEF NamedPath, Path
<1>2. Front(path) \in Path /\ Last(path) \in Seq(STRING)
  BY <1>1, FrontElements, LastElement DEF Path
<1>3. Front(Last(path)) \in Seq(STRING)
  BY <1>2, FrontElements
<1> DEFINE short == IF Len(Last(path)) > 1 THEN Front(Last(path)) ELSE Last(path)
<1>4. short \in Seq(STRING)
  BY <1>2, <1>3
<1>5. CacheKey(path) = [kind |-> "cache", dir |-> Front(path), name |-> short]
  BY DEF CacheKey
<1> HIDE DEF short
<1> QED
  BY <1>2, <1>4, <1>5 DEF PathKey, Key

(* Every directory a require function is bound to is a path. *)
LEMMA CallingDirsTyped ==
  ASSUME Types, NEW dir \in CallingDirs
  PROVE  dir \in Path
<1>1. CASE dir = ApplicationPath
  BY <1>1, PathsAssumption
<1>2. ASSUME NEW i \in DOMAIN made, dir = Front(made[i].path) PROVE dir \in Path
  BY <1>2, FrontElements DEF Types, MadeTyped, Path
<1> QED
  BY <1>1, <1>2 DEF CallingDirs

(* A require() that answers from what is there. *)
LEMMA AnswerKeepsTypes ==
  ASSUME Types, UNCHANGED <<loaded, made>>, NEW path, NEW resolved, NEW instance,
         NEW how \in {"undefined", "throws", "exports", "whole"},
         Return(path, resolved, how, instance)
  PROVE  Types'
<1>1. last'.how = how /\ UNCHANGED <<files, syncs, stack>>
  BY DEF Return, Answer
<1> QED
  BY <1>1 DEF Types, MadeTyped, CacheTyped, LoadsTyped, AnswerTyped, DeviceTyped

(* A new instance of a path, entered under keys. *)
LEMMA GrowthKeepsTypes ==
  ASSUME Shape, Types, NEW path \in Path, NEW kind, NEW state, NEW keys \in SUBSET Key,
         Len(made) < MaxInstances, made' = NewInstance(path, kind, state),
         Grows(path, kind, state, keys)
  PROVE  MadeTyped' /\ CacheTyped'
<1> DEFINE e == [path |-> path, kind |-> kind, state |-> state]
<1>1. IsSeq(made) /\ made' = Append(made, e) /\ e.path = path
  BY DEF Shape, NewInstance
<1> HIDE DEF e
<1>2. /\ Len(made) \in Nat /\ DOMAIN made = 1..Len(made)
      /\ DOMAIN made' = 1..(Len(made) + 1)
      /\ \A i \in 1..Len(made) : made'[i] = made[i]
      /\ made'[Len(made) + 1] = e
  BY <1>1, AppendTo
<1>3. \A i \in DOMAIN made' : i \in 1 .. MaxInstances
  BY <1>2, CommonJSAssumption
<1>4. \A i \in DOMAIN made' : made'[i].path \in Path
  <2>1. \A i \in 1..Len(made) : made'[i].path \in Path
    BY <1>2 DEF Types, MadeTyped
  <2>2. made'[Len(made) + 1].path \in Path
    BY <1>1, <1>2
  <2>3. \A i \in DOMAIN made' : i \in 1..Len(made) \/ i = Len(made) + 1
    BY <1>2
  <2> QED
    BY <2>1, <2>2, <2>3
<1>5. DOMAIN loaded' = DOMAIN loaded \cup keys
  BY DEF Grows
<1> QED
  BY <1>3, <1>4, <1>5 DEF MadeTyped, CacheTyped, Types

(* A new instance that is done: a placeholder, or the object of a JSON file. *)
LEMMA DoneKeepsTypes ==
  ASSUME IInv, Types, NEW path \in Path, NEW kind, NEW keys \in SUBSET Key,
         keys \cap DOMAIN loaded = {}, Len(made) < MaxInstances,
         made' = NewInstance(path, kind, "done"),
         loaded' = Emplace(loaded, keys, Len(made')),
         NEW asked, NEW resolved, NEW instance, NEW how \in {"exports", "whole"},
         Return(asked, resolved, how, instance)
  PROVE  Types'
<1>1. Shape
  BY DEF IInv
<1>2. Grows(path, kind, "done", keys)
  BY <1>1, Grown
<1>3. MadeTyped' /\ CacheTyped'
  BY <1>1, <1>2, GrowthKeepsTypes
<1>4. last'.how = how /\ UNCHANGED <<files, syncs, stack>>
  BY DEF Return, Answer
<1> QED
  BY <1>3, <1>4 DEF Types, LoadsTyped, AnswerTyped, DeviceTyped

(* A load begins. *)
LEMMA LoadingKeepsTypes ==
  ASSUME IInv, Types, NEW asked \in Path, NEW path \in Path, NEW kind,
         NEW keys \in SUBSET Key, keys \cap DOMAIN loaded = {}, Len(made) < MaxInstances,
         made' = NewInstance(path, kind, "loading"),
         \/ loaded' = Emplace(loaded, keys, Len(made'))
         \/ keys = {} /\ UNCHANGED loaded,
         stack' = Append(stack, [asked |-> asked, path |-> path, keys |-> keys,
                                 instance |-> Len(made'), phase |-> "script"]),
         UNCHANGED <<files, syncs, last>>
  PROVE  Types'
<1>1. Shape
  BY DEF IInv
<1>2. Grows(path, kind, "loading", keys)
  BY <1>1, Grown
<1>3. MadeTyped' /\ CacheTyped'
  BY <1>1, <1>2, GrowthKeepsTypes
<1> DEFINE top == [asked |-> asked, path |-> path, keys |-> keys,
                   instance |-> Len(made'), phase |-> "script"]
<1>4. /\ IsSeq(stack) /\ stack' = Append(stack, top)
      /\ top.asked = asked /\ top.path = path /\ top.keys = keys
  BY <1>1 DEF Shape
<1> HIDE DEF top
<1>5. /\ Len(stack) \in Nat /\ DOMAIN stack = 1..Len(stack)
      /\ DOMAIN stack' = 1..(Len(stack) + 1)
      /\ \A i \in 1..Len(stack) : stack'[i] = stack[i]
      /\ stack'[Len(stack) + 1] = top
  BY <1>4, AppendTo
<1>6. LoadsTyped'
  <2>1. SUFFICES ASSUME NEW i \in DOMAIN stack'
                 PROVE  /\ stack'[i].asked \in Path /\ stack'[i].path \in Path
                        /\ stack'[i].keys \subseteq Key
    BY DEF LoadsTyped
  <2>2. CASE i = Len(stack) + 1
    BY <1>4, <1>5, <2>2
  <2>3. CASE i \in DOMAIN stack
    BY <1>5, <2>3 DEF Types, LoadsTyped
  <2> QED
    BY <1>5, <2>2, <2>3
<1> QED
  BY <1>3, <1>6 DEF Types, AnswerTyped, DeviceTyped

(* LoadImpl once the name is resolved. *)
LEMMA ResolvedKeepsTypes ==
  ASSUME IInv, Types, NEW path \in NamedPath,
         NEW resolved \in NamedPath \cup {Absent, Throws, Never},
         RequireResolved(path, resolved)
  PROVE  Types'
<1>1. path \in Path /\ PathKey(path) \in Key /\ CacheKey(path) \in Key
  BY KeysTyped DEF NamedPath
<1>2. CacheKey(path) \notin DOMAIN loaded
  BY DEF RequireResolved
<1>3. CASE RequireMissing(path, resolved)
  BY <1>3, AnswerKeepsTypes DEF RequireMissing
<1>4. CASE RequirePlaceholder(path, resolved)
  <2>1. {CacheKey(path)} \in SUBSET Key /\ {CacheKey(path)} \cap DOMAIN loaded = {}
    BY <1>1, <1>2
  <2> QED
    BY <1>1, <1>4, <2>1, DoneKeepsTypes DEF RequirePlaceholder
<1>5. ASSUME resolved \notin {Absent, Throws, Never},
             \/ RequireLoaded(path, resolved)
             \/ LoadModule(path, resolved)
             \/ LoadData(path, resolved)
             \/ RequireUnsupported(path, resolved)
      PROVE  Types'
  <2>1. resolved \in Path /\ PathKey(resolved) \in Key
    BY <1>5, KeysTyped DEF NamedPath
  <2>2. CASE RequireLoaded(path, resolved)
    <3>1. PICK how \in {"whole", "exports"} :
                 Return(path, resolved, how, loaded[PathKey(resolved)])
      BY <2>2 DEF RequireLoaded
    <3> QED
      BY <2>2, <3>1, AnswerKeepsTypes DEF RequireLoaded
  <2>3. CASE LoadModule(path, resolved)
    <3> DEFINE keys == {PathKey(resolved), CacheKey(path)}
    <3>1. keys \in SUBSET Key /\ keys \cap DOMAIN loaded = {}
      BY <1>1, <1>2, <2>1, <2>3 DEF LoadModule
    <3>2. /\ Len(made) < MaxInstances /\ made' = NewInstance(resolved, "module", "loading")
          /\ loaded' = Emplace(loaded, keys, Len(made'))
          /\ stack' = Append(stack, [asked |-> path, path |-> resolved, keys |-> keys,
                                     instance |-> Len(made'), phase |-> "script"])
          /\ UNCHANGED <<files, syncs, last>>
      BY <2>3 DEF LoadModule
    <3> HIDE DEF keys
    <3> QED
      BY <1>1, <2>1, <3>1, <3>2, LoadingKeepsTypes
  <2>4. CASE LoadData(path, resolved)
    <3>1. {PathKey(resolved)} \in SUBSET Key /\ {PathKey(resolved)} \cap DOMAIN loaded = {}
      BY <2>1, <2>4 DEF LoadData
    <3>2. CASE /\ Len(made) < MaxInstances
               /\ made' = NewInstance(resolved, "data", "done")
               /\ loaded' = Emplace(loaded, {PathKey(resolved)}, Len(made'))
               /\ Return(path, resolved, "whole", Len(made'))
      BY <2>1, <3>1, <3>2, DoneKeepsTypes
    <3>3. CASE Return(path, resolved, "throws", NoInstance) /\ UNCHANGED <<loaded, made>>
      BY <3>3, AnswerKeepsTypes
    <3> QED
      BY <2>4, <3>2, <3>3 DEF LoadData
  <2>5. CASE RequireUnsupported(path, resolved)
    BY <2>5, AnswerKeepsTypes DEF RequireUnsupported
  <2> QED
    BY <1>5, <2>2, <2>3, <2>4, <2>5
<1> QED
  BY <1>3, <1>4, <1>5 DEF RequireResolved

(* require() as a whole. *)
LEMMA RequireKeepsTypes ==
  ASSUME IInv, Types, NEW request \in Requests, NEW dir \in CallingDirs,
         RequireFile(request, dir)
  PROVE  Types'
<1>1. PICK path : path = FullPath(files, request, dir)
  OBVIOUS
<1>2. PICK resolved : resolved = ResolvePath(files, Front(path), Last(path))
  OBVIOUS
<1>3. /\ request.form # "url" /\ path # <<>>
      /\ RequireCached(path) \/ RequireResolved(path, resolved)
  BY <1>1, <1>2 DEF RequireFile
<1>4. path \in NamedPath
  BY <1>1, <1>3, CallingDirsTyped, FullTyped DEF NamedPath
<1>5. Front(path) \in Path /\ Last(path) \in Seq(STRING)
  BY <1>4, FrontElements, LastElement DEF NamedPath, Path
<1>6. resolved \in NamedPath \cup {Absent, Throws, Never}
  BY <1>2, <1>5, ResolveTyped
<1>7. CASE RequireCached(path)
  BY <1>7, AnswerKeepsTypes DEF RequireCached
<1>8. CASE RequireResolved(path, resolved)
  BY <1>4, <1>6, <1>8, ResolvedKeepsTypes
<1> QED
  BY <1>3, <1>7, <1>8

(* The module's code is about to run. *)
LEMMA ScriptLoadsKeepsTypes ==
  ASSUME IInv, Types, ScriptLoads
  PROVE  Types'
<1> DEFINE n == Len(stack)
           e == [stack[n] EXCEPT !.phase = "body"]
<1>1. /\ IsSeq(stack) /\ stack # <<>> /\ UNCHANGED <<files, syncs, loaded, made, last>>
      /\ stack' = [stack EXCEPT ![n] = e]
  BY DEF ScriptLoads, IInv, Shape
<1>2. n \in DOMAIN stack
  BY <1>1, FrontOf
<1>3. e.asked = stack[n].asked /\ e.path = stack[n].path /\ e.keys = stack[n].keys
  BY <1>2 DEF IInv, Shape, ALoad
<1> HIDE DEF e, n
<1>4. /\ DOMAIN stack' = DOMAIN stack /\ stack'[n] = e
      /\ \A i \in DOMAIN stack : i # n => stack'[i] = stack[i]
  BY <1>1, <1>2, ReplaceIn
<1>5. LoadsTyped'
  BY <1>3, <1>4 DEF Types, LoadsTyped
<1> QED
  BY <1>1, <1>5 DEF Types, MadeTyped, CacheTyped, AnswerTyped, DeviceTyped

(* A load ends, well or not. *)
LEMMA EndKeepsTypes ==
  ASSUME IInv, Types, Pops, NEW state \in {"done", "failed"}, SetState(state),
         DOMAIN loaded' \subseteq DOMAIN loaded, AnswerTyped',
         UNCHANGED <<files, syncs>>
  PROVE  Types'
<1>1. /\ DOMAIN stack' = DOMAIN stack \ {Len(stack)}
      /\ \A i \in DOMAIN stack' : stack'[i] = stack[i]
      /\ DOMAIN made' = DOMAIN made
      /\ \A i \in DOMAIN made : made'[i].path = made[i].path
  BY Popped DEF IInv
<1>2. MadeTyped' /\ CacheTyped' /\ LoadsTyped'
  BY <1>1 DEF Types, MadeTyped, CacheTyped, LoadsTyped
<1> QED
  BY <1>2 DEF Types, DeviceTyped

(* ~TempModule after SaveToCache. *)
LEMMA KeepKeepsTypes ==
  ASSUME IInv, Types, stack # <<>>, Keep
  PROVE  Types'
<1>1. Pops /\ SetState("done") /\ UNCHANGED <<files, syncs, loaded>>
  BY DEF Keep, Pops, SetState
<1>2. AnswerTyped'
  BY DEF Keep, Answer, AnswerTyped
<1> QED
  BY <1>1, <1>2, EndKeepsTypes

(* ~TempModule without it. *)
LEMMA DisposeKeepsTypes ==
  ASSUME IInv, Types, stack # <<>>, NEW how \in {"undefined", "throws"}, Dispose(how)
  PROVE  Types'
<1>1. Pops /\ SetState("failed") /\ UNCHANGED <<files, syncs>>
  BY DEF Dispose, Pops, SetState
<1>2. DOMAIN loaded' \subseteq DOMAIN loaded
  BY DEF Dispose, Erase
<1>3. AnswerTyped'
  BY DEF Dispose, Answer, AnswerTyped
<1> QED
  BY <1>1, <1>2, <1>3, EndKeepsTypes

(* RunModule starts with one of the entries. *)
LEMMA RunModuleKeepsTypes ==
  ASSUME IInv, Types, NEW path \in Entries, RunModule(path)
  PROVE  Types'
<1> DEFINE keys == {}
<1>1. /\ path \in Path /\ keys \in SUBSET Key /\ keys \cap DOMAIN loaded = {} /\ keys = {}
  BY CommonJSAssumption
<1>2. /\ Len(made) < MaxInstances /\ made' = NewInstance(path, "entry", "loading")
      /\ stack = <<>> /\ UNCHANGED <<files, syncs, loaded, last>>
      /\ stack' = <<[asked |-> path, path |-> path, keys |-> keys,
                     instance |-> Len(made'), phase |-> "script"]>>
  BY DEF RunModule
<1> HIDE DEF keys
<1>3. stack' = Append(stack, [asked |-> path, path |-> path, keys |-> keys,
                              instance |-> Len(made'), phase |-> "script"])
  BY <1>2
<1> QED
  BY <1>1, <1>2, <1>3, LoadingKeepsTypes

(* Live sync adds and removes synced files only. *)
LEMMA LiveSyncKeepsTypes ==
  ASSUME Types, LiveSync
  PROVE  Types'
<1>1. UNCHANGED <<loaded, made, stack, last>>
  BY DEF LiveSync
<1>2. syncs' \in 0 .. MaxSyncs
  BY CommonJSAssumption DEF LiveSync, Types, DeviceTyped
<1>3. \A f \in files' : f \in InitialFiles \cup SyncedFiles
  BY DEF LiveSync, Types, DeviceTyped
<1> QED
  BY <1>1, <1>2, <1>3 DEF Types, MadeTyped, CacheTyped, LoadsTyped, AnswerTyped, DeviceTyped

(* Every step of the loader keeps the types. *)
LEMMA NextKeepsTypes == IInv /\ Types /\ [Next]_vars => Types'
<1> SUFFICES ASSUME IInv, Types, [Next]_vars PROVE Types'
  OBVIOUS
<1>1. ASSUME NEW request \in Requests, RequireUrl(request) PROVE Types'
  BY <1>1, AnswerKeepsTypes DEF RequireUrl
<1>2. ASSUME NEW request \in Requests, NEW dir \in CallingDirs, RequireFile(request, dir)
      PROVE  Types'
  BY <1>2, RequireKeepsTypes
<1>3. CASE ScriptLoads
  BY <1>3, ScriptLoadsKeepsTypes
<1>4. CASE ScriptFails
  BY <1>4, DisposeKeepsTypes DEF ScriptFails
<1>5. CASE BodyReturns
  BY <1>5, KeepKeepsTypes DEF BodyReturns
<1>6. CASE BodyThrows
  BY <1>6, DisposeKeepsTypes DEF BodyThrows
<1>7. ASSUME NEW path \in Entries, RunModule(path) PROVE Types'
  BY <1>7, RunModuleKeepsTypes
<1>8. CASE LiveSync
  BY <1>8, LiveSyncKeepsTypes
<1>9. CASE UNCHANGED vars
  BY <1>9 DEF vars, Types, MadeTyped, CacheTyped, LoadsTyped, AnswerTyped, DeviceTyped
<1> QED
  BY <1>1, <1>2, <1>3, <1>4, <1>5, <1>6, <1>7, <1>8, <1>9 DEF Next

(* The first state is typed. *)
LEMMA InitTypes == Init => Types
<1> SUFFICES ASSUME Init PROVE Types
  OBVIOUS
<1>1. DOMAIN made = {} /\ DOMAIN stack = {} /\ DOMAIN loaded = {}
  BY DEF Init
<1>2. AnswerTyped /\ DeviceTyped
  BY CommonJSAssumption DEF Init, Answer, AnswerTyped, DeviceTyped
<1> QED
  BY <1>1, <1>2 DEF Types, MadeTyped, CacheTyped, LoadsTyped

(* With the shape of the state, the types are TypeOK. *)
LEMMA TypesSuffice == IInv /\ Types => TypeOK
<1> SUFFICES ASSUME IInv, Types PROVE TypeOK
  OBVIOUS
<1>1. made \in Seq(Instance)
  <2>1. \A i \in DOMAIN made : made[i] \in Instance
    BY DEF IInv, Shape, AnInstance, Types, MadeTyped, Instance
  <2>2. made \in Seq({made[i] : i \in DOMAIN made})
    BY DEF IInv, Shape, IsSeq
  <2>3. {made[i] : i \in DOMAIN made} \subseteq Instance
    BY <2>1
  <2> QED
    BY <2>2, <2>3, SeqMonotonic
<1>2. stack \in Seq(Load)
  <2>1. \A i \in DOMAIN stack : stack[i].instance \in 1 .. MaxInstances
    BY DEF IInv, Cache, LoadsOwn, Types, MadeTyped
  <2>2. \A i \in DOMAIN stack : stack[i] \in Load
    BY <2>1 DEF IInv, Shape, ALoad, Types, LoadsTyped, Load
  <2>3. stack \in Seq({stack[i] : i \in DOMAIN stack})
    BY DEF IInv, Shape, IsSeq
  <2>4. {stack[i] : i \in DOMAIN stack} \subseteq Load
    BY <2>2
  <2> QED
    BY <2>3, <2>4, SeqMonotonic
<1>3. /\ \A k \in DOMAIN loaded : loaded[k] \in DOMAIN made
      /\ \A i \in DOMAIN stack : stack[i].instance \in DOMAIN made
      /\ last.instance \in {NoInstance} \cup DOMAIN made
  BY DEF IInv, Cache, EntriesExist, LoadsOwn, AnswerExists
<1> QED
  BY <1>1, <1>2, <1>3 DEF TypeOK, Types, CacheTyped, AnswerTyped, DeviceTyped

(* Whatever is required, by whatever name, and whatever live sync does, the  *)
(* cache, the instances and the loads under way have their types, and every  *)
(* entry and every load names an instance that was made (ModuleInternal).    *)
THEOREM LoaderIsTyped == Spec => []TypeOK
<1>1. Init => IInv /\ Types
  BY InitIInv, InitTypes
<1>2. IInv /\ Types /\ [Next]_vars => (IInv /\ Types)'
  BY NextPreserves, NextKeepsTypes DEF Preserved
<1> QED
  BY <1>1, <1>2, TypesSuffice, PTL DEF Spec
=============================================================================
