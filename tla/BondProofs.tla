----------------------------- MODULE BondProofs -----------------------------
(***************************************************************************)
(* Proofs that the maternal bonds of any family of processes stay sound    *)
(* (ProcessBond): FamilyIsSound, for any set of processes.                 *)
(*                                                                         *)
(* A bond has two sides.  The parent's side is on the list of one process, *)
(* or is the target of the process that has just taken it off; nobody else *)
(* can drop it.  The inductive invariant says so (Lists, Family), and      *)
(* that the counter, the memory and the locals reap of the two sides fit   *)
(* together (Counted): who drops the last reference, and only that         *)
(* process, goes on to free the bond.                                      *)
(***************************************************************************)
EXTENDS ProcessBond, TLAPS

BondSetting == Main \in Procs /\ MaxLoad \in Nat \ {0}

-----------------------------------------------------------------------------
(* Lists. *)
Once(s) == \A i, j \in DOMAIN s : s[i] = s[j] => i = j

\* A bond is pushed on the front of a list that does not have it.
LEMMA ListPush ==
  ASSUME NEW S, NEW s \in Seq(S), Once(s), NEW c \in S, c \notin Range(s)
  PROVE  /\ <<c>> \o s \in Seq(S) /\ Once(<<c>> \o s)
         /\ Range(<<c>> \o s) = Range(s) \cup {c}
<1> DEFINE r == <<c>> \o s
<1>1. /\ r \in Seq(S) /\ Len(r) = Len(s) + 1 /\ r[1] = c
      /\ \A i \in 2 .. Len(s) + 1 : r[i] = s[i - 1]
      /\ Len(s) \in Nat /\ DOMAIN s = 1 .. Len(s) /\ DOMAIN r = 1 .. Len(s) + 1
  OBVIOUS
<1> HIDE DEF r
<1>2. Once(r)
  <2> SUFFICES ASSUME NEW i \in DOMAIN r, NEW j \in DOMAIN r, r[i] = r[j]  PROVE i = j
    BY DEF Once
  <2>1. CASE i = 1
    <3>1. ASSUME j # 1 PROVE FALSE
      <4>1. j - 1 \in DOMAIN s /\ r[j] = s[j - 1]
        BY <1>1, <3>1
      <4>2. QED  BY <1>1, <2>1, <4>1 DEF Range
    <3>2. QED  BY <2>1, <3>1
  <2>2. CASE j = 1
    <3>1. ASSUME i # 1 PROVE FALSE
      <4>1. i - 1 \in DOMAIN s /\ r[i] = s[i - 1]
        BY <1>1, <3>1
      <4>2. QED  BY <1>1, <2>2, <4>1 DEF Range
    <3>2. QED  BY <2>2, <3>1
  <2>3. CASE i # 1 /\ j # 1
    <3>1. /\ i - 1 \in DOMAIN s /\ r[i] = s[i - 1] /\ i \in Nat
          /\ j - 1 \in DOMAIN s /\ r[j] = s[j - 1] /\ j \in Nat
      BY <1>1, <2>3
    <3>2. i - 1 = j - 1
      BY <3>1, Zenon DEF Once
    <3>3. QED  BY <3>1, <3>2
  <2>4. QED  BY <2>1, <2>2, <2>3
<1>3. Range(r) \subseteq Range(s) \cup {c}
  <2> SUFFICES ASSUME NEW i \in DOMAIN r  PROVE r[i] \in Range(s) \cup {c}
    BY DEF Range
  <2>1. CASE i = 1
    BY <1>1, <2>1
  <2>2. CASE i # 1
    <3>1. i - 1 \in DOMAIN s /\ r[i] = s[i - 1]
      BY <1>1, <2>2
    <3>2. QED  BY <3>1 DEF Range
  <2>3. QED  BY <2>1, <2>2
<1>4. Range(s) \cup {c} \subseteq Range(r)
  <2>1. c \in Range(r)
    BY <1>1 DEF Range
  <2>2. ASSUME NEW i \in DOMAIN s  PROVE s[i] \in Range(r)
    <3>1. i + 1 \in DOMAIN r /\ r[i + 1] = s[i]
      BY <1>1
    <3>2. QED  BY <3>1 DEF Range
  <2>3. QED  BY <2>1, <2>2 DEF Range
<1>5. QED  BY <1>1, <1>2, <1>3, <1>4 DEF r

\* An element leaves a list.
LEMMA ListUnlink ==
  ASSUME NEW S, NEW s \in Seq(S), Once(s), NEW c \in Range(s)
  PROVE  /\ unlink(s, c) \in Seq(S) /\ Once(unlink(s, c))
         /\ Range(unlink(s, c)) = Range(s) \ {c}
<1> DEFINE k == CHOOSE i \in DOMAIN s : s[i] = c
           r == [i \in 1 .. Len(s) - 1 |-> s[IF i < k THEN i ELSE i + 1]]
<1>1. k \in DOMAIN s /\ s[k] = c
  BY DEF Range
<1>2. unlink(s, c) = r
  BY DEF unlink
<1> HIDE DEF k
<1>3. /\ Len(s) \in Nat /\ DOMAIN s = 1 .. Len(s) /\ k \in 1 .. Len(s)
      /\ DOMAIN r = 1 .. Len(s) - 1
  BY <1>1
<1>4. \A i \in 1 .. Len(s) - 1 : /\ i < k => r[i] = s[i]
                                 /\ ~(i < k) => r[i] = s[i + 1]
                                 /\ i \in 1 .. Len(s) /\ i + 1 \in 1 .. Len(s)
  BY <1>3
<1> HIDE DEF r
<1>5. r \in Seq(S)
  <2>1. \A i \in 1 .. Len(s) - 1 : r[i] \in S
    BY <1>3, <1>4
  <2>2. r = [i \in 1 .. Len(s) - 1 |-> r[i]]
    BY DEF r
  <2>3. Len(s) - 1 \in Nat
    BY <1>3
  <2>4. QED  BY <2>1, <2>2, <2>3
<1>6. Once(r)
  <2> SUFFICES ASSUME NEW i \in DOMAIN r, NEW j \in DOMAIN r, r[i] = r[j]  PROVE i = j
    BY DEF Once
  <2> DEFINE a == IF i < k THEN i ELSE i + 1
             b == IF j < k THEN j ELSE j + 1
  <2>1. i \in Nat /\ j \in Nat /\ a \in DOMAIN s /\ b \in DOMAIN s /\ s[a] = s[b]
    BY <1>3, <1>4
  <2>2. a = b
    BY <2>1 DEF Once
  <2>3. QED  BY <1>3, <2>1, <2>2
<1>7. Range(r) \subseteq Range(s) \ {c}
  <2> SUFFICES ASSUME NEW i \in DOMAIN r  PROVE r[i] \in Range(s) /\ r[i] # c
    BY DEF Range
  <2> DEFINE a == IF i < k THEN i ELSE i + 1
  <2>1. a \in DOMAIN s /\ r[i] = s[a] /\ a # k
    BY <1>3, <1>4
  <2>2. QED  BY <1>1, <2>1 DEF Once, Range
<1>8. Range(s) \ {c} \subseteq Range(r)
  <2> SUFFICES ASSUME NEW i \in DOMAIN s, s[i] # c  PROVE s[i] \in Range(r)
    BY DEF Range
  <2> DEFINE a == IF i < k THEN i ELSE i - 1
  <2>1. a \in DOMAIN r /\ r[a] = s[i]
    BY <1>1, <1>3, <1>4
  <2>2. QED  BY <2>1 DEF Range
<1>9. QED  BY <1>2, <1>5, <1>6, <1>7, <1>8

\* The first element leaves a list.
LEMMA ListTail ==
  ASSUME NEW S, NEW s \in Seq(S), Once(s), s # << >>
  PROVE  /\ Tail(s) \in Seq(S) /\ Once(Tail(s))
         /\ Head(s) \in Range(s) /\ Range(Tail(s)) = Range(s) \ {Head(s)}
<1> DEFINE r == Tail(s)
<1>1. /\ Len(s) \in Nat \ {0} /\ DOMAIN s = 1 .. Len(s) /\ Head(s) = s[1]
      /\ r \in Seq(S) /\ Len(r) = Len(s) - 1 /\ DOMAIN r = 1 .. Len(s) - 1
      /\ \A i \in 1 .. Len(s) - 1 : r[i] = s[i + 1]
  OBVIOUS
<1> HIDE DEF r
<1>2. Once(r)
  <2> SUFFICES ASSUME NEW i \in DOMAIN r, NEW j \in DOMAIN r, r[i] = r[j]  PROVE i = j
    BY DEF Once
  <2>1. i \in Nat /\ j \in Nat /\ i + 1 \in DOMAIN s /\ j + 1 \in DOMAIN s /\ s[i + 1] = s[j + 1]
    BY <1>1
  <2>2. i + 1 = j + 1
    BY <2>1 DEF Once
  <2>3. QED  BY <2>1, <2>2
<1>3. Head(s) \in Range(s)
  BY <1>1 DEF Range
<1>4. Range(r) \subseteq Range(s) \ {Head(s)}
  <2> SUFFICES ASSUME NEW i \in DOMAIN r  PROVE r[i] \in Range(s) /\ r[i] # Head(s)
    BY DEF Range
  <2>1. i + 1 \in DOMAIN s /\ r[i] = s[i + 1] /\ i + 1 # 1 /\ 1 \in DOMAIN s
    BY <1>1
  <2>2. QED  BY <1>1, <2>1 DEF Once, Range
<1>5. Range(s) \ {Head(s)} \subseteq Range(r)
  <2> SUFFICES ASSUME NEW i \in DOMAIN s, s[i] # Head(s)  PROVE s[i] \in Range(r)
    BY DEF Range
  <2>1. i - 1 \in DOMAIN r /\ r[i - 1] = s[i]
    BY <1>1
  <2>2. QED  BY <2>1 DEF Range
<1>6. QED  BY <1>1, <1>2, <1>3, <1>4, <1>5 DEF r

-----------------------------------------------------------------------------
(* The invariant.  kids[p] is the set of bonds on the list of p; a process at  *)
(* a label of Taken has its target off the list already.                       *)
Labels == {"unborn", "dead"} \union Alive \union Exiting \union Astray
Gone == {"exit_up", "self_free", "dead", "wild"}
Taken == {"drop", "collect", "kid_free"}
AtHead == {"kid_unlink", "lost"}

kids == [p \in Procs |-> Range(children[p])]

Typed ==
  /\ bond \in [Procs -> Bond] /\ pc \in [Procs -> Labels]
  /\ target \in [Procs -> Procs \union {None}] /\ reap \in [Procs -> BOOLEAN]

Lists ==
  /\ children \in [Procs -> Seq(Procs \ {Main})]
  /\ \A p \in Procs : Once(children[p])
  /\ \A p \in Procs : pc[p] \in AtHead => children[p] # << >> /\ target[p] = Head(children[p])

OwnsOf(k, l, t, c) == c \in k \/ (l \in Taken /\ t = c)

\* Every bond is on one side only: one process has it listed or as its target.
Family ==
  /\ \A p \in Procs : pc[p] \in Gone \union {"unborn"} => kids[p] = {}
  /\ \A p \in Procs : pc[p] \in Waiting \union AtHead => target[p] \in kids[p]
  /\ \A p \in Procs : pc[p] \in Taken => target[p] \in Procs \ {Main} /\ target[p] \notin kids[p]
  /\ \A p, q, c \in Procs : OwnsOf(kids[p], pc[p], target[p], c)
                              /\ OwnsOf(kids[q], pc[q], target[q], c) => p = q
  /\ \A p, c \in Procs : OwnsOf(kids[p], pc[p], target[p], c) => pc[c] # "unborn"
  /\ pc[Main] \in {"user", "drop", "collect"} \union Waiting

\* The parent's side holds its reference; it has dropped the last one.
HoldsOf(k, l, t, c) == (c \in k /\ ~(l \in AtHead /\ t = c)) \/ (l = "drop" /\ t = c)
FreesOf(l, t, r, c) == r /\ t = c /\ l \in {"collect", "kid_unlink", "kid_free"}
Held == {c \in Procs : \E p \in Procs : HoldsOf(kids[p], pc[p], target[p], c)}
ToFree == {c \in Procs : \E p \in Procs : FreesOf(pc[p], target[p], reap[p], c)}

\* The child's side does.
KeepsOf(c, l) == c # Main /\ l \notin Gone \union {"unborn"}
OwnFree(l, r) == r /\ l \in {"exit_up", "self_free"}

\* The record b of c fits the sides that hold it: c is at l, its local reap is r,
\* H are the bonds held by parents, F those that parents are about to free.
Fits(c, b, l, r, H, F) ==
  /\ b.mem = "none" <=> c = Main \/ l = "unborn"
  /\ c \in H \/ KeepsOf(c, l) => b.mem = "live"
  /\ b.mem = "live" =>
       b.ref = (IF c \in H THEN 1 ELSE 0) + (IF KeepsOf(c, l) THEN 1 ELSE 0)
  /\ b.mem = "live" => c \in H \/ KeepsOf(c, l) \/ c \in F \/ OwnFree(l, r)
  /\ OwnFree(l, r) => b.mem = "live" /\ c \notin H /\ c \notin F
  /\ c \in F => b.mem = "live" /\ c \notin H /\ ~KeepsOf(c, l)
  /\ l \in {"exit_up", "self_free", "dead"} /\ r => c \notin H
  /\ b.exit > 0 => l \in {"self_free", "dead"}
  /\ l \in {"dup", "start"} => b.load < MaxLoad

Counted == \A c \in Procs : Fits(c, bond[c], pc[c], reap[c], Held, ToFree)

IInv == Typed /\ Lists /\ Family /\ Counted /\ WaitedChildIsZombie

\* The fit of a record depends on H and F only at its own process.
LEMMA FitsSame ==
  ASSUME NEW c, NEW b, NEW l, NEW r, NEW H, NEW F, NEW G, NEW E, Fits(c, b, l, r, H, F),
         c \in H <=> c \in G, c \in F <=> c \in E
  PROVE  Fits(c, b, l, r, G, E)
BY DEF Fits

Awake(l) == l \notin Gone \union {"unborn"}

\* A process awake on both ends of a step keeps its own side of its bond.
LEMMA FitsAwake ==
  ASSUME NEW c, NEW b, NEW l, NEW r, NEW H, NEW F, Fits(c, b, l, r, H, F), NEW a, NEW e,
         Awake(l), Awake(a), a \in {"dup", "start"} => b.load < MaxLoad
  PROVE  Fits(c, b, a, e, H, F)
BY DEF Fits, Awake, KeepsOf, OwnFree, Gone

-----------------------------------------------------------------------------
(* p goes to label a, with the list k, the target x and the local reap r,      *)
(* and nothing else moves but bonds.                                           *)
Steps(p, a, k, x, r) ==
  /\ pc'[p] = a /\ kids'[p] = k /\ target'[p] = x /\ reap'[p] = r
  /\ \A q \in Procs \ {p} : /\ pc'[q] = pc[q] /\ kids'[q] = kids[q]
                            /\ target'[q] = target[q] /\ reap'[q] = reap[q]

\* A step of p by which it takes over no bond keeps every bond with one owner.
LEMMA FamilyMove ==
  ASSUME BondSetting, Family, NEW p \in Procs, NEW a, NEW k, NEW x, NEW r, Steps(p, a, k, x, r),
         pc[p] # "unborn", a # "unborn", k \subseteq kids[p],
         p = Main => a \in {"user", "drop", "collect"} \union Waiting,
         a \in Gone => k = {},
         a \in Waiting \union AtHead => x \in k,
         a \in Taken => /\ x \in Procs \ {Main} /\ x \notin k
                        /\ OwnsOf(kids[p], pc[p], target[p], x)
  PROVE  Family'
<1>1. \A q, c \in Procs : OwnsOf(kids'[q], pc'[q], target'[q], c)
                            => OwnsOf(kids[q], pc[q], target[q], c)
  BY DEF OwnsOf, Steps
<1>2. \A c \in Procs : pc'[c] = "unborn" => pc[c] = "unborn"
  BY DEF Steps
<1>3. /\ \A q, h, c \in Procs : OwnsOf(kids'[q], pc'[q], target'[q], c)
                                 /\ OwnsOf(kids'[h], pc'[h], target'[h], c) => q = h
      /\ \A q, c \in Procs : OwnsOf(kids'[q], pc'[q], target'[q], c) => pc'[c] # "unborn"
  BY <1>1, <1>2 DEF Family
<1>4. \A q \in Procs : pc'[q] \in Gone \union {"unborn"} => kids'[q] = {}
  BY DEF Family, Steps
<1>5. \A q \in Procs : pc'[q] \in Waiting \union AtHead => target'[q] \in kids'[q]
  BY DEF Family, Steps
<1>6. \A q \in Procs : pc'[q] \in Taken => target'[q] \in Procs \ {Main} /\ target'[q] \notin kids'[q]
  BY DEF Family, Steps
<1>7. pc'[Main] \in {"user", "drop", "collect"} \union Waiting
  BY DEF Family, Steps, BondSetting
<1>8. QED  BY <1>3, <1>4, <1>5, <1>6, <1>7 DEF Family

\* Which bonds a parent's side holds, and which it is about to free, after a step.
LEMMA HeldStep ==
  ASSUME Family, NEW p \in Procs, NEW c \in Procs,
         \A q \in Procs \ {p} : HoldsOf(kids'[q], pc'[q], target'[q], c)
                                  <=> HoldsOf(kids[q], pc[q], target[q], c)
  PROVE  /\ (HoldsOf(kids'[p], pc'[p], target'[p], c) <=> HoldsOf(kids[p], pc[p], target[p], c))
              => (c \in Held' <=> c \in Held)
         /\ HoldsOf(kids'[p], pc'[p], target'[p], c) => c \in Held'
         /\ OwnsOf(kids[p], pc[p], target[p], c) /\ ~HoldsOf(kids'[p], pc'[p], target'[p], c)
              => c \notin Held'
<1>1. c \in Held' <=> \E q \in Procs : HoldsOf(kids'[q], pc'[q], target'[q], c)
  BY DEF Held
<1>2. c \in Held <=> \E q \in Procs : HoldsOf(kids[q], pc[q], target[q], c)
  BY DEF Held
<1>3. \A q \in Procs : HoldsOf(kids[q], pc[q], target[q], c) => OwnsOf(kids[q], pc[q], target[q], c)
  BY DEF HoldsOf, OwnsOf, Taken
<1>4. \A q \in Procs \ {p} : OwnsOf(kids[p], pc[p], target[p], c)
                              => ~OwnsOf(kids[q], pc[q], target[q], c)
  BY DEF Family
<1>5. QED  BY <1>1, <1>2, <1>3, <1>4

\* The same of the bonds that parents are about to free.
LEMMA FreeStep ==
  ASSUME Family, NEW p \in Procs, NEW c \in Procs,
         \A q \in Procs \ {p} : FreesOf(pc'[q], target'[q], reap'[q], c)
                                  <=> FreesOf(pc[q], target[q], reap[q], c)
  PROVE  /\ (FreesOf(pc'[p], target'[p], reap'[p], c) <=> FreesOf(pc[p], target[p], reap[p], c))
              => (c \in ToFree' <=> c \in ToFree)
         /\ FreesOf(pc'[p], target'[p], reap'[p], c) => c \in ToFree'
         /\ OwnsOf(kids[p], pc[p], target[p], c) /\ ~FreesOf(pc'[p], target'[p], reap'[p], c)
              => c \notin ToFree'
<1>1. c \in ToFree' <=> \E q \in Procs : FreesOf(pc'[q], target'[q], reap'[q], c)
  BY DEF ToFree
<1>2. c \in ToFree <=> \E q \in Procs : FreesOf(pc[q], target[q], reap[q], c)
  BY DEF ToFree
<1>3. \A q \in Procs : FreesOf(pc[q], target[q], reap[q], c) => OwnsOf(kids[q], pc[q], target[q], c)
  BY DEF FreesOf, OwnsOf, Taken, AtHead, Family
<1>4. \A q \in Procs \ {p} : OwnsOf(kids[p], pc[p], target[p], c)
                              => ~OwnsOf(kids[q], pc[q], target[q], c)
  BY DEF Family
<1>5. QED  BY <1>1, <1>2, <1>3, <1>4

\* Both lemmas for a step of p alone.
LEMMA SidesStep ==
  ASSUME Family, NEW p \in Procs, NEW a, NEW k, NEW x, NEW r, Steps(p, a, k, x, r), NEW c \in Procs
  PROVE  /\ (HoldsOf(k, a, x, c) <=> HoldsOf(kids[p], pc[p], target[p], c))
              => (c \in Held' <=> c \in Held)
         /\ HoldsOf(k, a, x, c) => c \in Held'
         /\ OwnsOf(kids[p], pc[p], target[p], c) /\ ~HoldsOf(k, a, x, c) => c \notin Held'
         /\ (FreesOf(a, x, r, c) <=> FreesOf(pc[p], target[p], reap[p], c))
              => (c \in ToFree' <=> c \in ToFree)
         /\ FreesOf(a, x, r, c) => c \in ToFree'
         /\ OwnsOf(kids[p], pc[p], target[p], c) /\ ~FreesOf(a, x, r, c) => c \notin ToFree'
<1>1. /\ \A q \in Procs \ {p} : HoldsOf(kids'[q], pc'[q], target'[q], c)
                                  <=> HoldsOf(kids[q], pc[q], target[q], c)
      /\ \A q \in Procs \ {p} : FreesOf(pc'[q], target'[q], reap'[q], c)
                                  <=> FreesOf(pc[q], target[q], reap[q], c)
      /\ kids'[p] = k /\ pc'[p] = a /\ target'[p] = x /\ reap'[p] = r
  BY DEF Steps
<1>2. QED  BY <1>1, HeldStep, FreeStep

\* A step of p that touches no bond but that of d.
Touches(p, a, k, x, r, d) ==
  /\ \A c \in Procs \ {d} :
       /\ bond'[c] = bond[c]
       /\ HoldsOf(k, a, x, c) <=> HoldsOf(kids[p], pc[p], target[p], c)
       /\ FreesOf(a, x, r, c) <=> FreesOf(pc[p], target[p], reap[p], c)
  /\ p # d => Fits(p, bond[p], a, r, Held, ToFree)
  /\ Fits(d, bond'[d], pc'[d], reap'[d], Held', ToFree')

LEMMA CountedStep ==
  ASSUME Family, Counted, NEW p \in Procs, NEW a, NEW k, NEW x, NEW r, Steps(p, a, k, x, r),
         NEW d \in Procs, Touches(p, a, k, x, r, d)
  PROVE  Counted'
<1> SUFFICES ASSUME NEW c \in Procs, c # d
             PROVE  Fits(c, bond'[c], pc'[c], reap'[c], Held', ToFree')
  BY DEF Counted, Touches
<1>1. /\ bond'[c] = bond[c]
      /\ HoldsOf(k, a, x, c) <=> HoldsOf(kids[p], pc[p], target[p], c)
      /\ FreesOf(a, x, r, c) <=> FreesOf(pc[p], target[p], reap[p], c)
  BY DEF Touches
<1>2. (c \in Held <=> c \in Held') /\ (c \in ToFree <=> c \in ToFree')
  BY <1>1, SidesStep
<1>3. Fits(c, bond[c], pc'[c], reap'[c], Held, ToFree)
  BY DEF Steps, Counted, Touches
<1>4. QED  BY <1>1, <1>2, <1>3, FitsSame

\* A step that does not wake a zombie keeps WaitedChildIsZombie.
LEMMA ZombieStep ==
  ASSUME Family, WaitedChildIsZombie,
         NEW p \in Procs, NEW a, NEW k, NEW x, NEW r, Steps(p, a, k, x, r),
         pc[p] \in {"self_free", "dead"} => a \in {"self_free", "dead"} /\ r = reap[p],
         a \in {"drop", "collect"} => pc'[x] \in {"self_free", "dead"} /\ ~reap'[x],
         a = "collect" => r
  PROVE  WaitedChildIsZombie'
<1>1. \A q \in Procs : pc[q] \in {"drop", "collect"} => target[q] \in Procs
  BY DEF Family, Taken
<1>2. QED  BY <1>1 DEF Steps, WaitedChildIsZombie

\* A step that leaves the lists alone keeps them well formed, ...
LEMMA ListsStep ==
  ASSUME Lists, NEW p \in Procs, NEW a, NEW k, NEW x, NEW r, Steps(p, a, k, x, r),
         children' = children,
         a \in AtHead => children[p] # << >> /\ x = Head(children[p])
  PROVE  Lists'
BY Zenon DEF Lists, Steps

\* ... and so does one that replaces the list of p.
LEMMA ListsCut ==
  ASSUME Lists, NEW p \in Procs, NEW a, NEW k, NEW x, NEW r, Steps(p, a, k, x, r),
         NEW s \in Seq(Procs \ {Main}), Once(s),
         children' = [children EXCEPT ![p] = s], a \notin AtHead
  PROVE  Lists'
<1>1. children' \in [Procs -> Seq(Procs \ {Main})] /\ \A q \in Procs : Once(children'[q])
  BY DEF Lists
<1>2. \A q \in Procs \ {p} : children'[q] = children[q]
  BY DEF Lists
<1>3. QED  BY <1>1, <1>2 DEF Lists, Steps

\* The step in terms of the variables.
LEMMA StepsFrom ==
  ASSUME Typed, Lists, NEW p \in Procs, NEW a, NEW x, NEW r, NEW s,
         pc' = [pc EXCEPT ![p] = a], target' = [target EXCEPT ![p] = x],
         reap' = [reap EXCEPT ![p] = r], children' = [children EXCEPT ![p] = s]
  PROVE  Steps(p, a, Range(s), x, r)
<1>1. /\ pc'[p] = a /\ target'[p] = x /\ reap'[p] = r
      /\ \A q \in Procs \ {p} : pc'[q] = pc[q] /\ target'[q] = target[q] /\ reap'[q] = reap[q]
  BY DEF Typed
<1>2. children'[p] = s /\ \A q \in Procs \ {p} : children'[q] = children[q]
  BY DEF Lists
<1>3. kids'[p] = Range(s) /\ \A q \in Procs \ {p} : kids'[q] = kids[q]
  BY <1>2 DEF kids
<1>4. QED  BY <1>1, <1>3 DEF Steps

\* The same when the lists stay.
LEMMA StepsStay ==
  ASSUME Typed, Lists, NEW p \in Procs, NEW a, NEW x, NEW r,
         pc' = [pc EXCEPT ![p] = a], target' = [target EXCEPT ![p] = x],
         reap' = [reap EXCEPT ![p] = r], children' = children
  PROVE  Steps(p, a, kids[p], x, r)
<1>1. children' = [children EXCEPT ![p] = children[p]]
  BY DEF Lists
<1>2. QED  BY <1>1, StepsFrom, Zenon DEF kids

\* A variable that does not change, as an update of p.
LEMMA Idle ==
  ASSUME Typed, NEW p \in Procs
  PROVE  target = [target EXCEPT ![p] = target[p]] /\ reap = [reap EXCEPT ![p] = reap[p]]
BY DEF Typed

\* A step within the types keeps them.
LEMMA TypedStep ==
  ASSUME Typed, NEW p \in Procs, NEW a \in Labels, NEW x \in Procs \union {None}, NEW r \in BOOLEAN,
         pc' = [pc EXCEPT ![p] = a], target' = [target EXCEPT ![p] = x],
         reap' = [reap EXCEPT ![p] = r], bond' \in [Procs -> Bond]
  PROVE  Typed'
BY Zenon DEF Typed

-----------------------------------------------------------------------------
(* Loading, sys_exec2 and sys_exit: p works for itself and its own bond keeps  *)
(* its counter and its memory.                                                 *)
Plain == {"dup", "start", "user", "kids"}

\* Such a step preserves the invariant.
LEMMA PlainStep ==
  ASSUME BondSetting, IInv, NEW p \in Procs, NEW a \in Plain, pc[p] \in Plain,
         p = Main => a = "user",
         pc' = [pc EXCEPT ![p] = a], UNCHANGED <<children, target, reap>>,
         bond' \in [Procs -> Bond],
         \A c \in Procs \ {p} : bond'[c] = bond[c],
         bond'[p].mem = bond[p].mem, bond'[p].ref = bond[p].ref, bond'[p].exit = bond[p].exit,
         a \in {"dup", "start"} => bond'[p].load < MaxLoad
  PROVE  IInv'
<1> DEFINE x == target[p]
           r == reap[p]
           k == kids[p]
<1>a. Typed /\ Lists /\ Family /\ Counted /\ WaitedChildIsZombie
  BY DEF IInv
<1>b. /\ a \notin Gone \union {"unborn"} \union Waiting \union AtHead \union Taken
      /\ pc[p] \notin Gone \union {"unborn"} \union Waiting \union AtHead \union Taken
      /\ a \in Labels
  BY DEF Plain, Gone, Waiting, AtHead, Taken, Labels, Alive, Exiting
<1>0. target' = [target EXCEPT ![p] = x] /\ reap' = [reap EXCEPT ![p] = r]
  BY <1>a, Idle
<1>1. Steps(p, a, k, x, r)
  BY <1>a, <1>0, StepsStay, Zenon
<1>2. Typed'
  <2>1. x \in Procs \union {None} /\ r \in BOOLEAN
    BY <1>a DEF Typed
  <2>2. QED  BY <1>a, <1>b, <1>0, <2>1, TypedStep, Zenon
<1>3. Lists'
  BY <1>a, <1>b, <1>1, ListsStep
<1>4. Family'
  BY <1>a, <1>b, <1>1, FamilyMove
<1>5. WaitedChildIsZombie'
  <2>1. a \notin {"drop", "collect"} /\ pc[p] \notin {"self_free", "dead"}
    BY DEF Plain
  <2>2. QED  BY <1>a, <1>1, <2>1, ZombieStep
<1>6. Counted'
  <2>1. \A c \in Procs : /\ HoldsOf(k, a, x, c) <=> HoldsOf(kids[p], pc[p], target[p], c)
                         /\ FreesOf(a, x, r, c) <=> FreesOf(pc[p], target[p], reap[p], c)
    BY DEF HoldsOf, FreesOf, Plain, AtHead
  <2>3. Fits(p, bond'[p], a, r, Held, ToFree)
    <3>1. Fits(p, bond[p], pc[p], reap[p], Held, ToFree)
      BY <1>a DEF Counted
    <3>2. ~(bond[p].exit > 0)
      BY <3>1 DEF Fits, Plain
    <3>3. QED  BY <1>b, <3>1, <3>2 DEF Fits, KeepsOf, OwnFree, Gone
  <2>4. (p \in Held <=> p \in Held') /\ (p \in ToFree <=> p \in ToFree')
    BY <1>a, <1>1, <2>1, SidesStep
  <2>5. Fits(p, bond'[p], a, r, Held', ToFree')
    BY <2>3, <2>4, FitsSame
  <2>6. pc'[p] = a /\ reap'[p] = r
    BY <1>1 DEF Steps
  <2>7. Touches(p, a, k, x, r, p)
    BY <2>1, <2>5, <2>6 DEF Touches
  <2>8. QED  BY <1>a, <1>1, <2>7, CountedStep
<1>7. QED  BY <1>2, <1>3, <1>4, <1>5, <1>6 DEF IInv

\* LoadOk, LoadFail, StartNoPage, sys_exec2 and sys_exit are such steps.
LEMMA Loads ==
  ASSUME BondSetting, IInv, NEW p \in Procs,
         LoadOk(p) \/ LoadFail(p) \/ StartNoPage(p) \/ sys_exec2(p) \/ sys_exit(p)
  PROVE  IInv'
<1>a. /\ bond \in [Procs -> Bond] /\ Fits(p, bond[p], pc[p], reap[p], Held, ToFree)
      /\ MaxLoad \in Nat
  BY DEF IInv, Typed, Counted, BondSetting
<1>b. pc[Main] \notin {"dup", "start"}
  BY DEF IInv, Family, Waiting
<1>c. /\ bond[p].load \in 0 .. MaxLoad /\ bond[p].exit \in 0 .. 1 /\ bond[p].load_fail \in BOOLEAN
      /\ pc[p] \in {"dup", "start"} => bond[p].load + 1 \in 0 .. MaxLoad
  BY <1>a DEF Bond, Fits
<1>1. CASE LoadOk(p)
  <2>1. /\ bond' = [bond EXCEPT ![p] = [bond[p] EXCEPT !.load_fail = FALSE, !.load = bond[p].load + 1]]
        /\ pc[p] \in {"dup", "start"}
    BY <1>a, <1>1, Zenon DEF LoadOk
  <2>2. bond' \in [Procs -> Bond]
    BY <1>a, <1>c, <2>1, Zenon DEF Bond
  <2>3. /\ \A c \in Procs \ {p} : bond'[c] = bond[c]
        /\ bond'[p].mem = bond[p].mem /\ bond'[p].ref = bond[p].ref /\ bond'[p].exit = bond[p].exit
    BY <1>a, <2>1 DEF Bond
  <2>4. QED  BY <1>1, <2>1, <2>2, <2>3, <1>b, PlainStep, Zenon DEF LoadOk, Plain
<1>2. CASE LoadFail(p)
  <2>1. /\ bond' = [bond EXCEPT ![p] = [bond[p] EXCEPT !.load = bond[p].load + 1]]
        /\ pc[p] \in {"dup", "start"}
    BY <1>a, <1>2 DEF LoadFail
  <2>2. bond' \in [Procs -> Bond]
    BY <1>a, <1>c, <2>1 DEF Bond
  <2>3. /\ \A c \in Procs \ {p} : bond'[c] = bond[c]
        /\ bond'[p].mem = bond[p].mem /\ bond'[p].ref = bond[p].ref /\ bond'[p].exit = bond[p].exit
    BY <1>a, <2>1 DEF Bond
  <2>4. QED  BY <1>2, <2>1, <2>2, <2>3, <1>b, PlainStep, Zenon DEF LoadFail, Plain
<1>3. CASE StartNoPage(p)
  BY <1>a, <1>b, <1>3, PlainStep, Zenon DEF StartNoPage, Plain
<1>4. CASE sys_exec2(p)
  BY <1>a, <1>b, <1>4, PlainStep, Zenon DEF sys_exec2, Plain
<1>5. CASE sys_exit(p)
  BY <1>a, <1>b, <1>5, PlainStep, Zenon DEF sys_exit, Plain
<1>6. QED  BY <1>1, <1>2, <1>3, <1>4, <1>5

-----------------------------------------------------------------------------
(* A parent's own steps.                                                       *)
\* The record of c is replaced.
LEMMA BondUpdate ==
  ASSUME bond \in [Procs -> Bond], NEW c \in Procs, NEW b \in Bond, bond' = [bond EXCEPT ![c] = b]
  PROVE  bond' \in [Procs -> Bond] /\ bond'[c] = b /\ \A d \in Procs \ {c} : bond'[d] = bond[d]
OBVIOUS

\* The parent is back from sema_down (load).
LEMMA LoadWaits ==
  ASSUME BondSetting, IInv, NEW p \in Procs, LoadWait(p)
  PROVE  IInv'
<1> DEFINE c == target[p]
           x == IF bond[c].load_fail THEN c ELSE None
           a == IF bond[c].load_fail THEN "fail_wait" ELSE "user"
           k == kids[p]
           r == reap[p]
           b == [bond[c] EXCEPT !.load = bond[c].load - 1]
<1>a. Typed /\ Lists /\ Family /\ Counted /\ WaitedChildIsZombie
  BY DEF IInv
<1>b. pc[p] = "load_wait" /\ bond[c].load > 0 /\ c \in kids[p]
  BY <1>a DEF LoadWait, Family, Waiting
<1>c. c \in Procs
  BY <1>a, <1>b DEF Lists, kids, Range
<1>d. bond \in [Procs -> Bond] /\ bond[c] \in Bond /\ bond[c].load \in 0 .. MaxLoad /\ MaxLoad \in Nat
  BY <1>a, <1>c DEF Typed, Bond, BondSetting
<1>e. bond' = [bond EXCEPT ![c] = b]
  BY <1>c, <1>d DEF LoadWait
<1>f. /\ b \in Bond /\ b.load < MaxLoad /\ b.load \in 0 .. MaxLoad
      /\ b.mem = bond[c].mem /\ b.ref = bond[c].ref /\ b.exit = bond[c].exit
  BY <1>b, <1>d DEF Bond
<1>0. pc' = [pc EXCEPT ![p] = a] /\ target' = [target EXCEPT ![p] = x] /\ reap' = [reap EXCEPT ![p] = r]
  BY <1>a, Idle DEF LoadWait
<1>g. a \in {"fail_wait", "user"} /\ (a = "fail_wait" => x \in k) /\ x \in Procs \union {None}
  BY <1>b, <1>c
<1> HIDE DEF a, x, b
<1>1. Steps(p, a, k, x, r)
  BY <1>a, <1>0, StepsStay, Zenon DEF LoadWait
<1>2. Typed'
  <2>1. r \in BOOLEAN /\ a \in Labels
    BY <1>a, <1>g DEF Typed, Labels, Alive, Waiting
  <2>2. bond' \in [Procs -> Bond]
    BY <1>c, <1>d, <1>e, <1>f, BondUpdate
  <2>3. QED  BY <1>a, <1>0, <1>g, <2>1, <2>2, TypedStep, Zenon
<1>3. Lists'
  BY <1>a, <1>1, <1>g, ListsStep DEF LoadWait, AtHead
<1>4. Family'
  <2>1. a \notin Gone \union {"unborn"} \union AtHead \union Taken /\ (a \in Waiting => x \in k)
    BY <1>g DEF Gone, AtHead, Taken, Waiting
  <2>2. a \in {"user", "drop", "collect"} \union Waiting
    BY <1>g DEF Waiting
  <2>3. QED  BY <1>a, <1>b, <1>1, <2>1, <2>2, FamilyMove
<1>5. WaitedChildIsZombie'
  BY <1>a, <1>b, <1>1, <1>g, ZombieStep
<1>6. Counted'
  <2>1. \A e \in Procs : /\ HoldsOf(k, a, x, e) <=> HoldsOf(kids[p], pc[p], target[p], e)
                         /\ FreesOf(a, x, r, e) <=> FreesOf(pc[p], target[p], reap[p], e)
    BY <1>b, <1>g DEF HoldsOf, FreesOf, AtHead
  <2>2. Fits(p, bond[p], a, r, Held, ToFree)
    <3>1. Fits(p, bond[p], pc[p], reap[p], Held, ToFree)
      BY <1>a DEF Counted
    <3>2. Awake(pc[p]) /\ Awake(a) /\ a \notin {"dup", "start"}
      BY <1>b, <1>g DEF Awake, Gone
    <3>3. QED  BY <3>1, <3>2, FitsAwake
  <2>3. Fits(c, bond[c], pc'[c], reap'[c], Held, ToFree)
    BY <1>a, <1>c, <1>1, <2>2 DEF Counted, Steps
  <2>4. Fits(c, bond'[c], pc'[c], reap'[c], Held, ToFree)
    <3>1. bond'[c] = b
      BY <1>c, <1>d, <1>e, <1>f, BondUpdate
    <3>2. QED  BY <1>f, <2>3, <3>1 DEF Fits
  <2>5. (c \in Held <=> c \in Held') /\ (c \in ToFree <=> c \in ToFree')
    BY <1>a, <1>c, <1>1, <2>1, SidesStep
  <2>6. Fits(c, bond'[c], pc'[c], reap'[c], Held', ToFree')
    BY <2>4, <2>5, FitsSame
  <2>7. \A d \in Procs \ {c} : bond'[d] = bond[d]
    BY <1>c, <1>d, <1>e, <1>f, BondUpdate
  <2>8. Touches(p, a, k, x, r, c)
    BY <2>1, <2>2, <2>6, <2>7 DEF Touches
  <2>9. QED  BY <1>a, <1>c, <1>1, <2>8, CountedStep
<1>7. QED  BY <1>2, <1>3, <1>4, <1>5, <1>6 DEF IInv

\* process_wait finds the child on its list.
LEMMA WaitStarts ==
  ASSUME BondSetting, IInv, NEW p \in Procs, NEW c \in Procs, process_wait(p, c)
  PROVE  IInv'
<1> DEFINE a == "exit_wait"
           k == kids[p]
           r == reap[p]
<1>a. Typed /\ Lists /\ Family /\ Counted /\ WaitedChildIsZombie
  BY DEF IInv
<1>b. pc[p] = "user" /\ c \in kids[p] /\ bond' = bond
  BY DEF process_wait, find_child, kids
<1>0. pc' = [pc EXCEPT ![p] = a] /\ target' = [target EXCEPT ![p] = c] /\ reap' = [reap EXCEPT ![p] = r]
  BY <1>a, Idle DEF process_wait
<1>1. Steps(p, a, k, c, r)
  BY <1>a, <1>0, StepsStay, Zenon DEF process_wait
<1>2. Typed'
  <2>1. r \in BOOLEAN /\ a \in Labels /\ bond' \in [Procs -> Bond]
    BY <1>a, <1>b DEF Typed, Labels, Alive, Waiting
  <2>2. QED  BY <1>a, <1>0, <2>1, TypedStep, Zenon
<1>3. Lists'
  BY <1>a, <1>1, ListsStep DEF process_wait, AtHead
<1>4. Family'
  <2>1. a \notin Gone \union {"unborn"} \union AtHead \union Taken /\ a \in Waiting
    BY DEF Gone, AtHead, Taken, Waiting
  <2>2. QED  BY <1>a, <1>b, <1>1, <2>1, FamilyMove
<1>5. WaitedChildIsZombie'
  BY <1>a, <1>b, <1>1, ZombieStep
<1>6. Counted'
  <2>1. \A e \in Procs : /\ HoldsOf(k, a, c, e) <=> HoldsOf(kids[p], pc[p], target[p], e)
                         /\ FreesOf(a, c, r, e) <=> FreesOf(pc[p], target[p], reap[p], e)
    BY <1>b DEF HoldsOf, FreesOf, AtHead
  <2>2. Fits(p, bond[p], a, r, Held, ToFree)
    <3>1. Fits(p, bond[p], pc[p], reap[p], Held, ToFree)
      BY <1>a DEF Counted
    <3>2. Awake(pc[p]) /\ Awake(a)
      BY <1>b DEF Awake, Gone
    <3>3. QED  BY <3>1, <3>2, FitsAwake
  <2>3. (p \in Held <=> p \in Held') /\ (p \in ToFree <=> p \in ToFree')
    BY <1>a, <1>1, <2>1, SidesStep
  <2>4. Fits(p, bond'[p], pc'[p], reap'[p], Held', ToFree')
    BY <1>b, <1>1, <2>2, <2>3, FitsSame DEF Steps
  <2>5. Touches(p, a, k, c, r, p)
    BY <1>b, <2>1, <2>4 DEF Touches
  <2>6. QED  BY <1>a, <1>1, <2>5, CountedStep
<1>7. QED  BY <1>2, <1>3, <1>4, <1>5, <1>6 DEF IInv

\* A parent that stays awake: how the record of any child fits before its own
\* step counts, and what is left to show of the child it works on.
LEMMA ParentSees ==
  ASSUME Family, Counted, NEW p \in Procs, NEW a, NEW k, NEW x, NEW r, Steps(p, a, k, x, r),
         Awake(pc[p]), Awake(a), a \notin {"dup", "start"}
  PROVE  /\ Fits(p, bond[p], a, r, Held, ToFree)
         /\ \A c \in Procs : Fits(c, bond[c], pc'[c], reap'[c], Held, ToFree)
<1>1. Fits(p, bond[p], pc[p], reap[p], Held, ToFree)
  BY DEF Counted
<1>2. Fits(p, bond[p], a, r, Held, ToFree)
  BY <1>1, FitsAwake
<1>3. QED  BY <1>2 DEF Counted, Steps

\* A parent that stays awake and replaces the record of one child.
LEMMA ParentStep ==
  ASSUME Family, Counted, NEW p \in Procs, NEW a, NEW k, NEW x, NEW r, Steps(p, a, k, x, r),
         Awake(pc[p]), Awake(a), a \notin {"dup", "start"},
         NEW c \in Procs, NEW b \in Bond, bond \in [Procs -> Bond], bond' = [bond EXCEPT ![c] = b],
         \A e \in Procs \ {c} :
            /\ HoldsOf(k, a, x, e) <=> HoldsOf(kids[p], pc[p], target[p], e)
            /\ FreesOf(a, x, r, e) <=> FreesOf(pc[p], target[p], reap[p], e),
         Fits(c, b, pc'[c], reap'[c], Held', ToFree')
  PROVE  Counted'
<1>1. bond'[c] = b /\ \A d \in Procs \ {c} : bond'[d] = bond[d]
  BY BondUpdate
<1>2. Fits(p, bond[p], a, r, Held, ToFree)
  BY ParentSees
<1>3. /\ Fits(c, bond'[c], pc'[c], reap'[c], Held', ToFree')
      /\ p # c => Fits(p, bond[p], a, r, Held, ToFree)
  BY <1>1, <1>2
<1>4. \A e \in Procs \ {c} :
        /\ bond'[e] = bond[e]
        /\ HoldsOf(k, a, x, e) <=> HoldsOf(kids[p], pc[p], target[p], e)
        /\ FreesOf(a, x, r, e) <=> FreesOf(pc[p], target[p], reap[p], e)
  BY <1>1
<1>5. Touches(p, a, k, x, r, c)
  BY <1>3, <1>4 DEF Touches
<1>6. QED  BY <1>5, CountedStep

\* The parent frees the bond of a child that could not load: the child has
\* signalled exit and is not to free it.
LEMMA FailWaits ==
  ASSUME BondSetting, IInv, NEW p \in Procs, FailWait(p)
  PROVE  IInv'
<1> DEFINE c == target[p]
           a == "user"
           s == unlink(children[p], c)
           k == Range(s)
           r == reap[p]
           b == [bond[c] EXCEPT !.exit = bond[c].exit - 1, !.mem = "freed"]
<1>a. Typed /\ Lists /\ Family /\ Counted /\ WaitedChildIsZombie
  BY DEF IInv
<1>b. pc[p] = "fail_wait" /\ bond[c].exit > 0 /\ c \in kids[p]
  BY <1>a DEF FailWait, Family, Waiting
<1>c. c \in Procs
  BY <1>a, <1>b DEF Lists, kids, Range
<1>d. bond \in [Procs -> Bond] /\ bond[c] \in Bond /\ bond[c].exit \in 0 .. 1
  BY <1>a, <1>c DEF Typed, Bond
<1>e. bond' = [bond EXCEPT ![c] = b]
  BY <1>c, <1>d, Zenon DEF FailWait
<1>f. b \in Bond /\ b.mem = "freed" /\ b.exit = bond[c].exit - 1 /\ b.load = bond[c].load
  <2>1. bond[c].exit - 1 \in 0 .. 1
    BY <1>b, <1>d
  <2>2. QED  BY <1>d, <2>1, Zenon DEF Bond
<1>g. s \in Seq(Procs \ {Main}) /\ Once(s) /\ k = kids[p] \ {c}
  <2>1. children[p] \in Seq(Procs \ {Main}) /\ Once(children[p]) /\ c \in Range(children[p])
    BY <1>a, <1>b DEF Lists, kids
  <2>2. QED  BY <2>1, ListUnlink DEF kids
<1>0. /\ pc' = [pc EXCEPT ![p] = a] /\ target' = [target EXCEPT ![p] = None]
      /\ reap' = [reap EXCEPT ![p] = r] /\ children' = [children EXCEPT ![p] = s]
  BY <1>a, Idle DEF FailWait
<1> HIDE DEF s, b
<1>1. Steps(p, a, k, None, r)
  BY <1>a, <1>0, StepsFrom, Zenon
<1>2. Typed'
  <2>1. r \in BOOLEAN /\ a \in Labels
    BY <1>a DEF Typed, Labels, Alive
  <2>2. bond' \in [Procs -> Bond]
    BY <1>c, <1>d, <1>e, <1>f, BondUpdate
  <2>3. QED  BY <1>a, <1>0, <2>1, <2>2, TypedStep, Zenon
<1>3. Lists'
  <2>1. a \notin AtHead
    BY DEF AtHead
  <2>2. QED  BY <1>a, <1>0, <1>1, <1>g, <2>1, ListsCut, Zenon
<1>4. Family'
  <2>1. a \notin Gone \union {"unborn"} \union AtHead \union Taken \union Waiting
    BY DEF Gone, AtHead, Taken, Waiting
  <2>2. QED  BY <1>a, <1>b, <1>g, <1>1, <2>1, FamilyMove
<1>5. WaitedChildIsZombie'
  BY <1>a, <1>b, <1>1, ZombieStep
<1>6. Counted'
  <2>1. \A e \in Procs \ {c} : /\ HoldsOf(k, a, None, e) <=> HoldsOf(kids[p], pc[p], target[p], e)
                               /\ FreesOf(a, None, r, e) <=> FreesOf(pc[p], target[p], reap[p], e)
    BY <1>b, <1>g DEF HoldsOf, FreesOf, AtHead
  <2>2. /\ HoldsOf(kids[p], pc[p], target[p], c) /\ ~HoldsOf(k, a, None, c)
        /\ OwnsOf(kids[p], pc[p], target[p], c) /\ ~FreesOf(a, None, r, c)
    BY <1>b, <1>g DEF HoldsOf, OwnsOf, AtHead, FreesOf
  <2>3. c \notin Held' /\ c \notin ToFree'
    BY <1>a, <1>c, <1>1, <2>2, SidesStep
  <2>4. c \in Held
    BY <1>c, <2>2 DEF Held
  <2>5. Awake(pc[p]) /\ Awake(a)
    BY <1>b DEF Awake, Gone
  <2>6. Fits(c, bond[c], pc'[c], reap'[c], Held, ToFree)
    BY <1>a, <1>c, <1>1, <2>5, ParentSees
  <2>7. Fits(c, b, pc'[c], reap'[c], Held', ToFree')
    <3>1. pc'[c] \in {"self_free", "dead"} /\ ~(pc'[c] = "self_free" /\ reap'[c])
          /\ bond[c].mem = "live"
      BY <1>b, <2>4, <2>6 DEF Fits
    <3>2. c # Main
      BY <2>6, <3>1 DEF Fits
    <3>3. ~KeepsOf(c, pc'[c]) /\ ~OwnFree(pc'[c], reap'[c])
      BY <3>1 DEF KeepsOf, OwnFree, Gone
    <3>4. QED  BY <1>d, <1>f, <2>3, <3>1, <3>2, <3>3 DEF Fits
  <2>8. a \notin {"dup", "start"}
    OBVIOUS
  <2> HIDE DEF a, k, r
  <2>9. QED  BY <1>a, <1>c, <1>d, <1>e, <1>f, <1>1, <2>1, <2>5, <2>7, <2>8, ParentStep, Zenon
<1>7. QED  BY <1>2, <1>3, <1>4, <1>5, <1>6 DEF IInv

\* process_wait is back from sema_down (exit): the child is a zombie.
LEMMA WaitDowns ==
  ASSUME BondSetting, IInv, NEW p \in Procs, WaitDown(p)
  PROVE  IInv'
<1> DEFINE c == target[p]
           a == "drop"
           s == unlink(children[p], c)
           k == Range(s)
           r == reap[p]
           b == [bond[c] EXCEPT !.exit = bond[c].exit - 1]
<1>a. Typed /\ Lists /\ Family /\ Counted /\ WaitedChildIsZombie
  BY DEF IInv
<1>b. pc[p] = "exit_wait" /\ bond[c].exit > 0 /\ c \in kids[p]
  BY <1>a DEF WaitDown, Family, Waiting
<1>c. c \in Procs \ {Main}
  BY <1>a, <1>b DEF Lists, kids, Range
<1>d. bond \in [Procs -> Bond] /\ bond[c] \in Bond /\ bond[c].exit \in 0 .. 1
  BY <1>a, <1>c DEF Typed, Bond
<1>e. bond' = [bond EXCEPT ![c] = b]
  BY <1>c, <1>d DEF WaitDown
<1>f. /\ b \in Bond /\ b.mem = bond[c].mem /\ b.ref = bond[c].ref
      /\ b.exit = bond[c].exit - 1 /\ b.load = bond[c].load
  BY <1>b, <1>d DEF Bond
<1>g. s \in Seq(Procs \ {Main}) /\ Once(s) /\ k = kids[p] \ {c}
  <2>1. children[p] \in Seq(Procs \ {Main}) /\ Once(children[p]) /\ c \in Range(children[p])
    BY <1>a, <1>b DEF Lists, kids
  <2>2. QED  BY <2>1, ListUnlink DEF kids
<1>0. /\ pc' = [pc EXCEPT ![p] = a] /\ target' = [target EXCEPT ![p] = c]
      /\ reap' = [reap EXCEPT ![p] = r] /\ children' = [children EXCEPT ![p] = s]
  BY <1>a, Idle DEF WaitDown
<1> HIDE DEF s, b
<1>1. Steps(p, a, k, c, r)
  BY <1>a, <1>0, StepsFrom, Zenon
<1>2. Typed'
  <2>1. r \in BOOLEAN /\ a \in Labels
    BY <1>a DEF Typed, Labels, Alive
  <2>2. bond' \in [Procs -> Bond]
    BY <1>c, <1>d, <1>e, <1>f, BondUpdate
  <2>3. QED  BY <1>a, <1>c, <1>0, <2>1, <2>2, TypedStep, Zenon
<1>3. Lists'
  <2>1. a \notin AtHead
    BY DEF AtHead
  <2>2. QED  BY <1>a, <1>0, <1>1, <1>g, <2>1, ListsCut, Zenon
<1>4. Family'
  <2>1. a \notin Gone \union {"unborn"} \union AtHead \union Waiting
        /\ OwnsOf(kids[p], pc[p], target[p], c)
    BY <1>b DEF Gone, AtHead, Waiting, OwnsOf
  <2>2. QED  BY <1>a, <1>b, <1>c, <1>g, <1>1, <2>1, FamilyMove
<1>5. \A e \in Procs : /\ HoldsOf(k, a, c, e) <=> HoldsOf(kids[p], pc[p], target[p], e)
                       /\ FreesOf(a, c, r, e) <=> FreesOf(pc[p], target[p], reap[p], e)
  BY <1>b, <1>g DEF HoldsOf, FreesOf, AtHead
<1>6. Awake(pc[p]) /\ Awake(a)
  BY <1>b DEF Awake, Gone
<1>7. Fits(c, bond[c], pc'[c], reap'[c], Held, ToFree)
  BY <1>a, <1>c, <1>1, <1>6, ParentSees
<1>8. c \in Held
  BY <1>b, <1>c DEF Held, HoldsOf, AtHead
<1>9. WaitedChildIsZombie'
  <2>1. pc'[c] \in {"self_free", "dead"} /\ ~reap'[c]
    BY <1>b, <1>7, <1>8, Zenon DEF Fits
  <2>2. QED  BY <1>a, <1>b, <1>1, <2>1, ZombieStep
<1>10. Counted'
  <2>1. (c \in Held <=> c \in Held') /\ (c \in ToFree <=> c \in ToFree')
    BY <1>a, <1>c, <1>1, <1>5, SidesStep, Zenon
  <2>2. Fits(c, b, pc'[c], reap'[c], Held, ToFree)
    BY <1>b, <1>d, <1>f, <1>7, Zenon DEF Fits
  <2>3. Fits(c, b, pc'[c], reap'[c], Held', ToFree')
    BY <2>1, <2>2, FitsSame
  <2>4. QED  BY <1>a, <1>c, <1>d, <1>e, <1>f, <1>1, <1>5, <1>6, <2>3, ParentStep, Zenon
<1>11. QED  BY <1>2, <1>3, <1>4, <1>9, <1>10 DEF IInv

\* The parent's side drops its reference: it is to free the bond iff that was
\* the last one, and then the child has gone.
LEMMA DropFits ==
  ASSUME NEW c, NEW b \in Bond, NEW l, NEW s, NEW H, NEW F, Fits(c, b, l, s, H, F), c \in H,
         NEW G, NEW E, c \notin G, c \in E <=> b.ref - 1 = 0
  PROVE  /\ Fits(c, [b EXCEPT !.ref = b.ref - 1], l, s, G, E)
         /\ [b EXCEPT !.ref = b.ref - 1] \in Bond
         /\ b.ref - 1 = 0 <=> ~KeepsOf(c, l)
<1> DEFINE d == [b EXCEPT !.ref = b.ref - 1]
<1>1. b.mem = "live" /\ b.ref = 1 + (IF KeepsOf(c, l) THEN 1 ELSE 0) /\ ~OwnFree(l, s)
  BY DEF Fits
<1>2. b.ref - 1 = 0 <=> ~KeepsOf(c, l)
  BY <1>1
<1>3. b.ref - 1 = (IF KeepsOf(c, l) THEN 1 ELSE 0) /\ b.ref - 1 \in -1 .. 2
  BY <1>1
<1>4. /\ d \in Bond /\ d.mem = b.mem /\ d.ref = b.ref - 1 /\ d.exit = b.exit /\ d.load = b.load
  BY <1>3 DEF Bond
<1> HIDE DEF d
<1>5. Fits(c, d, l, s, G, E)
  BY <1>1, <1>2, <1>3, <1>4 DEF Fits
<1>6. QED  BY <1>2, <1>4, <1>5 DEF d

\* process_wait drops its reference, the last one.
LEMMA WaitDrops ==
  ASSUME BondSetting, IInv, NEW p \in Procs, WaitDrop(p)
  PROVE  IInv'
<1> DEFINE c == target[p]
           a == "collect"
           k == kids[p]
           r == bond[c].ref - 1 = 0
           b == [bond[c] EXCEPT !.ref = bond[c].ref - 1]
<1>a. Typed /\ Lists /\ Family /\ Counted /\ WaitedChildIsZombie
  BY DEF IInv
<1>b. pc[p] = "drop" /\ c \in Procs \ {Main} /\ c \notin kids[p]
  BY <1>a DEF WaitDrop, Family, Taken
<1>c. pc[c] \in {"self_free", "dead"} /\ ~reap[c] /\ c # p
  BY <1>a, <1>b DEF WaitedChildIsZombie
<1>d. bond \in [Procs -> Bond] /\ bond[c] \in Bond
  BY <1>a, <1>b DEF Typed
<1>e. bond' = [bond EXCEPT ![c] = b]
  BY <1>b, <1>d DEF WaitDrop, is_orphan_or_zombie
<1>0. /\ pc' = [pc EXCEPT ![p] = a] /\ target' = [target EXCEPT ![p] = c]
      /\ reap' = [reap EXCEPT ![p] = r] /\ children' = children
  BY <1>a, Idle DEF WaitDrop, is_orphan_or_zombie
<1>1. Steps(p, a, k, c, r)
  BY <1>a, <1>0, StepsStay, Zenon
<1>2. Awake(pc[p]) /\ Awake(a) /\ a \notin {"dup", "start"}
  BY <1>b DEF Awake, Gone
<1>3. /\ HoldsOf(kids[p], pc[p], target[p], c) /\ ~HoldsOf(k, a, c, c)
      /\ OwnsOf(kids[p], pc[p], target[p], c) /\ (FreesOf(a, c, r, c) <=> r)
  BY <1>b DEF HoldsOf, OwnsOf, FreesOf, Taken
<1>4. c \in Held /\ c \notin Held' /\ (c \in ToFree' <=> r)
  <2>1. c \in Held
    BY <1>b, <1>3 DEF Held
  <2>2. QED  BY <1>a, <1>b, <1>1, <1>3, <2>1, SidesStep, Zenon
<1>5. Fits(c, bond[c], pc'[c], reap'[c], Held, ToFree)
  BY <1>a, <1>b, <1>1, <1>2, ParentSees
<1>6. /\ Fits(c, b, pc'[c], reap'[c], Held', ToFree') /\ b \in Bond
      /\ r <=> ~KeepsOf(c, pc'[c])
  BY <1>d, <1>4, <1>5, DropFits, Zenon
<1>7. pc'[c] = pc[c] /\ reap'[c] = reap[c] /\ r
  <2>1. pc'[c] = pc[c] /\ reap'[c] = reap[c]
    BY <1>b, <1>c, <1>1 DEF Steps
  <2>2. QED  BY <1>c, <1>6, <2>1 DEF KeepsOf, Gone
<1> HIDE DEF b, r
<1>8. Typed'
  <2>1. r \in BOOLEAN /\ a \in Labels
    BY DEF r, Labels, Alive
  <2>2. bond' \in [Procs -> Bond]
    BY <1>b, <1>d, <1>e, <1>6, BondUpdate
  <2>3. QED  BY <1>a, <1>b, <1>0, <2>1, <2>2, TypedStep, Zenon
<1>9. Lists'
  <2>1. a \notin AtHead
    BY DEF AtHead
  <2>2. QED  BY <1>a, <1>0, <1>1, <2>1, ListsStep
<1>10. Family'
  <2>1. a \notin Gone \union {"unborn"} \union AtHead \union Waiting
    BY DEF Gone, AtHead, Waiting
  <2>2. QED  BY <1>a, <1>b, <1>1, <1>3, <2>1, FamilyMove
<1>11. WaitedChildIsZombie'
  BY <1>a, <1>b, <1>c, <1>1, <1>7, ZombieStep, Zenon
<1>12. Counted'
  <2>1. \A e \in Procs \ {c} : /\ HoldsOf(k, a, c, e) <=> HoldsOf(kids[p], pc[p], target[p], e)
                               /\ FreesOf(a, c, r, e) <=> FreesOf(pc[p], target[p], reap[p], e)
    BY <1>b DEF HoldsOf, FreesOf, AtHead
  <2> HIDE DEF a, k
  <2>2. QED  BY <1>a, <1>b, <1>d, <1>e, <1>1, <1>2, <1>6, <2>1, ParentStep, Zenon
<1>13. QED  BY <1>8, <1>9, <1>10, <1>11, <1>12 DEF IInv

\* process_exit drops its reference to a child.
LEMMA ExitDropsChild ==
  ASSUME BondSetting, IInv, NEW p \in Procs, ExitChild(p)
  PROVE  IInv'
<1> DEFINE c == Head(children[p])
           a == "kid_unlink"
           k == kids[p]
           r == bond[c].ref - 1 = 0
           b == [bond[c] EXCEPT !.ref = bond[c].ref - 1]
<1>a. Typed /\ Lists /\ Family /\ Counted /\ WaitedChildIsZombie
  BY DEF IInv
<1>b. pc[p] = "kids" /\ children[p] # << >> /\ children[p] \in Seq(Procs \ {Main})
  BY <1>a DEF ExitChild, Lists
<1>c. c \in kids[p] /\ c \in Procs \ {Main} /\ p # Main
  <2>1. 1 \in DOMAIN children[p] /\ c = children[p][1] /\ c \in Procs \ {Main}
    BY <1>b
  <2>2. QED  BY <1>a, <1>b, <2>1 DEF kids, Range, Family, Waiting
<1>d. bond \in [Procs -> Bond] /\ bond[c] \in Bond
  BY <1>a, <1>c DEF Typed
<1>e. bond' = [bond EXCEPT ![c] = b]
  BY <1>c, <1>d DEF ExitChild, is_orphan_or_zombie
<1>0. /\ pc' = [pc EXCEPT ![p] = a] /\ target' = [target EXCEPT ![p] = c]
      /\ reap' = [reap EXCEPT ![p] = r] /\ children' = children
  BY DEF ExitChild, is_orphan_or_zombie
<1> HIDE DEF c
<1>1. Steps(p, a, k, c, r)
  BY <1>a, <1>0, StepsStay, Zenon
<1>2. Awake(pc[p]) /\ Awake(a) /\ a \notin {"dup", "start"}
  BY <1>b DEF Awake, Gone
<1>3. /\ HoldsOf(kids[p], pc[p], target[p], c) /\ ~HoldsOf(k, a, c, c)
      /\ OwnsOf(kids[p], pc[p], target[p], c) /\ (FreesOf(a, c, r, c) <=> r)
  BY <1>b, <1>c DEF HoldsOf, OwnsOf, FreesOf, AtHead
<1>4. c \in Held /\ c \notin Held' /\ (c \in ToFree' <=> r)
  <2>1. c \in Held
    BY <1>c, <1>3 DEF Held
  <2>2. QED  BY <1>a, <1>c, <1>1, <1>3, <2>1, SidesStep, Zenon
<1>5. Fits(c, bond[c], pc'[c], reap'[c], Held, ToFree)
  BY <1>a, <1>c, <1>1, <1>2, ParentSees
<1>6. Fits(c, b, pc'[c], reap'[c], Held', ToFree') /\ b \in Bond
  BY <1>d, <1>4, <1>5, DropFits
<1> HIDE DEF b, r
<1>7. Typed'
  <2>1. r \in BOOLEAN /\ a \in Labels
    BY DEF r, Labels, Exiting
  <2>2. bond' \in [Procs -> Bond]
    BY <1>c, <1>d, <1>e, <1>6, BondUpdate
  <2>3. QED  BY <1>a, <1>c, <1>0, <2>1, <2>2, TypedStep, Zenon
<1>8. Lists'
  BY <1>a, <1>b, <1>0, <1>1, ListsStep DEF c
<1>9. Family'
  <2>1. a \notin Gone \union {"unborn"} \union Taken
    BY DEF Gone, Taken
  <2>2. QED  BY <1>a, <1>b, <1>c, <1>1, <2>1, FamilyMove
<1>10. WaitedChildIsZombie'
  BY <1>a, <1>b, <1>1, ZombieStep
<1>11. Counted'
  <2>1. \A e \in Procs \ {c} : /\ HoldsOf(k, a, c, e) <=> HoldsOf(kids[p], pc[p], target[p], e)
                               /\ FreesOf(a, c, r, e) <=> FreesOf(pc[p], target[p], reap[p], e)
    BY <1>b DEF HoldsOf, FreesOf, AtHead
  <2> HIDE DEF a, k
  <2>2. QED  BY <1>a, <1>c, <1>d, <1>e, <1>1, <1>2, <1>6, <2>1, ParentStep, Zenon
<1>12. QED  BY <1>7, <1>8, <1>9, <1>10, <1>11 DEF IInv

\* process_wait and the loop of process_exit end with if (reap) free (bond).
LEMMA ParentFrees ==
  ASSUME BondSetting, IInv, NEW p \in Procs, WaitCollect(p) \/ ExitChildFree(p)
  PROVE  IInv'
<1> DEFINE c == target[p]
           a == IF pc[p] = "collect" THEN "user" ELSE "kids"
           k == kids[p]
           r == reap[p]
           b == IF r THEN [bond[c] EXCEPT !.mem = "freed"] ELSE bond[c]
<1>a. Typed /\ Lists /\ Family /\ Counted /\ WaitedChildIsZombie
  BY DEF IInv
<1>b. pc[p] \in {"collect", "kid_free"} /\ c \in Procs \ {Main} /\ c \notin kids[p]
  BY <1>a DEF WaitCollect, ExitChildFree, Family, Taken
<1>d. bond \in [Procs -> Bond] /\ bond[c] \in Bond /\ b \in Bond
  BY <1>a, <1>b DEF Typed, Bond
<1>e. bond' = [bond EXCEPT ![c] = b]
  BY <1>b, <1>d DEF WaitCollect, ExitChildFree, FreeIfReap
<1>f. a \in {"user", "kids"} /\ (p = Main => a = "user")
  BY <1>a, <1>b DEF Family, Waiting
<1>0. /\ pc' = [pc EXCEPT ![p] = a] /\ target' = [target EXCEPT ![p] = None]
      /\ reap' = [reap EXCEPT ![p] = r] /\ children' = children
  BY <1>a, Idle DEF WaitCollect, ExitChildFree
<1> HIDE DEF a
<1>1. Steps(p, a, k, None, r)
  BY <1>a, <1>0, StepsStay, Zenon
<1>2. Awake(pc[p]) /\ Awake(a) /\ a \notin {"dup", "start"}
  BY <1>b, <1>f DEF Awake, Gone
<1>3. /\ ~HoldsOf(kids[p], pc[p], target[p], c) /\ ~HoldsOf(k, a, None, c)
      /\ OwnsOf(kids[p], pc[p], target[p], c) /\ (FreesOf(pc[p], target[p], reap[p], c) <=> r)
      /\ ~FreesOf(a, None, r, c)
  BY <1>b, <1>f DEF HoldsOf, OwnsOf, FreesOf, Taken, AtHead
<1>4. (c \in Held' <=> c \in Held) /\ c \notin Held' /\ c \notin ToFree' /\ (r => c \in ToFree)
  <2>1. r => c \in ToFree
    BY <1>b, <1>3, Zenon DEF ToFree
  <2>2. QED  BY <1>a, <1>b, <1>1, <1>3, <2>1, SidesStep, Zenon
<1>5. Fits(c, bond[c], pc'[c], reap'[c], Held, ToFree)
  BY <1>a, <1>b, <1>1, <1>2, ParentSees
<1>6. Fits(c, b, pc'[c], reap'[c], Held', ToFree')
  <2>1. CASE r
    <3>1. /\ bond[c].mem = "live" /\ ~KeepsOf(c, pc'[c]) /\ ~OwnFree(pc'[c], reap'[c])
          /\ c # Main /\ pc'[c] # "unborn"
      BY <1>b, <1>4, <1>5, <2>1, Zenon DEF Fits
    <3>2. b.mem = "freed" /\ b.exit = bond[c].exit /\ b.load = bond[c].load
      BY <1>d, <2>1 DEF Bond
    <3>3. QED  BY <1>4, <1>5, <3>1, <3>2 DEF Fits
  <2>2. CASE ~r
    <3>1. c \in ToFree' <=> c \in ToFree
      BY <1>a, <1>b, <1>1, <1>3, <2>2, SidesStep, Zenon
    <3>2. QED  BY <1>4, <1>5, <2>2, <3>1, FitsSame
  <2>3. QED  BY <2>1, <2>2
<1> HIDE DEF b
<1>7. Typed'
  <2>1. r \in BOOLEAN /\ a \in Labels
    BY <1>a, <1>f DEF Typed, Labels, Alive, Exiting
  <2>2. bond' \in [Procs -> Bond]
    BY <1>b, <1>d, <1>e, BondUpdate
  <2>3. QED  BY <1>a, <1>0, <2>1, <2>2, TypedStep, Zenon
<1>8. Lists'
  <2>1. a \notin AtHead
    BY <1>f DEF AtHead
  <2>2. QED  BY <1>a, <1>0, <1>1, <2>1, ListsStep
<1>9. Family'
  <2>1. a \notin Gone \union {"unborn"} \union Taken \union AtHead \union Waiting
    BY <1>f DEF Gone, Taken, AtHead, Waiting
  <2>2. QED  BY <1>a, <1>b, <1>f, <1>1, <2>1, FamilyMove
<1>10. WaitedChildIsZombie'
  BY <1>a, <1>b, <1>f, <1>1, ZombieStep
<1>11. Counted'
  <2>1. \A e \in Procs \ {c} : /\ HoldsOf(k, a, None, e) <=> HoldsOf(kids[p], pc[p], target[p], e)
                               /\ FreesOf(a, None, r, e) <=> FreesOf(pc[p], target[p], reap[p], e)
    BY <1>b, <1>f DEF HoldsOf, FreesOf, AtHead
  <2> HIDE DEF k, r
  <2>2. QED  BY <1>a, <1>b, <1>d, <1>e, <1>1, <1>2, <1>6, <2>1, ParentStep, Zenon
<1>12. QED  BY <1>7, <1>8, <1>9, <1>10, <1>11 DEF IInv

\* process_exit takes the child off its list, or is lost in a freed bond.
LEMMA ExitUnlinks ==
  ASSUME BondSetting, IInv, NEW p \in Procs, ExitChildUnlink(p)
  PROVE  IInv'
<1> DEFINE c == target[p]
           r == reap[p]
<1>a. Typed /\ Lists /\ Family /\ Counted /\ WaitedChildIsZombie
  BY DEF IInv
<1>b. pc[p] = "kid_unlink" /\ c \in kids[p] /\ p # Main /\ bond' = bond
  BY <1>a DEF ExitChildUnlink, Family, AtHead, Waiting
<1>c. c \in Procs \ {Main} /\ c = Head(children[p]) /\ children[p] # << >>
  BY <1>a, <1>b DEF Lists, kids, Range, AtHead
<1>d. bond \in [Procs -> Bond] /\ r \in BOOLEAN /\ bond' = [bond EXCEPT ![c] = bond[c]] /\ bond[c] \in Bond
  BY <1>a, <1>b, <1>c DEF Typed
<1>e. target' = [target EXCEPT ![p] = c] /\ reap' = [reap EXCEPT ![p] = r]
  BY <1>a, Idle DEF ExitChildUnlink
<1>f. Awake(pc[p]) /\ Fits(c, bond[c], pc[c], reap[c], Held, ToFree)
  BY <1>a, <1>b, <1>c DEF Awake, Gone, Counted
<1>1. ASSUME NEW a \in {"kid_free", "lost"}, NEW k, Steps(p, a, k, c, r), k \subseteq kids[p],
             pc' = [pc EXCEPT ![p] = a], Lists',
             a = "lost" => k = kids[p] /\ bond[c].mem = "freed",
             a = "kid_free" => k = kids[p] \ {c}
      PROVE  IInv'
  <2>1. Awake(a) /\ a \notin {"dup", "start"} /\ a \in Labels
    BY <1>1 DEF Awake, Gone, Labels, Exiting, Astray
  <2>2. Typed'
    BY <1>a, <1>c, <1>d, <1>e, <1>1, <2>1, TypedStep, bond' \in [Procs -> Bond], Zenon
  <2>3. Family'
    <3>1. /\ a \notin Gone \union {"unborn"} \union Waiting
          /\ a \in AtHead => c \in k
          /\ a \in Taken => c \notin k /\ OwnsOf(kids[p], pc[p], target[p], c)
      BY <1>b, <1>1 DEF Gone, Waiting, AtHead, Taken, OwnsOf
    <3>2. QED  BY <1>a, <1>b, <1>c, <1>1, <3>1, FamilyMove
  <2>4. WaitedChildIsZombie'
    BY <1>a, <1>b, <1>1, ZombieStep
  <2>5. \A e \in Procs : /\ HoldsOf(k, a, c, e) <=> HoldsOf(kids[p], pc[p], target[p], e)
                         /\ FreesOf(a, c, r, e) <=> FreesOf(pc[p], target[p], reap[p], e)
    <3>1. a = "lost" => ~r
      <4>1. r => c \in ToFree
        BY <1>b, <1>c DEF ToFree, FreesOf
      <4>2. QED  BY <1>1, <1>f, <4>1, Zenon DEF Fits
    <3>2. QED  BY <1>b, <1>1, <3>1 DEF HoldsOf, FreesOf, AtHead
  <2>6. (c \in Held' <=> c \in Held) /\ (c \in ToFree' <=> c \in ToFree)
    BY <1>a, <1>c, <1>1, <2>5, SidesStep, Zenon
  <2>7. Fits(c, bond[c], pc'[c], reap'[c], Held, ToFree)
    BY <1>a, <1>c, <1>f, <1>1, <2>1, ParentSees, Zenon
  <2>8. Fits(c, bond[c], pc'[c], reap'[c], Held', ToFree')
    BY <2>6, <2>7, FitsSame
  <2> HIDE DEF r
  <2>9. Counted'
    BY <1>a, <1>c, <1>d, <1>f, <1>1, <2>1, <2>5, <2>8, ParentStep, Zenon
  <2>10. QED  BY <1>1, <2>2, <2>3, <2>4, <2>9 DEF IInv
<1>2. CASE pc' = [pc EXCEPT ![p] = "kid_free"] /\ children' = [children EXCEPT ![p] = Tail(@)]
  <2> DEFINE s == Tail(children[p])
  <2>1. s \in Seq(Procs \ {Main}) /\ Once(s) /\ Range(s) = kids[p] \ {c}
    <3>1. children[p] \in Seq(Procs \ {Main}) /\ Once(children[p])
      BY <1>a DEF Lists
    <3>2. QED  BY <1>c, <3>1, ListTail DEF kids
  <2>2. children' = [children EXCEPT ![p] = s]
    BY <1>2
  <2> HIDE DEF s
  <2>3. Steps(p, "kid_free", Range(s), c, r)
    BY <1>a, <1>e, <1>2, <2>2, StepsFrom, Zenon
  <2>4. Lists'
    <3>1. "kid_free" \notin AtHead
      BY DEF AtHead
    <3>2. QED  BY <1>a, <2>1, <2>2, <2>3, <3>1, ListsCut, Zenon
  <2>5. QED  BY <1>1, <1>2, <2>1, <2>3, <2>4
<1>3. CASE pc' = [pc EXCEPT ![p] = "lost"] /\ children' = children /\ bond[c].mem = "freed"
  <2>1. Steps(p, "lost", kids[p], c, r)
    BY <1>a, <1>e, <1>3, StepsStay, Zenon
  <2>2. Lists'
    BY <1>a, <1>c, <1>3, <2>1, ListsStep
  <2>3. QED  BY <1>1, <1>3, <2>1, <2>2
<1>4. QED  BY <1>2, <1>3 DEF ExitChildUnlink

-----------------------------------------------------------------------------
(* The child's side: the last steps of process_exit, on the process's own bond. *)
\* A step of an exiting process that has no children left.
LEMMA OwnStep ==
  ASSUME BondSetting, IInv, NEW p \in Procs, NEW a \in Gone, NEW r \in BOOLEAN, NEW b \in Bond,
         pc[p] \in {"kids", "exit_up", "self_free"}, children[p] = << >>,
         pc' = [pc EXCEPT ![p] = a], reap' = [reap EXCEPT ![p] = r],
         bond' = [bond EXCEPT ![p] = b], UNCHANGED <<children, target>>,
         pc[p] = "self_free" => a = "dead" /\ r = reap[p],
         Fits(p, bond[p], pc[p], reap[p], Held, ToFree) => Fits(p, b, a, r, Held, ToFree)
  PROVE  IInv'
<1> DEFINE x == target[p]
           k == kids[p]
<1>a. Typed /\ Lists /\ Family /\ Counted /\ WaitedChildIsZombie
  BY DEF IInv
<1>b. /\ a \notin {"unborn"} \union AtHead \union Taken \union Waiting
      /\ a \in Labels /\ a \notin {"drop", "collect", "kid_unlink", "kid_free"}
  BY DEF Gone, AtHead, Taken, Waiting, Labels, Exiting, Astray
<1>c. k = {} /\ p # Main /\ bond \in [Procs -> Bond] /\ x \in Procs \union {None}
  <2>1. k = {}
    BY DEF kids, Range
  <2>2. QED  BY <1>a, <2>1 DEF Family, Waiting, Typed
<1>0. target' = [target EXCEPT ![p] = x]
  BY <1>a, Idle
<1>1. Steps(p, a, k, x, r)
  BY <1>a, <1>0, StepsStay, Zenon
<1>2. bond' \in [Procs -> Bond] /\ bond'[p] = b /\ \A d \in Procs \ {p} : bond'[d] = bond[d]
  BY <1>c, BondUpdate, Zenon
<1>3. Typed'
  BY <1>a, <1>b, <1>c, <1>0, <1>2, TypedStep, Zenon
<1>4. Lists'
  BY <1>a, <1>b, <1>1, ListsStep
<1>5. Family'
  BY <1>a, <1>b, <1>c, <1>1, FamilyMove
<1>6. WaitedChildIsZombie'
  <2>1. pc[p] # "dead" /\ (pc[p] = "self_free" => a \in {"self_free", "dead"} /\ r = reap[p])
    OBVIOUS
  <2>2. QED  BY <1>a, <1>b, <1>1, <2>1, ZombieStep
<1>7. Counted'
  <2>1. \A c \in Procs : /\ HoldsOf(k, a, x, c) <=> HoldsOf(kids[p], pc[p], target[p], c)
                         /\ FreesOf(a, x, r, c) <=> FreesOf(pc[p], target[p], reap[p], c)
    BY <1>b DEF HoldsOf, FreesOf, AtHead
  <2>2. (p \in Held <=> p \in Held') /\ (p \in ToFree <=> p \in ToFree')
    BY <1>a, <1>1, <2>1, SidesStep, Zenon
  <2>3. Fits(p, b, a, r, Held, ToFree)
    BY <1>a DEF Counted
  <2>4. Fits(p, bond'[p], pc'[p], reap'[p], Held', ToFree')
    BY <1>1, <1>2, <2>2, <2>3, FitsSame DEF Steps
  <2>5. \A c \in Procs \ {p} :
          /\ bond'[c] = bond[c]
          /\ HoldsOf(k, a, x, c) <=> HoldsOf(kids[p], pc[p], target[p], c)
          /\ FreesOf(a, x, r, c) <=> FreesOf(pc[p], target[p], reap[p], c)
    BY <1>2, <2>1, Zenon
  <2>6. Touches(p, a, k, x, r, p)
    BY <2>4, <2>5 DEF Touches
  <2> HIDE DEF k, x
  <2>7. QED  BY <1>a, <1>1, <2>6, CountedStep
<1>8. QED  BY <1>3, <1>4, <1>5, <1>6, <1>7 DEF IInv

\* The list is empty from exit_up on.
LEMMA GoneIsChildless ==
  ASSUME IInv, NEW p \in Procs, pc[p] \in Gone
  PROVE  children[p] = << >>
<1>1. kids[p] = {} /\ children[p] \in Seq(Procs \ {Main})
  BY Zenon DEF IInv, Family, Lists
<1>2. children[p] # << >> => Head(children[p]) \in Range(children[p])
  <2>1. children[p] # << >> => 1 \in DOMAIN children[p] /\ Head(children[p]) = children[p][1]
    BY <1>1
  <2>2. QED  BY <2>1 DEF Range
<1>3. QED  BY <1>1, <1>2 DEF kids

\* The exiting process drops its reference to its own bond, ...
LEMMA ExitDrops ==
  ASSUME BondSetting, IInv, NEW p \in Procs, ExitDrop(p)
  PROVE  IInv'
<1> DEFINE r == bond[p].ref - 1 = 0
           b == [bond[p] EXCEPT !.ref = bond[p].ref - 1]
<1>a. bond \in [Procs -> Bond] /\ bond[p] \in Bond /\ Fits(p, bond[p], pc[p], reap[p], Held, ToFree)
  BY DEF IInv, Typed, Counted
<1>b. pc[p] = "kids" /\ children[p] = << >> /\ p # Main
  BY DEF ExitDrop, IInv, Family, Waiting
<1>c. KeepsOf(p, "kids") /\ ~KeepsOf(p, "exit_up")
  BY <1>b DEF KeepsOf, Gone
<1>d. bond[p].mem = "live" /\ bond[p].ref = (IF p \in Held THEN 1 ELSE 0) + 1 /\ p \notin ToFree
  BY <1>a, <1>b, <1>c DEF Fits
<1>e. bond[p].ref - 1 = (IF p \in Held THEN 1 ELSE 0) /\ bond[p].ref - 1 \in -1 .. 2
      /\ (r <=> p \notin Held)
  BY <1>d
<1>f. b \in Bond /\ b.mem = "live" /\ b.ref = bond[p].ref - 1 /\ b.exit = bond[p].exit
  BY <1>a, <1>d, <1>e DEF Bond
<1>g. bond' = [bond EXCEPT ![p] = b] /\ pc' = [pc EXCEPT ![p] = "exit_up"]
      /\ reap' = [reap EXCEPT ![p] = r] /\ UNCHANGED <<children, target>>
  BY <1>a DEF ExitDrop, is_orphan_or_zombie
<1>h. r \in BOOLEAN /\ "exit_up" \in Gone
  BY DEF Gone
<1> HIDE DEF r, b
<1>1. Fits(p, b, "exit_up", r, Held, ToFree)
  <2>1. ~KeepsOf(p, "exit_up") /\ (OwnFree("exit_up", r) <=> r)
    BY <1>c DEF OwnFree
  <2>2. p # Main /\ bond[p].exit = b.exit /\ ~(b.exit > 0)
    BY <1>a, <1>b, <1>c, <1>f DEF Fits
  <2>3. QED  BY <1>d, <1>e, <1>f, <2>1, <2>2 DEF Fits
<1>2. QED  BY <1>b, <1>f, <1>g, <1>h, <1>1, OwnStep, Zenon

\* ... signals exit, ...
LEMMA ExitUps ==
  ASSUME BondSetting, IInv, NEW p \in Procs, ExitUp(p)
  PROVE  IInv'
<1> DEFINE r == reap[p]
<1>a. /\ bond \in [Procs -> Bond] /\ bond[p] \in Bond /\ reap \in [Procs -> BOOLEAN]
      /\ Fits(p, bond[p], pc[p], reap[p], Held, ToFree)
  BY DEF IInv, Typed, Counted
<1>b. pc[p] = "exit_up" /\ pc[p] \in Gone /\ p # Main
  BY DEF ExitUp, IInv, Family, Waiting, Gone
<1>c. children[p] = << >> /\ r \in BOOLEAN /\ reap' = [reap EXCEPT ![p] = r]
      /\ UNCHANGED <<children, target>>
  BY <1>a, <1>b, GoneIsChildless DEF ExitUp
<1>d. \A l \in Gone : ~KeepsOf(p, l)
  BY DEF KeepsOf
<1>e. {"self_free", "wild"} \subseteq Gone
  BY DEF Gone
<1>1. CASE bond[p].mem = "live" /\ bond' = [bond EXCEPT ![p].exit = @ + 1]
           /\ pc' = [pc EXCEPT ![p] = "self_free"]
  <2> DEFINE b == [bond[p] EXCEPT !.exit = bond[p].exit + 1]
  <2>1. bond[p].exit = 0
    BY <1>a, <1>b DEF Fits, Bond
  <2>2. bond' = [bond EXCEPT ![p] = b]
    BY <1>1, <1>a
  <2>3. b \in Bond /\ b.mem = bond[p].mem /\ b.ref = bond[p].ref /\ b.load = bond[p].load
    BY <1>a, <2>1 DEF Bond
  <2> HIDE DEF b
  <2>4. Fits(p, b, "self_free", r, Held, ToFree)
    BY <1>a, <1>b, <1>d, <1>e, <2>3 DEF Fits, OwnFree
  <2>5. QED  BY <1>b, <1>c, <1>e, <1>1, <2>2, <2>3, <2>4, OwnStep, Zenon
<1>2. ASSUME NEW a \in {"self_free", "wild"}, bond[p].mem = "freed", bond' = bond,
             pc' = [pc EXCEPT ![p] = a]
      PROVE  IInv'
  <2>1. bond' = [bond EXCEPT ![p] = bond[p]]
    BY <1>a, <1>2
  <2>2. ~r
    BY <1>a, <1>b, <1>2 DEF Fits, OwnFree
  <2>3. a # "unborn" /\ a \notin {"dup", "start"} /\ a \in Gone
    BY <1>e
  <2>4. Fits(p, bond[p], a, r, Held, ToFree)
    BY <1>a, <1>b, <1>d, <1>2, <2>2, <2>3 DEF Fits, OwnFree
  <2>5. QED  BY <1>a, <1>b, <1>c, <1>2, <2>1, <2>3, <2>4, OwnStep, Zenon
<1>3. QED  BY <1>1, <1>2 DEF ExitUp

\* ... and frees the bond if that reference was the last.
LEMMA ExitFrees ==
  ASSUME BondSetting, IInv, NEW p \in Procs, ExitFree(p)
  PROVE  IInv'
<1> DEFINE r == reap[p]
           b == IF r THEN [bond[p] EXCEPT !.mem = "freed"] ELSE bond[p]
<1>a. /\ bond \in [Procs -> Bond] /\ bond[p] \in Bond /\ reap \in [Procs -> BOOLEAN]
      /\ Fits(p, bond[p], pc[p], reap[p], Held, ToFree)
  BY DEF IInv, Typed, Counted
<1>b. pc[p] = "self_free" /\ pc[p] \in Gone /\ p # Main /\ "dead" \in Gone
  BY DEF ExitFree, IInv, Family, Waiting, Gone
<1>c. children[p] = << >> /\ r \in BOOLEAN /\ reap' = [reap EXCEPT ![p] = r]
      /\ pc' = [pc EXCEPT ![p] = "dead"] /\ UNCHANGED <<children, target>>
  BY <1>a, <1>b, GoneIsChildless DEF ExitFree
<1>d. ~KeepsOf(p, "self_free") /\ ~KeepsOf(p, "dead")
  BY DEF KeepsOf, Gone
<1>e. bond' = [bond EXCEPT ![p] = b]
  BY <1>a, Zenon DEF ExitFree, FreeIfReap
<1>f. /\ b \in Bond /\ b.ref = bond[p].ref /\ b.exit = bond[p].exit /\ b.load = bond[p].load
      /\ b.mem = (IF r THEN "freed" ELSE bond[p].mem)
  BY <1>a DEF Bond
<1> HIDE DEF b
<1>1. Fits(p, b, "dead", r, Held, ToFree)
  BY <1>a, <1>b, <1>d, <1>f DEF Fits, OwnFree
<1>2. QED  BY <1>b, <1>c, <1>e, <1>f, <1>1, OwnStep, Zenon

-----------------------------------------------------------------------------
(* thread_create: two processes move at once. *)
\* The new bond has both its sides.
LEMMA Creates ==
  ASSUME BondSetting, IInv, NEW p \in Procs, NEW c \in Procs, NEW f \in {"dup", "start"},
         thread_create(p, c, f)
  PROVE  IInv'
<1>a. Typed /\ Lists /\ Family /\ Counted /\ WaitedChildIsZombie
  BY DEF IInv
<1>b. pc[p] = "user" /\ pc[c] = "unborn" /\ c # p /\ c # Main
  BY <1>a DEF thread_create, Family, Waiting, BondSetting
<1>c. /\ pc'[p] = "load_wait" /\ pc'[c] = f /\ target'[p] = c
      /\ \A q \in Procs \ {p} : target'[q] = target[q]
      /\ \A q \in Procs \ {p, c} : pc'[q] = pc[q]
      /\ reap' = reap
  BY <1>a, <1>b DEF thread_create, Typed
<1>d. /\ bond'[c] = NewBond /\ \A q \in Procs \ {c} : bond'[q] = bond[q]
  BY <1>a DEF thread_create, Typed
<1>e. \A q \in Procs : ~OwnsOf(kids[q], pc[q], target[q], c)
  BY <1>a, <1>b DEF Family
<1>f. kids[c] = {} /\ \A q \in Procs : c \notin kids[q]
  BY <1>a, <1>b, <1>e DEF Family, OwnsOf
<1>g. /\ children'[p] = <<c>> \o children[p] /\ \A q \in Procs \ {p} : children'[q] = children[q]
      /\ children'[p] \in Seq(Procs \ {Main}) /\ Once(children'[p])
      /\ Range(children'[p]) = Range(children[p]) \union {c}
  <2>1. children[p] \in Seq(Procs \ {Main}) /\ Once(children[p]) /\ c \notin Range(children[p])
    BY <1>a, <1>f DEF Lists, kids
  <2>2. children'[p] = <<c>> \o children[p] /\ \A q \in Procs \ {p} : children'[q] = children[q]
    BY <1>a DEF thread_create, Lists
  <2>3. QED  BY <1>b, <2>1, <2>2, ListPush
<1>h. kids'[p] = kids[p] \union {c} /\ \A q \in Procs \ {p} : kids'[q] = kids[q]
  BY <1>g, Zenon DEF kids
<1>1. Typed'
  <2>1. "load_wait" \in Labels /\ f \in Labels
    BY DEF Labels, Alive, Waiting
  <2>2. NewBond \in Bond
    BY DEF NewBond, Bond, BondSetting
  <2>3. QED  BY <1>a, <2>1, <2>2 DEF Typed, thread_create
<1>2. Lists'
  <2>1. children' \in [Procs -> Seq(Procs \ {Main})]
    BY <1>a, <1>g DEF Lists, thread_create
  <2>2. \A q \in Procs : Once(children'[q])
    BY <1>a, <1>g, Zenon DEF Lists
  <2>3. \A q \in Procs : pc'[q] \in AtHead => q # p /\ q # c
    BY <1>c DEF AtHead
  <2>4. QED  BY <1>a, <1>c, <1>g, <2>1, <2>2, <2>3, Zenon DEF Lists
<1>3. Family'
  <2>1. \A e \in Procs : OwnsOf(kids'[p], pc'[p], target'[p], e)
                           => e = c \/ OwnsOf(kids[p], pc[p], target[p], e)
    BY <1>c, <1>h DEF OwnsOf, Taken
  <2>2. \A q \in Procs \ {p}, e \in Procs :
            OwnsOf(kids'[q], pc'[q], target'[q], e)
              => e # c /\ OwnsOf(kids[q], pc[q], target[q], e)
    <3> SUFFICES ASSUME NEW q \in Procs \ {p}, NEW e \in Procs,
                        OwnsOf(kids'[q], pc'[q], target'[q], e)
                 PROVE  OwnsOf(kids[q], pc[q], target[q], e)
      BY <1>e
    <3>1. q # c
      BY <1>b, <1>c, <1>f, <1>h DEF OwnsOf, Taken
    <3>2. QED  BY <1>c, <1>h, <3>1
  <2>3. \A q, h, e \in Procs : OwnsOf(kids'[q], pc'[q], target'[q], e)
                                /\ OwnsOf(kids'[h], pc'[h], target'[h], e) => q = h
    BY <1>a, <2>1, <2>2, Zenon DEF Family
  <2>4. \A q, e \in Procs : OwnsOf(kids'[q], pc'[q], target'[q], e) => pc'[e] # "unborn"
    BY <1>a, <1>c, <2>1, <2>2, Zenon DEF Family
  <2>5. \A q \in Procs : pc'[q] \in Gone \union {"unborn"} => kids'[q] = {}
    BY <1>a, <1>c, <1>h, Zenon DEF Family, Gone
  <2>6. \A q \in Procs : pc'[q] \in Waiting \union AtHead => target'[q] \in kids'[q]
    <3>1. f \notin Waiting \union AtHead
      BY DEF Waiting, AtHead
    <3>2. QED  BY <1>a, <1>c, <1>h, <3>1 DEF Family
  <2>7. \A q \in Procs : pc'[q] \in Taken => target'[q] \in Procs \ {Main} /\ target'[q] \notin kids'[q]
    <3>1. f \notin Taken /\ "load_wait" \notin Taken
      BY DEF Taken
    <3>2. \A q \in Procs : pc'[q] \in Taken => q # p /\ pc[q] \in Taken /\ target'[q] = target[q] /\ kids'[q] = kids[q]
      BY <1>a, <1>c, <1>h, <3>1
    <3>3. \A q \in Procs : pc[q] \in Taken => target[q] \in Procs \ {Main} /\ target[q] \notin kids[q]
      BY <1>a DEF Family
    <3>4. QED  BY <3>2, <3>3
  <2>8. pc'[Main] \in {"user", "drop", "collect"} \union Waiting
    BY <1>a, <1>b, <1>c, Zenon DEF Family, Waiting, BondSetting
  <2>9. QED  BY <2>3, <2>4, <2>5, <2>6, <2>7, <2>8, Zenon DEF Family
<1>4. \A e \in Procs : /\ e # c => (e \in Held' <=> e \in Held)
                       /\ e \in ToFree' <=> e \in ToFree
  <2> SUFFICES ASSUME NEW e \in Procs
               PROVE  (e # c => (e \in Held' <=> e \in Held)) /\ (e \in ToFree' <=> e \in ToFree)
    OBVIOUS
  <2>1. \A q \in Procs \ {p} : HoldsOf(kids'[q], pc'[q], target'[q], e)
                                <=> HoldsOf(kids[q], pc[q], target[q], e)
    BY <1>b, <1>c, <1>f, <1>h DEF HoldsOf
  <2>2. \A q \in Procs \ {p} : FreesOf(pc'[q], target'[q], reap'[q], e)
                                <=> FreesOf(pc[q], target[q], reap[q], e)
    BY <1>b, <1>c DEF FreesOf
  <2>3. /\ e # c => (HoldsOf(kids'[p], pc'[p], target'[p], e) <=> HoldsOf(kids[p], pc[p], target[p], e))
        /\ FreesOf(pc'[p], target'[p], reap'[p], e) <=> FreesOf(pc[p], target[p], reap[p], e)
    BY <1>b, <1>c, <1>h DEF HoldsOf, FreesOf, AtHead
  <2>4. QED  BY <1>a, <2>1, <2>2, <2>3, HeldStep, FreeStep, Zenon
<1>5. c \in Held' /\ c \notin ToFree
  <2>1. HoldsOf(kids'[p], pc'[p], target'[p], c)
    BY <1>c, <1>h DEF HoldsOf, AtHead
  <2>2. c \in Held'
    BY <2>1 DEF Held
  <2>3. \A q \in Procs : ~FreesOf(pc[q], target[q], reap[q], c)
    BY <1>a, <1>e DEF FreesOf, OwnsOf, Taken, AtHead, Family
  <2>4. QED  BY <2>2, <2>3 DEF ToFree
<1>6. Counted'
  <2>1. Fits(c, NewBond, f, reap[c], Held', ToFree')
    <3>1. KeepsOf(c, f) /\ ~OwnFree(f, reap[c])
      BY <1>b DEF KeepsOf, OwnFree, Gone
    <3>2. c \in Held' /\ c \notin ToFree'
      BY <1>4, <1>5
    <3>3. /\ NewBond.mem = "live" /\ NewBond.ref = 2 /\ NewBond.exit = 0 /\ NewBond.load = 0
          /\ 0 < MaxLoad
      BY DEF NewBond, BondSetting
    <3>4. QED  BY <1>b, <3>1, <3>2, <3>3 DEF Fits
  <2>2. Fits(p, bond[p], "load_wait", reap[p], Held, ToFree)
    <3>1. Fits(p, bond[p], pc[p], reap[p], Held, ToFree)
      BY <1>a DEF Counted
    <3>2. Awake(pc[p]) /\ Awake("load_wait") /\ "load_wait" \notin {"dup", "start"}
      BY <1>b DEF Awake, Gone
    <3>3. QED  BY <3>1, <3>2, FitsAwake, Zenon
  <2>3. \A e \in Procs \ {c} : Fits(e, bond'[e], pc'[e], reap'[e], Held, ToFree)
    BY <1>a, <1>c, <1>d, <2>2 DEF Counted
  <2>4. \A e \in Procs \ {c} : Fits(e, bond'[e], pc'[e], reap'[e], Held', ToFree')
    BY <1>4, <2>3, FitsSame
  <2>5. QED  BY <1>c, <1>d, <2>1, <2>4 DEF Counted
<1>7. WaitedChildIsZombie'
  <2>1. \A q \in Procs : pc'[q] \in {"drop", "collect"} =>
            /\ q # p /\ q # c /\ pc'[q] = pc[q] /\ target'[q] = target[q]
            /\ target[q] \in Procs /\ pc[target[q]] \in {"self_free", "dead"}
    BY <1>a, <1>c DEF WaitedChildIsZombie, Family, Taken
  <2>2. \A e \in Procs : pc[e] \in {"self_free", "dead"} => pc'[e] = pc[e] /\ reap'[e] = reap[e]
    BY <1>b, <1>c
  <2>3. QED  BY <1>a, <1>c, <2>1, <2>2 DEF WaitedChildIsZombie
<1>8. QED  BY <1>1, <1>2, <1>3, <1>6, <1>7 DEF IInv

-----------------------------------------------------------------------------
\* The initial thread is alone and has no bond.
LEMMA InitEstablishes ==
  ASSUME BondSetting, BondInit
  PROVE  IInv
<1>1. /\ \A p \in Procs : children[p] = << >> /\ target[p] = None /\ reap[p] = FALSE /\ bond[p] = NoBond
      /\ pc[Main] = "user" /\ \A p \in Procs \ {Main} : pc[p] = "unborn"
  BY DEF BondInit, BondSetting
<1>2. Typed
  <2>1. NoBond \in Bond
    BY DEF Bond, NoBond, BondSetting
  <2>2. {"user", "unborn"} \subseteq Labels
    BY DEF Labels, Alive
  <2>3. QED  BY <2>1, <2>2 DEF BondInit, Typed, BondSetting
<1>3. \A p \in Procs : kids[p] = {}
  BY <1>1 DEF kids, Range
<1>4. \A p \in Procs : pc[p] \in {"user", "unborn"}
  BY <1>1
<1>5. Lists
  BY <1>1, <1>4 DEF BondInit, Lists, Once, AtHead
<1>6. Family
  BY <1>1, <1>3, <1>4 DEF Family, OwnsOf, Waiting, AtHead, Taken, Gone
<1>7. Held = {} /\ ToFree = {}
  BY <1>1, <1>3, <1>4 DEF Held, ToFree, HoldsOf, FreesOf
<1>8. Counted
  <2> SUFFICES ASSUME NEW c \in Procs  PROVE Fits(c, bond[c], pc[c], reap[c], Held, ToFree)
    BY DEF Counted
  <2>1. bond[c].mem = "none" /\ bond[c].exit = 0
    BY <1>1 DEF NoBond
  <2>2. ~KeepsOf(c, pc[c]) /\ ~OwnFree(pc[c], reap[c]) /\ (c = Main \/ pc[c] = "unborn")
    BY <1>1 DEF KeepsOf, OwnFree
  <2>3. QED  BY <1>4, <1>7, <2>1, <2>2 DEF Fits
<1>9. WaitedChildIsZombie
  BY <1>4 DEF WaitedChildIsZombie
<1>10. QED  BY <1>2, <1>5, <1>6, <1>8, <1>9 DEF IInv

\* The invariant is inductive.
LEMMA StepPreserves ==
  ASSUME BondSetting, IInv, [BondNext]_bond_vars
  PROVE  IInv'
<1>1. CASE UNCHANGED bond_vars
  <2>1. bond' = bond /\ children' = children /\ pc' = pc /\ target' = target /\ reap' = reap
    BY <1>1 DEF bond_vars
  <2>2. kids' = kids
    BY <2>1 DEF kids
  <2>3. Held' = Held /\ ToFree' = ToFree
    BY <2>1, <2>2 DEF Held, ToFree
  <2>4. QED  BY <2>1, <2>2, <2>3, Zenon DEF IInv, Typed, Lists, Family, Counted, WaitedChildIsZombie
<1>2. ASSUME NEW p \in Procs, Kernel(p)  PROVE IInv'
  BY <1>2, Loads, LoadWaits, FailWaits, WaitDowns, WaitDrops, ParentFrees, ExitDropsChild,
     ExitUnlinks, ExitDrops, ExitUps, ExitFrees DEF Kernel
<1>3. ASSUME NEW p \in Procs, User(p)  PROVE IInv'
  BY <1>3, Creates, WaitStarts, Loads DEF User, process_fork, process_execute
<1>4. QED  BY <1>1, <1>2, <1>3 DEF BondNext

\* It implies what the run checks.
LEMMA Sound ==
  ASSUME BondSetting, IInv
  PROVE  FamilyIsSound
<1>a. Typed /\ Lists /\ Family /\ Counted /\ WaitedChildIsZombie
  BY DEF IInv
<1>b. \A p, c \in Procs : find_child(p, c) <=> c \in kids[p]
  BY DEF find_child, kids
<1>c. \A c \in Procs : ParentHolds(c) <=> c \in Held
  BY <1>b DEF ParentHolds, Held, HoldsOf, Unlinking, AtHead
<1>d. \A c \in Procs : bond[c].mem = "live" => (ChildHolds(c) <=> KeepsOf(c, pc[c]))
  BY <1>a DEF Counted, Fits, ChildHolds, KeepsOf, Gone
<1>e. \A c \in Procs : c \in Held \union ToFree \/ KeepsOf(c, pc[c]) \/ OwnFree(pc[c], reap[c])
                         => bond[c].mem = "live"
  BY <1>a, Zenon DEF Counted, Fits
<1>f. \A p \in Procs : kids[p] \subseteq Procs
  BY <1>a DEF Lists, kids, Range
<1>1. BondTypeOK
  BY <1>a DEF BondTypeOK, Typed, Lists, Labels
<1>2. CountMatchesHolders
  <2> SUFFICES ASSUME NEW c \in Procs, bond[c].mem = "live"
               PROVE  bond[c].ref = (IF ParentHolds(c) THEN 1 ELSE 0) + (IF ChildHolds(c) THEN 1 ELSE 0)
    BY DEF CountMatchesHolders
  <2>1. bond[c].ref = (IF c \in Held THEN 1 ELSE 0) + (IF KeepsOf(c, pc[c]) THEN 1 ELSE 0)
    BY <1>a, Zenon DEF Counted, Fits
  <2>2. QED  BY <1>c, <1>d, <2>1
<1>3. UsersHaveABond
  <2>1. \A c \in Procs \ {Main} :
          pc[c] \in Alive \union {"kids", "kid_unlink", "kid_free"} => bond[c].mem = "live"
    BY <1>e DEF KeepsOf, Gone, Alive, Waiting
  <2>2. \A p, c \in Procs : find_child(p, c) /\ ~Unlinking(p, c) => bond[c].mem = "live"
    BY <1>c, <1>e, Zenon DEF ParentHolds
  <2>3. ASSUME NEW p \in Procs,
               \/ pc[p] \in Waiting \union {"drop", "collect"}
               \/ pc[p] \in {"kid_unlink", "kid_free"} /\ reap[p]
        PROVE  bond[target[p]].mem = "live"
    <3>1. target[p] \in Procs
      BY <1>a, <1>f, <2>3 DEF Family, Taken, AtHead
    <3>2. CASE pc[p] \in Waiting \union {"drop"}
      <4>1. HoldsOf(kids[p], pc[p], target[p], target[p])
        BY <1>a, <3>2, Zenon DEF HoldsOf, Family, Waiting, AtHead
      <4>2. target[p] \in Held
        BY <3>1, <4>1 DEF Held
      <4>3. QED  BY <1>e, <3>1, <4>2
    <3>3. CASE pc[p] \in {"collect", "kid_unlink", "kid_free"}
      <4>1. reap[p]
        BY <1>a, <2>3, <3>3 DEF WaitedChildIsZombie, Waiting
      <4>2. target[p] \in ToFree
        BY <3>1, <3>3, <4>1 DEF ToFree, FreesOf
      <4>3. QED  BY <1>e, <3>1, <4>2
    <3>4. QED  BY <2>3, <3>2, <3>3
  <2>4. \A c \in Procs : pc[c] \in {"exit_up", "self_free"} /\ reap[c] => bond[c].mem = "live"
    BY <1>e DEF OwnFree
  <2>5. QED  BY <2>1, <2>2, <2>3, <2>4, Zenon DEF UsersHaveABond
<1>4. BondsAreReaped
  <2> SUFFICES ASSUME NEW c \in Procs, bond[c].mem = "live"
               PROVE  \/ ParentHolds(c)
                      \/ ChildHolds(c)
                      \/ reap[c] /\ pc[c] \in {"exit_up", "self_free"}
                      \/ \E p \in Procs : /\ reap[p] /\ target[p] = c
                                          /\ pc[p] \in {"collect", "kid_unlink", "kid_free"}
    BY DEF BondsAreReaped
  <2>1. c \in Held \/ KeepsOf(c, pc[c]) \/ c \in ToFree \/ OwnFree(pc[c], reap[c])
    BY <1>a, Zenon DEF Counted, Fits
  <2>2. QED  BY <1>c, <1>d, <2>1 DEF ToFree, FreesOf, OwnFree
<1>5. QED  BY <1>a, <1>1, <1>2, <1>3, <1>4 DEF FamilyIsSound

(* The bonds of every family are sound, however forks, execs, waits and exits  *)
(* of any number of processes interleave (FamilyIsSound): the counter of a     *)
(* live bond is the number of its sides that still hold it, no side uses its   *)
(* reference after the free or frees twice, no bond leaks, and the child       *)
(* process_wait comes back for has exited and leaves the free to the parent.   *)
THEOREM BondsAreSound ==
  ASSUME BondSetting
  PROVE  BondSpec => []FamilyIsSound
<1>1. BondInit => IInv
  BY InitEstablishes
<1>2. IInv /\ [BondNext]_bond_vars => IInv'
  BY StepPreserves
<1>3. IInv => FamilyIsSound
  BY Sound
<1>4. QED  BY <1>1, <1>2, <1>3, PTL DEF BondSpec
=============================================================================
