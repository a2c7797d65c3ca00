----------------------------- MODULE VMMgr_proofs ---------------------------
(***************************************************************************)
(* The VM manager and its ssh configurations, for every number of VMs,     *)
(* ports, VNC numbers, faults and host processes: no configuration is lost *)
(* or in two hands, running VMs share no port and no VNC number, the VNC   *)
(* numbers are conserved, and a host that gets through clear_vm leaves     *)
(* nothing behind.                                                         *)
(***************************************************************************)
EXTENDS VMMgr, FiniteSetTheorems, SequenceTheorems, WellFoundedInduction, TLAPS

\* The VMs on the lists of VMMgr.
Listed(l) == Range(l.live) \cup Range(l.dead)

ListsType == [live : Seq(VMs), dead : Seq(VMs), vnc : Seq(Nat)]

\* The lists, while no assertion has failed: no VM is on them twice, what runs
\* is alive, and the VNC numbers of the living and the free ones are different
\* and as many as there were.
ListsOK(l) ==
    /\ l \in ListsType
    /\ IsInjective(l.live) /\ IsInjective(l.dead) /\ IsInjective(l.vnc)
    /\ Range(l.live) \cap Range(l.dead) = {}
    /\ running \subseteq Range(l.live)
    /\ Len(l.vnc) + Len(l.live) = run_limit
    /\ \A v \in Range(l.live) : vnc_num[v] \notin Range(l.vnc)
    /\ \A v, w \in Range(l.live) : vnc_num[v] = vnc_num[w] => v = w

\* What the listed VMs were given is theirs: VMs made so far, each with a
\* configuration of its own, and they are all who hold one or have an image.
GivenOK ==
    /\ \A v \in Listed(Lists) : v < made
    /\ \A v, w \in Listed(Lists) : ssh_config[v] = ssh_config[w] => v = w
    /\ held = {ssh_config[v] : v \in Listed(Lists)}
    /\ images \subseteq Listed(Lists)
    /\ NoConf \notin Range(using_pool)
    /\ phase # "done" => pool = "open"

\* Where the host is tells how far it has come.
PhaseOK ==
    /\ phase \in {"create", "alloc"} => made <= num_vms
    /\ phase = "start" => made > 0 /\ made - 1 \in Range(live_vm_instances)
    /\ phase = "run" => 1 .. num_vms \subseteq Range(live_vm_instances) \cap started
    /\ phase \in {"reclaim", "done"} => live_vm_instances = <<>>

\* A port that was not looked at yet belongs to no configuration.
PortsOK ==
    /\ FIRST_PORT_NUM <= glo_start_port
    /\ \A p \in held \cup Range(free_pool) : p < glo_start_port

IInv ==
    /\ PoolSound /\ NoSharing /\ CleanUp
    /\ PortsOK
    /\ phase # "aborted" => ListsOK(Lists) /\ GivenOK /\ PhaseOK

-----------------------------------------------------------------------------
(* Lists.                                                                   *)

\* Induction over a set of numbers.
LEMMA NatSet ==
  ASSUME NEW S, 0 \in S, \A n \in Nat : n \in S => n + 1 \in S
  PROVE  Nat \subseteq S
<1> SUFFICES ASSUME Nat \ S # {} PROVE FALSE
  OBVIOUS
<1>1. PICK x \in Nat \ S : \A y \in Nat \ S : ~(<<y, x>> \in OpToRel(<, Nat))
  BY WFMin, NatLessThanWellFounded
<1>2. x # 0 /\ x - 1 \in Nat /\ (x - 1) + 1 = x
  OBVIOUS
<1>3. <<x - 1, x>> \in OpToRel(<, Nat)
  BY <1>2 DEF OpToRel
<1>4. x - 1 \in S
  BY <1>1, <1>2, <1>3
<1> QED
  BY <1>2, <1>4

Round(s, S, f, i) ==
    IF i = 0 THEN <<>>
    ELSE IF s[i] \in S THEN Append(f[i - 1], s[i]) ELSE f[i - 1]

\* The loop is defined: there is such a function, round by round.
LEMMA KeptUpToDef ==
  ASSUME NEW U, NEW s \in Seq(U), NEW S
  PROVE  KeptUpTo(s, S) = [i \in 0 .. Len(s) |-> Round(s, S, KeptUpTo(s, S), i)]
<1> DEFINE N == {n \in Nat : \E f : f = [i \in 0 .. n |-> Round(s, S, f, i)]}
<1>1. 0 \in N
  <2> DEFINE f == [i \in 0 .. 0 |-> <<>>]
  <2>1. f = [i \in 0 .. 0 |-> Round(s, S, f, i)]
    BY DEF Round
  <2> QED
    BY <2>1
<1>2. ASSUME NEW n \in Nat, n \in N
      PROVE  n + 1 \in N
  <2>1. PICK f : f = [i \in 0 .. n |-> Round(s, S, f, i)]
    BY <1>2
  <2> DEFINE g == [i \in 0 .. n + 1 |->
                      IF i = n + 1 THEN Round(s, S, f, i) ELSE f[i]]
  <2>2. \A i \in 0 .. n + 1 : i # 0 => i - 1 \in 0 .. n /\ g[i - 1] = f[i - 1]
    OBVIOUS
  <2>3. \A i \in 0 .. n + 1 : Round(s, S, g, i) = Round(s, S, f, i)
    BY <2>2 DEF Round
  <2>4. \A i \in 0 .. n + 1 : g[i] = Round(s, S, f, i)
    BY <2>1
  <2>5. g = [i \in 0 .. n + 1 |-> Round(s, S, g, i)]
    BY <2>3, <2>4
  <2>6. \E h : h = [i \in 0 .. n + 1 |-> Round(s, S, h, i)]
    BY <2>5
  <2> HIDE DEF g
  <2> QED
    BY <2>6
<1>3. Len(s) \in N
  <2> HIDE DEF N
  <2> QED
    BY <1>1, <1>2, NatSet
<1>4. PICK f : f = [i \in 0 .. Len(s) |-> Round(s, S, f, i)]
  BY <1>3
<1>5. KeptUpTo(s, S) = CHOOSE g : g = [i \in 0 .. Len(s) |-> Round(s, S, g, i)]
  BY DEF KeptUpTo, Round
<1> QED
  BY <1>4, <1>5

\* An element more.
LEMMA AppendRange ==
  ASSUME NEW U, NEW t \in Seq(U), NEW x \in U
  PROVE  /\ Append(t, x) \in Seq(U) /\ Len(Append(t, x)) = Len(t) + 1
         /\ Range(Append(t, x)) = Range(t) \cup {x}
         /\ IsInjective(t) /\ x \notin Range(t) => IsInjective(Append(t, x))
<1> DEFINE a == Append(t, x)
<1>1. /\ a \in Seq(U) /\ Len(a) = Len(t) + 1 /\ Len(t) \in Nat
      /\ DOMAIN a = 1 .. Len(t) + 1 /\ DOMAIN t = 1 .. Len(t)
      /\ a[Len(t) + 1] = x /\ \A i \in 1 .. Len(t) : a[i] = t[i]
  OBVIOUS
<1> HIDE DEF a
<1>2. Range(a) = Range(t) \cup {x}
  BY <1>1 DEF Range
<1>3. ASSUME IsInjective(t), x \notin Range(t)
      PROVE  IsInjective(a)
  BY <1>1, <1>3 DEF Range, IsInjective
<1> QED
  BY <1>1, <1>2, <1>3 DEF a

\* One element less, at the front.
LEMMA TailRange ==
  ASSUME NEW U, NEW t \in Seq(U), t # <<>>, IsInjective(t)
  PROVE  /\ Tail(t) \in Seq(U) /\ Len(Tail(t)) = Len(t) - 1 /\ IsInjective(Tail(t))
         /\ Head(t) \in Range(t) /\ Range(Tail(t)) = Range(t) \ {Head(t)}
<1> DEFINE a == Tail(t)
<1>1. /\ a \in Seq(U) /\ Len(a) = Len(t) - 1 /\ Len(t) \in Nat \ {0}
      /\ DOMAIN a = 1 .. Len(t) - 1 /\ DOMAIN t = 1 .. Len(t)
      /\ Head(t) = t[1] /\ \A i \in 1 .. Len(t) - 1 : a[i] = t[i + 1]
  OBVIOUS
<1> HIDE DEF a
<1>2. IsInjective(a)
  BY <1>1 DEF IsInjective
<1>3. ASSUME NEW y PROVE y \in Range(a) <=> y \in Range(t) /\ y # t[1]
  <2>1. ASSUME y \in Range(a) PROVE y \in Range(t) /\ y # t[1]
    BY <1>1, <2>1 DEF Range, IsInjective
  <2>2. ASSUME y \in Range(t), y # t[1] PROVE y \in Range(a)
    <3>1. PICK i \in 1 .. Len(t) : y = t[i]
      BY <1>1, <2>2 DEF Range
    <3>2. i - 1 \in 1 .. Len(t) - 1 /\ a[i - 1] = y
      BY <1>1, <2>2, <3>1
    <3> QED
      BY <1>1, <3>2 DEF Range
  <2> QED
    BY <2>1, <2>2
<1>4. Range(a) = Range(t) \ {t[1]}
  BY <1>3
<1>5. t[1] \in Range(t)
  BY <1>1 DEF Range
<1> QED
  BY <1>1, <1>2, <1>4, <1>5 DEF a

\* Two lists in a row.
LEMMA ConcatRange ==
  ASSUME NEW U, NEW s \in Seq(U), NEW t \in Seq(U)
  PROVE  /\ s \o t \in Seq(U) /\ Len(s \o t) = Len(s) + Len(t)
         /\ Range(s \o t) = Range(s) \cup Range(t)
         /\ IsInjective(s) /\ IsInjective(t) /\ Range(s) \cap Range(t) = {}
                => IsInjective(s \o t)
<1> DEFINE a == s \o t
<1>1. /\ a \in Seq(U) /\ Len(a) = Len(s) + Len(t) /\ Len(s) \in Nat /\ Len(t) \in Nat
      /\ DOMAIN a = 1 .. Len(s) + Len(t)
      /\ DOMAIN s = 1 .. Len(s) /\ DOMAIN t = 1 .. Len(t)
      /\ \A i \in 1 .. Len(s) : a[i] = s[i]
      /\ \A i \in 1 .. Len(s) + Len(t) : i > Len(s) => a[i] = t[i - Len(s)]
  OBVIOUS
<1> HIDE DEF a
<1>2. ASSUME NEW y PROVE y \in Range(a) <=> y \in Range(s) \/ y \in Range(t)
  <2>1. ASSUME y \in Range(a) PROVE y \in Range(s) \/ y \in Range(t)
    <3>1. PICK i \in 1 .. Len(s) + Len(t) : y = a[i]
      BY <1>1, <2>1 DEF Range
    <3>2. CASE i <= Len(s)
      BY <1>1, <3>1, <3>2 DEF Range
    <3>3. CASE i > Len(s)
      <4>1. i - Len(s) \in 1 .. Len(t) /\ y = t[i - Len(s)]
        BY <1>1, <3>1, <3>3
      <4> QED
        BY <1>1, <4>1 DEF Range
    <3> QED
      BY <1>1, <3>2, <3>3
  <2>2. ASSUME y \in Range(s) PROVE y \in Range(a)
    BY <1>1, <2>2 DEF Range
  <2>3. ASSUME y \in Range(t) PROVE y \in Range(a)
    <3>1. PICK i \in 1 .. Len(t) : y = t[i]
      BY <1>1, <2>3 DEF Range
    <3>2. i + Len(s) \in 1 .. Len(s) + Len(t) /\ (i + Len(s)) - Len(s) = i
          /\ i + Len(s) > Len(s)
      BY <1>1
    <3>3. a[i + Len(s)] = y
      BY <1>1, <3>1, <3>2
    <3> QED
      BY <1>1, <3>2, <3>3 DEF Range
  <2> QED
    BY <2>1, <2>2, <2>3
<1>3. ASSUME IsInjective(s), IsInjective(t), Range(s) \cap Range(t) = {},
             NEW i \in DOMAIN a, NEW j \in DOMAIN a, a[i] = a[j]
      PROVE  i = j
  <2>1. CASE i <= Len(s) /\ j <= Len(s)
    BY <1>1, <1>3, <2>1 DEF IsInjective
  <2>2. CASE i > Len(s) /\ j > Len(s)
    <3>1. i - Len(s) \in 1 .. Len(t) /\ j - Len(s) \in 1 .. Len(t)
      BY <1>1, <1>3, <2>2
    <3>2. i - Len(s) = j - Len(s)
      BY <1>1, <1>3, <2>2, <3>1 DEF IsInjective
    <3> QED
      BY <1>1, <1>3, <3>2
  <2>3. CASE i <= Len(s) /\ j > Len(s)
    <3>1. j - Len(s) \in 1 .. Len(t) /\ i \in 1 .. Len(s)
      BY <1>1, <1>3, <2>3
    <3>2. a[i] \in Range(s) /\ a[j] \in Range(t)
      BY <1>1, <1>3, <2>3, <3>1 DEF Range
    <3> QED
      BY <1>3, <3>2
  <2>4. CASE i > Len(s) /\ j <= Len(s)
    <3>1. i - Len(s) \in 1 .. Len(t) /\ j \in 1 .. Len(s)
      BY <1>1, <1>3, <2>4
    <3>2. a[j] \in Range(s) /\ a[i] \in Range(t)
      BY <1>1, <1>3, <2>4, <3>1 DEF Range
    <3> QED
      BY <1>3, <3>2
  <2> QED
    BY <1>1, <1>3, <2>1, <2>2, <2>3, <2>4
<1> QED
  BY <1>1, <1>2, <1>3 DEF a, Range, IsInjective

\* What is kept in the first n rounds.
LEMMA KeptRounds ==
  ASSUME NEW U, NEW s \in Seq(U), NEW S, NEW n \in 0 .. Len(s)
  PROVE  /\ KeptUpTo(s, S)[n] \in Seq(U)
         /\ \A x : x \in Range(KeptUpTo(s, S)[n]) <=>
                       x \in S /\ \E j \in 1 .. n : x = s[j]
         /\ IsInjective(s) => IsInjective(KeptUpTo(s, S)[n])
<1> DEFINE f == KeptUpTo(s, S)
           Good(m) == /\ f[m] \in Seq(U)
                      /\ \A x : x \in Range(f[m]) <=>
                                    x \in S /\ \E j \in 1 .. m : x = s[j]
                      /\ IsInjective(s) => IsInjective(f[m])
           N == {m \in Nat : m <= Len(s) => Good(m)}
<1>f. f = [i \in 0 .. Len(s) |-> Round(s, S, f, i)] /\ Len(s) \in Nat
  BY KeptUpToDef
<1> HIDE DEF f
<1>1. 0 \in N
  <2>1. f[0] = <<>>
    BY <1>f DEF Round
  <2>2. Good(0)
    BY <2>1 DEF Range, IsInjective
  <2> QED
    BY <2>2
<1>2. ASSUME NEW m \in Nat, m \in N
      PROVE  m + 1 \in N
  <2> SUFFICES ASSUME m + 1 <= Len(s) PROVE Good(m + 1)
    OBVIOUS
  <2>a. /\ m + 1 \in 0 .. Len(s) /\ m + 1 \in 1 .. Len(s) /\ m <= Len(s)
        /\ m + 1 # 0 /\ (m + 1) - 1 = m
    BY <1>f
  <2>1. /\ f[m + 1] = IF s[m + 1] \in S THEN Append(f[m], s[m + 1]) ELSE f[m]
        /\ s[m + 1] \in U
    <3>1. f[m + 1] = Round(s, S, f, m + 1)
      BY <1>f, <2>a
    <3> QED
      BY <2>a, <3>1 DEF Round
  <2>2. Good(m)
    BY <1>2, <2>a
  <2>3. \A x : (\E j \in 1 .. m + 1 : x = s[j]) <=>
                   x = s[m + 1] \/ \E j \in 1 .. m : x = s[j]
    OBVIOUS
  <2>4. CASE s[m + 1] \notin S
    BY <2>1, <2>2, <2>3, <2>4
  <2>5. CASE s[m + 1] \in S
    <3>1. /\ f[m + 1] = Append(f[m], s[m + 1])
          /\ Range(f[m + 1]) = Range(f[m]) \cup {s[m + 1]}
          /\ f[m + 1] \in Seq(U)
          /\ IsInjective(f[m]) /\ s[m + 1] \notin Range(f[m])
                 => IsInjective(f[m + 1])
      BY <2>1, <2>2, <2>5, AppendRange
    <3>2. IsInjective(s) => s[m + 1] \notin Range(f[m])
      BY <2>a, <2>2 DEF IsInjective
    <3> QED
      BY <2>2, <2>3, <2>5, <3>1, <3>2
  <2> QED
    BY <2>4, <2>5
<1>3. n \in N
  <2> HIDE DEF N
  <2> QED
    BY <1>1, <1>2, NatSet, <1>f
<1> QED
  BY <1>3, <1>f DEF f

\* Only keeps just what is in S, each element once if it was there once.
LEMMA OnlyRange ==
  ASSUME NEW U, NEW s \in Seq(U), NEW S
  PROVE  /\ Only(s, S) \in Seq(U) /\ Range(Only(s, S)) = Range(s) \cap S
         /\ IsInjective(s) => IsInjective(Only(s, S))
<1>1. Len(s) \in 0 .. Len(s) /\ DOMAIN s = 1 .. Len(s)
  OBVIOUS
<1>2. Only(s, S) = KeptUpTo(s, S)[Len(s)]
  BY DEF Only
<1>3. \A x : x \in Range(s) <=> \E j \in 1 .. Len(s) : x = s[j]
  BY <1>1 DEF Range
<1>4. /\ Only(s, S) \in Seq(U)
      /\ \A x : x \in Range(Only(s, S)) <=> x \in S /\ x \in Range(s)
      /\ IsInjective(s) => IsInjective(Only(s, S))
  <2>1. /\ KeptUpTo(s, S)[Len(s)] \in Seq(U)
        /\ \A x : x \in Range(KeptUpTo(s, S)[Len(s)]) <=>
                      x \in S /\ \E j \in 1 .. Len(s) : x = s[j]
        /\ IsInjective(s) => IsInjective(KeptUpTo(s, S)[Len(s)])
    BY <1>1, KeptRounds
  <2> QED
    BY <1>2, <1>3, <2>1
<1> QED
  BY <1>4

\* A loop that parts a list in two loses nothing.
LEMMA OnlyParts ==
  ASSUME NEW U, NEW s \in Seq(U), NEW S, NEW T, Range(s) \subseteq T
  PROVE  Len(Only(s, S)) + Len(Only(s, T \ S)) = Len(s)
<1> DEFINE f == KeptUpTo(s, S)
           g == KeptUpTo(s, T \ S)
           N == {m \in Nat : m <= Len(s) => Len(f[m]) + Len(g[m]) = m}
<1>f. /\ f = [i \in 0 .. Len(s) |-> Round(s, S, f, i)]
      /\ g = [i \in 0 .. Len(s) |-> Round(s, T \ S, g, i)]
      /\ Len(s) \in Nat
  BY KeptUpToDef
<1>g. \A m \in 0 .. Len(s) : f[m] \in Seq(U) /\ g[m] \in Seq(U)
  BY KeptRounds
<1> HIDE DEF f, g
<1>1. 0 \in N
  BY <1>f DEF Round
<1>2. ASSUME NEW m \in Nat, m \in N
      PROVE  m + 1 \in N
  <2> SUFFICES ASSUME m + 1 <= Len(s) PROVE Len(f[m + 1]) + Len(g[m + 1]) = m + 1
    BY <1>f
  <2>a. /\ m + 1 \in 0 .. Len(s) /\ m + 1 \in 1 .. Len(s) /\ m \in 0 .. Len(s)
        /\ m <= Len(s)
        /\ m + 1 # 0 /\ (m + 1) - 1 = m
    BY <1>f
  <2>1. /\ f[m + 1] = IF s[m + 1] \in S THEN Append(f[m], s[m + 1]) ELSE f[m]
        /\ g[m + 1] = IF s[m + 1] \in T \ S THEN Append(g[m], s[m + 1]) ELSE g[m]
        /\ s[m + 1] \in T /\ s[m + 1] \in U
    <3>1. f[m + 1] = Round(s, S, f, m + 1) /\ g[m + 1] = Round(s, T \ S, g, m + 1)
      BY <1>f, <2>a
    <3>2. s[m + 1] \in Range(s) /\ s[m + 1] \in U
      BY <2>a DEF Range
    <3> QED
      BY <2>a, <3>1, <3>2 DEF Round
  <2>2. Len(f[m]) + Len(g[m]) = m /\ f[m] \in Seq(U) /\ g[m] \in Seq(U)
    <3>1. m <= Len(s) => Len(f[m]) + Len(g[m]) = m
      BY <1>2
    <3> QED
      BY <2>a, <1>g, <3>1
  <2>3. Len(f[m]) \in Nat /\ Len(g[m]) \in Nat
    BY <2>2
  <2>b. \A a, b \in Nat : a + b = m => (a + 1) + b = m + 1 /\ a + (b + 1) = m + 1
    OBVIOUS
  <2>4. CASE s[m + 1] \in S
    <3>1. f[m + 1] = Append(f[m], s[m + 1]) /\ g[m + 1] = g[m]
      BY <2>1, <2>4
    <3>2. Len(f[m + 1]) = Len(f[m]) + 1 /\ Len(g[m + 1]) = Len(g[m])
      BY <2>1, <2>2, <3>1
    <3> QED
      BY <2>2, <2>3, <2>b, <3>2
  <2>5. CASE s[m + 1] \notin S
    <3>1. g[m + 1] = Append(g[m], s[m + 1]) /\ f[m + 1] = f[m]
      BY <2>1, <2>5
    <3>2. Len(g[m + 1]) = Len(g[m]) + 1 /\ Len(f[m + 1]) = Len(f[m])
      BY <2>1, <2>2, <3>1
    <3> QED
      BY <2>2, <2>3, <2>b, <3>2
  <2> QED
    BY <2>4, <2>5
<1>3. Len(s) \in N
  <2> HIDE DEF N
  <2> QED
    BY <1>1, <1>2, NatSet, <1>f
<1> QED
  BY <1>3, <1>f DEF f, g, Only

-----------------------------------------------------------------------------
(* The lists of VMMgr.                                                      *)

\* The lists after VMs vs of live_vm_instances are dead.
LEMMA BuriedLists ==
  ASSUME TypeOK, NEW l, ListsOK(l),
         NEW vs \in Seq(VMs), IsInjective(vs), Range(vs) \subseteq Range(l.live)
  PROVE  LET b == Buried(l, vs)
         IN  /\ b \in ListsType /\ b.live = l.live
             /\ IsInjective(b.dead) /\ Range(b.dead) = Range(l.dead) \cup Range(vs)
             /\ IsInjective(b.vnc) /\ Len(b.vnc) = Len(l.vnc) + Len(vs)
             /\ Range(b.vnc) = Range(l.vnc) \cup {vnc_num[v] : v \in Range(vs)}
<1> DEFINE q == [i \in DOMAIN vs |-> vnc_num[vs[i]]]
           b == Buried(l, vs)
<1>1. /\ l.live \in Seq(VMs) /\ l.dead \in Seq(VMs) /\ l.vnc \in Seq(Nat)
      /\ l = [live |-> l.live, dead |-> l.dead, vnc |-> l.vnc]
      /\ vnc_num \in [VMs -> Nat]
  BY DEF ListsOK, ListsType, TypeOK
<1>2. /\ b.live = l.live /\ b.dead = l.dead \o vs /\ b.vnc = l.vnc \o q
      /\ b = [live |-> b.live, dead |-> b.dead, vnc |-> b.vnc]
  <2>1. b = [[l EXCEPT !.dead = @ \o vs] EXCEPT !.vnc = @ \o q]
    BY <1>1 DEF Buried
  <2>2. b = [live |-> l.live, dead |-> l.dead \o vs, vnc |-> l.vnc \o q]
    <3> HIDE DEF b, q
    <3> QED
      BY <1>1, <2>1
  <2> HIDE DEF b, q
  <2> QED
    BY <2>2
<1>3. DOMAIN vs = 1 .. Len(vs) /\ Len(vs) \in Nat /\ \A i \in DOMAIN vs : vs[i] \in VMs
  OBVIOUS
<1>4. q \in Seq(Nat) /\ Len(q) = Len(vs) /\ DOMAIN q = DOMAIN vs
  BY <1>1, <1>3
<1>5. /\ Range(q) = {vnc_num[v] : v \in Range(vs)}
      /\ \A i \in DOMAIN q : q[i] = vnc_num[vs[i]] /\ vs[i] \in Range(vs)
  BY <1>4 DEF Range
<1>6. IsInjective(q) /\ Range(l.vnc) \cap Range(q) = {}
  <2> HIDE DEF q
  <2>1. /\ \A v \in Range(l.live) : vnc_num[v] \notin Range(l.vnc)
        /\ \A v, w \in Range(l.live) : vnc_num[v] = vnc_num[w] => v = w
    BY DEF ListsOK, ListsType
  <2>2. Range(l.vnc) \cap Range(q) = {}
    BY <1>5, <2>1
  <2>3. IsInjective(q)
    BY <1>4, <1>5, <2>1 DEF IsInjective
  <2> QED
    BY <2>2, <2>3
<1>7. Range(l.dead) \cap Range(vs) = {} /\ IsInjective(l.dead) /\ IsInjective(l.vnc)
  BY DEF ListsOK, ListsType
<1> HIDE DEF q, b
<1>8. /\ b.dead \in Seq(VMs) /\ IsInjective(b.dead)
      /\ Range(b.dead) = Range(l.dead) \cup Range(vs)
  BY <1>1, <1>2, <1>7, ConcatRange
<1>9. /\ b.vnc \in Seq(Nat) /\ IsInjective(b.vnc) /\ Len(b.vnc) = Len(l.vnc) + Len(q)
      /\ Range(b.vnc) = Range(l.vnc) \cup Range(q)
  <2>1. l.vnc \in Seq(Nat) /\ q \in Seq(Nat)
    BY <1>1, <1>4
  <2>2. /\ l.vnc \o q \in Seq(Nat) /\ Len(l.vnc \o q) = Len(l.vnc) + Len(q)
        /\ Range(l.vnc \o q) = Range(l.vnc) \cup Range(q)
        /\ IsInjective(l.vnc) /\ IsInjective(q) /\ Range(l.vnc) \cap Range(q) = {}
               => IsInjective(l.vnc \o q)
    BY <2>1, ConcatRange, Zenon
  <2> QED
    BY <1>2, <1>6, <1>7, <2>2, Zenon
<1>10. b \in ListsType
  BY <1>1, <1>2, <1>8, <1>9 DEF ListsType
<1> QED
  BY <1>2, <1>4, <1>5, <1>8, <1>9, <1>10 DEF b

\* search_dead_vm keeps the lists sound and the VMs on them.
LEMMA SearchLists ==
  ASSUME TypeOK, NEW l, ListsOK(l)
  PROVE  ListsOK(SearchDead(l)) /\ Listed(SearchDead(l)) = Listed(l)
<1> DEFINE vs == Only(l.live, Dead)
           ws == Only(l.live, VMs \ Dead)
           b == Buried(l, vs)
           r == SearchDead(l)
<1>1. l.live \in Seq(VMs) /\ IsInjective(l.live)
  BY DEF ListsOK, ListsType
<1>2. Range(l.live) \subseteq VMs
  BY <1>1 DEF Range
<1>3. /\ vs \in Seq(VMs) /\ Range(vs) = Range(l.live) \cap Dead /\ IsInjective(vs)
      /\ ws \in Seq(VMs) /\ Range(ws) = Range(l.live) \cap (VMs \ Dead)
      /\ IsInjective(ws)
  BY <1>1, OnlyRange
<1>4. Len(vs) + Len(ws) = Len(l.live)
  BY <1>1, <1>2, OnlyParts
<1> HIDE DEF vs, ws
<1>5. /\ b \in ListsType /\ b.live = l.live
      /\ IsInjective(b.dead) /\ Range(b.dead) = Range(l.dead) \cup Range(vs)
      /\ IsInjective(b.vnc) /\ Len(b.vnc) = Len(l.vnc) + Len(vs)
      /\ Range(b.vnc) = Range(l.vnc) \cup {vnc_num[v] : v \in Range(vs)}
  BY <1>3, BuriedLists
<1>6. r = [b EXCEPT !.live = ws]
  BY <1>5 DEF SearchDead, vs, ws
<1> HIDE DEF b
<1>7. r.live = ws /\ r.dead = b.dead /\ r.vnc = b.vnc /\ r \in ListsType
  BY <1>3, <1>5, <1>6 DEF ListsType
<1> HIDE DEF r
<1>8. Len(r.vnc) + Len(r.live) = run_limit
  <2>1. Len(vs) \in Nat /\ Len(ws) \in Nat /\ Len(l.vnc) \in Nat /\ Len(l.live) \in Nat
    BY <1>1, <1>3 DEF ListsOK, ListsType
  <2>2. Len(l.vnc) + Len(l.live) = run_limit
    BY DEF ListsOK, ListsType
  <2> QED
    <3>1. (Len(l.vnc) + Len(vs)) + Len(ws) = Len(l.vnc) + Len(l.live)
      <4> DEFINE x == Len(vs)
                 y == Len(ws)
                 z == Len(l.vnc)
                 n == Len(l.live)
      <4>1. x \in Nat /\ y \in Nat /\ z \in Nat /\ n \in Nat /\ x + y = n
        BY <1>4, <2>1
      <4> HIDE DEF x, y, z, n
      <4>2. (z + x) + y = z + n
        BY <4>1
      <4> QED
        BY <4>2 DEF x, y, z, n
    <3> QED
      BY <1>5, <1>7, <2>2, <3>1
<1>9. Range(ws) \cup Range(vs) = Range(l.live) /\ Range(ws) \cap Range(vs) = {}
  BY <1>2, <1>3
<1>10. running \subseteq Range(ws)
  BY <1>2, <1>3 DEF ListsOK, ListsType, Dead, TypeOK
<1>11. /\ \A v \in Range(ws) : vnc_num[v] \notin Range(r.vnc)
       /\ \A v, w \in Range(ws) : vnc_num[v] = vnc_num[w] => v = w
  BY <1>5, <1>7, <1>9 DEF ListsOK
<1>12. Range(r.live) \cap Range(r.dead) = {}
  BY <1>5, <1>7, <1>9 DEF ListsOK, ListsType
<1>13. ListsOK(r)
  BY <1>3, <1>5, <1>7, <1>8, <1>10, <1>11, <1>12 DEF ListsOK, ListsType
<1>14. Listed(r) = Listed(l)
  BY <1>5, <1>7, <1>9 DEF Listed
<1> QED
  BY <1>13, <1>14 DEF r

-----------------------------------------------------------------------------
(* The pool of ssh configurations.                                          *)

PoolInv == PoolTypeOK /\ HeldNotFree /\ NoneLost /\ PortsOK

\* What alloc_ssh_config hands out nobody held.
LEMMA AllocSound ==
  ASSUME PoolInv, pool = "open", NEW c, Alloc(c)
  PROVE  /\ PoolInv'
         /\ c # NoConf => /\ c \in Ports /\ c \notin held /\ held' = held \cup {c}
                          /\ pool' = "open"
                          /\ NoConf \notin Range(using_pool)
                                 => NoConf \notin Range(using_pool)'
<1> USE PoolAssumption
<1>t. /\ free_pool \in Seq(Ports) /\ using_pool \in Seq(Ports \cup {NoConf})
      /\ IsInjective(free_pool) /\ held \cap Range(free_pool) = {}
  BY DEF PoolInv, PoolTypeOK, HeldNotFree, IsInjective
<1>p. \A p \in Ports : p # NoConf /\ p \in Nat
  BY DEF Ports, NoConf
<1>1. CASE c = NoConf /\ UNCHANGED poolVars
  BY <1>1 DEF poolVars, PoolInv, PoolTypeOK, HeldNotFree, NoneLost, PortsOK
<1>2. CASE /\ free_pool # <<>> /\ c = Head(free_pool) /\ free_pool' = Taken
           /\ held' = held \cup {c}
           /\ UNCHANGED <<using_pool, glo_start_port, file, backup, pool, hosts>>
  <2>1. /\ Taken \in Seq(Ports) /\ IsInjective(Taken) /\ c \in Range(free_pool)
        /\ Range(Taken) = Range(free_pool) \ {c}
    BY <1>t, <1>2, TailRange DEF Taken
  <2>2. c \in Ports /\ c \notin held /\ c # NoConf
    BY <1>t, <1>p, <2>1 DEF Range
  <2>3. PoolTypeOK' /\ NoneLost'
    BY <1>2, <2>1, <2>2 DEF PoolInv, PoolTypeOK, NoneLost
  <2>4. HeldNotFree' /\ PortsOK'
    BY <1>t, <1>2, <2>1, <2>2 DEF PoolInv, HeldNotFree, PortsOK, IsInjective
  <2> QED
    BY <1>2, <2>2, <2>3, <2>4 DEF PoolInv
<1>3. ASSUME free_pool = <<>>, NEW p \in PortsLeft, p \in file, c = NoConf,
             pool' = "died", UNCHANGED <<glo_start_port, file, using_pool, held>>,
             UNCHANGED <<free_pool, backup, hosts>>
      PROVE  PoolInv'
  BY <1>3 DEF PoolInv, PoolTypeOK, HeldNotFree, NoneLost, PortsOK
<1>4. ASSUME free_pool = <<>>, NEW p \in PortsLeft, c = p, glo_start_port' = p + 1,
             file' = file \cup {p}, using_pool' = Append(using_pool, p),
             held' = held \cup {p}, UNCHANGED <<pool, free_pool, backup, hosts>>
      PROVE  /\ PoolInv' /\ c \in Ports /\ c \notin held /\ c # NoConf
             /\ NoConf \notin Range(using_pool) => NoConf \notin Range(using_pool)'
  <2>1. p \in Ports /\ p >= glo_start_port /\ p \in Nat /\ glo_start_port \in Nat
        /\ FIRST_PORT_NUM <= glo_start_port
    BY <1>4 DEF PortsLeft, Ports, PoolInv, PoolTypeOK, PortsOK
  <2>2. p \notin held /\ \A q \in held : q \in Nat /\ q < p + 1
    BY <1>p, <2>1 DEF PoolInv, PortsOK, PoolTypeOK
  <2>3. /\ Append(using_pool, p) \in Seq(Ports \cup {NoConf})
        /\ Range(Append(using_pool, p)) = Range(using_pool) \cup {p}
    BY <1>t, <2>1, AppendRange
  <2>4. Range(free_pool) = {}
    BY <1>4 DEF Range
  <2>5. PoolTypeOK'
    BY <1>4, <2>1, <2>3 DEF PoolInv, PoolTypeOK
  <2>6. HeldNotFree' /\ NoneLost'
    BY <1>4, <2>3, <2>4 DEF PoolInv, HeldNotFree, NoneLost
  <2>7. PortsOK'
    BY <1>4, <2>1, <2>2, <2>4 DEF PortsOK
  <2> QED
    BY <1>4, <1>p, <2>1, <2>2, <2>3, <2>5, <2>6, <2>7 DEF PoolInv
<1>5. CASE /\ c = NoConf /\ using_pool' = Append(using_pool, NoConf)
           /\ UNCHANGED <<free_pool, glo_start_port, file, backup, held, pool, hosts>>
  <2>1. /\ Append(using_pool, NoConf) \in Seq(Ports \cup {NoConf})
        /\ Range(Append(using_pool, NoConf)) = Range(using_pool) \cup {NoConf}
    BY <1>t, AppendRange
  <2> QED
    BY <1>5, <2>1 DEF PoolInv, PoolTypeOK, HeldNotFree, NoneLost, PortsOK
<1> QED
  BY <1>1, <1>2, <1>3, <1>4, <1>5 DEF Alloc

\* What is given back is free for the next caller.
LEMMA DeallocSound ==
  ASSUME PoolInv, NEW c \in held, Dealloc(c)
  PROVE  PoolInv' /\ held' = held \ {c} /\ pool' = pool
         /\ Range(using_pool)' = Range(using_pool) \ {c}
<1>t. /\ free_pool \in Seq(Ports) /\ using_pool \in Seq(Ports \cup {NoConf})
      /\ IsInjective(free_pool) /\ c \notin Range(free_pool) /\ c \in Ports
  BY DEF PoolInv, PoolTypeOK, HeldNotFree, IsInjective
<1>1. using_pool' \in Seq(Ports \cup {NoConf})
      /\ Range(using_pool)' = Range(using_pool) \ {c}
  <2> DEFINE S == Range(using_pool) \ {c}
  <2>1. Only(using_pool, S) \in Seq(Ports \cup {NoConf})
        /\ Range(Only(using_pool, S)) = Range(using_pool) \cap S
    BY <1>t, OnlyRange
  <2> QED
    BY <2>1 DEF Dealloc
<1>2. free_pool' = Append(free_pool, c)
  BY <1>t DEF Dealloc, Returned
<1>3. /\ free_pool' \in Seq(Ports) /\ Range(free_pool)' = Range(free_pool) \cup {c}
      /\ IsInjective(free_pool)'
  BY <1>t, <1>2, AppendRange
<1>4. held' = held \ {c} /\ UNCHANGED <<glo_start_port, file, backup, pool, hosts>>
  BY DEF Dealloc
<1>5. PoolTypeOK' /\ NoneLost'
  BY <1>1, <1>3, <1>4 DEF PoolInv, PoolTypeOK, NoneLost
<1>6. HeldNotFree'
  BY <1>3, <1>4 DEF PoolInv, HeldNotFree, IsInjective
<1>7. PortsOK'
  BY <1>3, <1>4 DEF PoolInv, PortsOK
<1> QED
  BY <1>1, <1>4, <1>5, <1>6, <1>7 DEF PoolInv

-----------------------------------------------------------------------------
(* The steps of the host.                                                   *)

\* The invariant holds of the first host before it does anything.
LEMMA InitIInv == Init => IInv
<1> SUFFICES ASSUME Init PROVE IInv
  OBVIOUS
<1> USE PoolAssumption, MgrAssumption
<1>1. /\ AllVnc \in Seq(Nat) /\ Len(AllVnc) = run_limit /\ IsInjective(AllVnc)
  BY DEF AllVnc, IsInjective
<1>2. Range(<<>>) = {} /\ IsInjective(<<>>)
  BY DEF Range, IsInjective
<1>3. TypeOK
  BY <1>1 DEF Init, PoolInit, TypeOK, PoolTypeOK, VMs
<1>4. HeldNotFree /\ NoneLost /\ PortsOK
  BY <1>2, <1>3 DEF Init, PoolInit, HeldNotFree, NoneLost, PortsOK
<1>5. ListsOK(Lists) /\ GivenOK /\ PhaseOK
  BY <1>1, <1>2, <1>3 DEF Init, PoolInit, Lists, ListsOK, ListsType, GivenOK, PhaseOK, Listed
<1>6. NoSharing /\ CleanUp
  BY DEF Init, NoSharing, CleanUp
<1> QED
  BY <1>3, <1>4, <1>5, <1>6 DEF IInv, PoolSound

\* A step that leaves what the VMs were given alone, and starts none, makes no
\* two VMs share anything.
LEMMA StillNoSharing ==
  ASSUME NoSharing, UNCHANGED given, running' \subseteq running
  PROVE  NoSharing'
BY DEF NoSharing, given

\* The first dead VM gives back what it was given.
LEMMA ReclaimSound ==
  ASSUME IInv, phase \notin {"aborted", "done"}, NEW l, ListsOK(l),
         Listed(l) = Listed(Lists), l.dead # <<>>, Reclaim(Head(l.dead), l)
  PROVE  /\ PoolInv' /\ ListsOK(Lists)' /\ Lists'.live = l.live
         /\ phase' # "aborted" /\ made' = made => GivenOK'
         /\ started' = started /\ running' = running /\ UNCHANGED given
         /\ images' \in SUBSET VMs
<1> DEFINE v == Head(l.dead)
           c == ssh_config[v]
<1>g. GivenOK /\ TypeOK /\ PoolInv
  BY DEF IInv, PoolSound, TypeOK, PoolInv
<1>l. /\ l.live \in Seq(VMs) /\ l.dead \in Seq(VMs) /\ l.vnc \in Seq(Nat)
      /\ l = [live |-> l.live, dead |-> l.dead, vnc |-> l.vnc]
      /\ IsInjective(l.dead) /\ Range(l.live) \cap Range(l.dead) = {}
  BY DEF ListsOK, ListsType
<1>1. /\ Tail(l.dead) \in Seq(VMs) /\ IsInjective(Tail(l.dead))
      /\ v \in Range(l.dead) /\ Range(Tail(l.dead)) = Range(l.dead) \ {v}
  BY <1>l, TailRange
<1> HIDE DEF v
<1>2. v \in Listed(Lists) /\ v \in VMs
  <2>1. v \in Listed(l)
    BY <1>1 DEF Listed
  <2>2. v \in VMs
    BY <1>1, <1>l DEF Range
  <2> QED
    BY <2>1, <2>2
<1>3. c \in held /\ Dealloc(c)
  BY <1>2, <1>g DEF GivenOK, Reclaim, v
<1>4. /\ PoolInv' /\ held' = held \ {c} /\ pool' = pool
      /\ Range(using_pool)' = Range(using_pool) \ {c}
  BY <1>3, <1>g, DeallocSound
<1>5. Unlisted(l) = [live |-> l.live, dead |-> Tail(l.dead), vnc |-> l.vnc]
  <2> DEFINE t == Tail(l.dead)
  <2>1. Unlisted(l) = [l EXCEPT !.dead = t]
    BY DEF Unlisted
  <2> HIDE DEF t
  <2>2. [l EXCEPT !.dead = t] = [live |-> l.live, dead |-> t, vnc |-> l.vnc]
    BY <1>l
  <2> QED
    BY <2>1, <2>2 DEF t
<1>6. /\ Lists' = Unlisted(l)
      /\ images' = images \ {v} /\ UNCHANGED <<vnc_num, ssh_config, started, running>>
  BY <1>5 DEF Reclaim, SetLists, Lists, given, v
<1>7. ListsOK(Lists)'
  BY <1>1, <1>5, <1>6 DEF ListsOK, ListsType
<1>8. Listed(Lists)' = Listed(Lists) \ {v}
  BY <1>1, <1>l, <1>5, <1>6 DEF Listed
<1>9. ASSUME phase' # "aborted", made' = made PROVE GivenOK'
  <2>1. \A w \in Listed(Lists) : w # v => ssh_config[w] # c
    BY <1>2, <1>g DEF GivenOK
  <2>2. held' = {ssh_config[w] : w \in Listed(Lists) \ {v}}
    BY <1>4, <1>g, <2>1 DEF GivenOK
  <2> QED
    BY <1>4, <1>6, <1>8, <1>9, <1>g, <2>2 DEF GivenOK
<1> QED
  BY <1>4, <1>5, <1>6, <1>7, <1>9, <1>g DEF given, TypeOK

\* What a step that ends in another phase than "done" has to establish.
LEMMA Established ==
  ASSUME PoolInv', TypeOK', phase' # "done",
         phase' = "aborted" => NoSharing',
         phase' # "aborted" => ListsOK(Lists)' /\ GivenOK' /\ PhaseOK'
  PROVE  IInv'
<1>1. NoSharing'
  <2>1. CASE phase' # "aborted"
    BY <2>1 DEF ListsOK, ListsType, GivenOK, NoSharing, Listed
  <2> QED
    BY <2>1
<1>2. CleanUp'
  BY DEF CleanUp
<1> QED
  BY <1>1, <1>2 DEF IInv, PoolSound, PoolInv

\* A step that leaves the pool alone.
LEMMA PoolKept == ASSUME PoolInv, UNCHANGED poolVars PROVE PoolInv'
BY DEF PoolInv, poolVars, PoolTypeOK, HeldNotFree, NoneLost, PortsOK

\* create_vm, up to its sleep.
LEMMA CreateStep == ASSUME IInv, CreateVm PROVE IInv'
<1> DEFINE l == IF Exceed(Lists) THEN SearchDead(Lists) ELSE Lists
           r == SearchDead(l)
<1>1. /\ TypeOK /\ PoolInv /\ NoSharing /\ ListsOK(Lists) /\ GivenOK /\ PhaseOK
      /\ phase = "create" /\ made' = made
  BY DEF IInv, PoolSound, TypeOK, PoolInv, CreateVm
<1>2. ListsOK(l) /\ Listed(l) = Listed(Lists)
  BY <1>1, SearchLists
<1> HIDE DEF l
<1>3. ListsOK(r) /\ Listed(r) = Listed(Lists)
  BY <1>1, <1>2, SearchLists
<1> HIDE DEF r
<1>4. ASSUME NEW x, ListsOK(x), Listed(x) = Listed(Lists), SetLists(x),
             UNCHANGED <<poolVars, given, started, running, images>>,
             phase' \in {"alloc", "aborted"}, faults' \in 0 .. MaxFaults
      PROVE  IInv'
  <2>1. x = [live |-> x.live, dead |-> x.dead, vnc |-> x.vnc]
        /\ x.live \in Seq(VMs) /\ x.dead \in Seq(VMs) /\ x.vnc \in Seq(Nat)
    BY <1>4 DEF ListsOK, ListsType
  <2>2. Lists' = x
    BY <1>4, <2>1 DEF SetLists, Lists
  <2>3. UNCHANGED <<vnc_num, ssh_config, running, held, images, using_pool, pool>>
    BY <1>4 DEF given, poolVars
  <2>4. ListsOK(Lists)'
    BY <1>4, <2>2, <2>3 DEF ListsOK, ListsType
  <2>5. Listed(Lists)' = Listed(Lists)
    BY <1>4, <2>2 DEF Listed
  <2>6. GivenOK'
    BY <1>1, <1>4, <2>3, <2>5 DEF GivenOK
  <2>7. PhaseOK'
    BY <1>1, <1>4 DEF PhaseOK
  <2>8. TypeOK'
    BY <1>1, <1>4, <2>1 DEF TypeOK, PoolTypeOK, SetLists, given, poolVars
  <2>9. NoSharing' /\ PoolInv'
    BY <1>1, <1>4, <2>3, StillNoSharing, PoolKept
  <2> QED
    BY <1>4, <2>4, <2>6, <2>7, <2>8, <2>9, Established
<1>5. ASSUME r.dead # <<>>, Reclaim(Head(r.dead), r), Spend("space"), phase' = "alloc"
      PROVE  IInv'
  <2>1. /\ PoolInv' /\ ListsOK(Lists)' /\ GivenOK'
        /\ started' = started /\ running' = running /\ UNCHANGED given
        /\ images' \in SUBSET VMs
    BY <1>1, <1>3, <1>5, ReclaimSound
  <2>2. PhaseOK'
    BY <1>1, <1>5 DEF PhaseOK
  <2>3. /\ live_vm_instances' \in Seq(VMs) /\ dead_vm_instances' \in Seq(VMs)
        /\ vnc_num_list' \in Seq(Nat)
    BY <2>1 DEF ListsOK, ListsType, Lists
  <2>4. TypeOK'
    <3>1. faults' \in 0 .. MaxFaults
      BY <1>1, <1>5, MgrAssumption DEF TypeOK, Spend
    <3> QED
      BY <1>1, <1>5, <2>1, <2>3, <3>1 DEF TypeOK, PoolInv, given
  <2> QED
    BY <1>5, <2>1, <2>2, <2>4, Established
<1>6. CASE /\ Unless(Exceed(l), "alloc") /\ SetLists(l)
           /\ UNCHANGED <<poolVars, given, started, running, images, faults>>
  <2>1. phase' \in {"alloc", "aborted"} /\ faults' \in 0 .. MaxFaults
    BY <1>1, <1>6 DEF Unless, TypeOK
  <2> QED
    BY <1>2, <1>4, <1>6, <2>1
<1>7. CASE /\ Spend("space") /\ r.dead = <<>> /\ Goto("aborted") /\ SetLists(r)
           /\ UNCHANGED <<poolVars, given, started, running, images>>
  <2>1. phase' \in {"alloc", "aborted"} /\ faults' \in 0 .. MaxFaults
    BY <1>1, <1>7, MgrAssumption DEF Goto, TypeOK, Spend
  <2> QED
    BY <1>3, <1>4, <1>7, <2>1
<1> QED
  BY <1>5, <1>6, <1>7 DEF CreateVm, Goto, l, r

\* The rest of create_vm.
LEMMA AllocStep == ASSUME IInv, AllocVm PROVE IInv'
<1>1. /\ TypeOK /\ PoolInv /\ NoSharing /\ ListsOK(Lists) /\ GivenOK /\ PhaseOK
      /\ phase = "alloc" /\ UNCHANGED <<dead_vm_instances, started, running, faults>>
      /\ pool = "open" /\ made \in 0 .. num_vms
  BY DEF IInv, PoolSound, TypeOK, PoolInv, AllocVm, GivenOK, PhaseOK
<1>2. PICK c :
         /\ Alloc(c)
         /\ IF c # NoConf /\ vnc_num_list # <<>> /\ (made = Base \/ Base \in images)
            THEN /\ Goto("start")
                 /\ made' = made + 1
                 /\ vnc_num' = [vnc_num EXCEPT ![made] = Head(vnc_num_list)]
                 /\ ssh_config' = [ssh_config EXCEPT ![made] = c]
                 /\ vnc_num_list' = VncTaken
                 /\ live_vm_instances' = Append(live_vm_instances, made)
                 /\ images' = images \cup {made}
            ELSE /\ Goto("aborted")
                 /\ UNCHANGED <<made, given, vnc_num_list, live_vm_instances, images>>
  BY DEF AllocVm
<1>3. /\ PoolInv'
      /\ c # NoConf => /\ c \in Ports /\ c \notin held /\ held' = held \cup {c}
                       /\ pool' = "open"
                       /\ NoConf \notin Range(using_pool)
                              => NoConf \notin Range(using_pool)'
  BY <1>1, <1>2, AllocSound
<1>4. CASE ~(c # NoConf /\ vnc_num_list # <<>> /\ (made = Base \/ Base \in images))
  <2>1. /\ phase' = "aborted"
        /\ UNCHANGED <<made, given, vnc_num_list, live_vm_instances, images>>
    BY <1>2, <1>4 DEF Goto
  <2>2. TypeOK' /\ NoSharing'
    BY <1>1, <1>3, <2>1, StillNoSharing DEF TypeOK, PoolInv, given
  <2> QED
    BY <1>3, <2>1, <2>2, Established
<1>5. CASE c # NoConf /\ vnc_num_list # <<>> /\ (made = Base \/ Base \in images)
  <2>1. /\ phase' = "start" /\ made' = made + 1
        /\ vnc_num' = [vnc_num EXCEPT ![made] = Head(vnc_num_list)]
        /\ ssh_config' = [ssh_config EXCEPT ![made] = c]
        /\ vnc_num_list' = Tail(vnc_num_list)
        /\ live_vm_instances' = Append(live_vm_instances, made)
        /\ images' = images \cup {made}
    BY <1>2, <1>5 DEF Goto, VncTaken
  <2>2. /\ live_vm_instances \in Seq(VMs) /\ dead_vm_instances \in Seq(VMs)
        /\ vnc_num_list \in Seq(Nat)
        /\ IsInjective(live_vm_instances) /\ IsInjective(dead_vm_instances)
        /\ IsInjective(vnc_num_list)
        /\ Range(live_vm_instances) \cap Range(dead_vm_instances) = {}
        /\ running \subseteq Range(live_vm_instances)
        /\ Len(vnc_num_list) + Len(live_vm_instances) = run_limit
        /\ \A v \in Range(live_vm_instances) : vnc_num[v] \notin Range(vnc_num_list)
        /\ \A v, w \in Range(live_vm_instances) : vnc_num[v] = vnc_num[w] => v = w
    BY <1>1 DEF ListsOK, ListsType, Lists
  <2>3. made \in VMs /\ made \notin Listed(Lists) /\ made \in Nat
    BY <1>1, MgrAssumption DEF VMs, GivenOK
  <2>4. made \notin Range(live_vm_instances) /\ made \notin Range(dead_vm_instances)
    BY <2>3 DEF Listed, Lists
  <2>5. /\ live_vm_instances' \in Seq(VMs) /\ IsInjective(live_vm_instances')
        /\ Len(live_vm_instances') = Len(live_vm_instances) + 1
        /\ Range(live_vm_instances') = Range(live_vm_instances) \cup {made}
    BY <2>1, <2>2, <2>3, <2>4, AppendRange
  <2>6. /\ vnc_num_list' \in Seq(Nat) /\ IsInjective(vnc_num_list')
        /\ Len(vnc_num_list') = Len(vnc_num_list) - 1
        /\ Head(vnc_num_list) \in Range(vnc_num_list)
        /\ Range(vnc_num_list') = Range(vnc_num_list) \ {Head(vnc_num_list)}
    BY <1>5, <2>1, <2>2, TailRange
  <2>7. Head(vnc_num_list) \in Nat
    BY <1>5, <2>2
  <2> DEFINE h == Head(vnc_num_list)
  <2> HIDE DEF h
  <2>8. /\ vnc_num' \in [VMs -> Nat] /\ ssh_config' \in [VMs -> Ports \cup {NoConf}]
        /\ vnc_num'[made] = h /\ ssh_config'[made] = c
        /\ \A v \in VMs : v # made => vnc_num'[v] = vnc_num[v]
                                      /\ ssh_config'[v] = ssh_config[v]
    BY <1>1, <1>3, <1>5, <2>1, <2>3, <2>7 DEF TypeOK, h
  <2>9. Range(live_vm_instances) \subseteq VMs /\ Range(dead_vm_instances) \subseteq VMs
    BY <2>2 DEF Range
  <2>10. /\ \A v \in Range(live_vm_instances') : vnc_num'[v] \notin Range(vnc_num_list')
         /\ \A v, w \in Range(live_vm_instances') : vnc_num'[v] = vnc_num'[w] => v = w
    <3>1. h \in Range(vnc_num_list) /\ Range(vnc_num_list') = Range(vnc_num_list) \ {h}
      BY <2>6 DEF h
    <3>2. \A v \in Range(live_vm_instances) :
             v # made /\ vnc_num'[v] = vnc_num[v] /\ vnc_num'[v] # h
      BY <2>2, <2>4, <2>8, <2>9, <3>1
    <3> QED
      BY <2>2, <2>5, <2>8, <3>1, <3>2
  <2>11. Len(vnc_num_list') + Len(live_vm_instances') = run_limit
    <3> DEFINE x == Len(vnc_num_list)
               y == Len(live_vm_instances)
    <3>1. x \in Nat /\ y \in Nat /\ x + y = run_limit
      BY <2>2
    <3> HIDE DEF x, y
    <3>2. (x - 1) + (y + 1) = x + y
      BY <3>1
    <3> QED
      BY <2>5, <2>6, <3>1, <3>2 DEF x, y
  <2>12. ListsOK(Lists)'
    <3>1. /\ Range(live_vm_instances') \cap Range(dead_vm_instances') = {}
          /\ running' \subseteq Range(live_vm_instances')
      BY <1>1, <2>2, <2>4, <2>5
    <3> QED
      BY <1>1, <2>2, <2>5, <2>6, <2>10, <2>11, <3>1 DEF ListsOK, ListsType, Lists
  <2>13. Listed(Lists)' = Listed(Lists) \cup {made}
    BY <1>1, <2>5 DEF Listed, Lists
  <2>14. GivenOK'
    <3>1. Listed(Lists) \subseteq VMs
      BY <2>9 DEF Listed, Lists
    <3>2. \A v \in Listed(Lists) : ssh_config[v] # c /\ ssh_config'[v] = ssh_config[v]
      BY <1>1, <1>3, <1>5, <2>3, <2>8, <3>1 DEF GivenOK
    <3>3. held' = {ssh_config'[v] : v \in Listed(Lists)'}
      BY <1>1, <1>3, <1>5, <2>8, <2>13, <3>2 DEF GivenOK
    <3>4. \A v, w \in Listed(Lists)' : ssh_config'[v] = ssh_config'[w] => v = w
      BY <1>1, <2>8, <2>13, <3>2 DEF GivenOK
    <3>5. \A v \in Listed(Lists)' : v < made'
      BY <1>1, <2>1, <2>3, <2>13, <3>1, MgrAssumption DEF GivenOK, VMs
    <3> QED
      BY <1>1, <1>3, <1>5, <2>1, <2>13, <3>3, <3>4, <3>5 DEF GivenOK
  <2>15. PhaseOK'
    BY <1>1, <2>1, <2>3, <2>5 DEF PhaseOK
  <2>16. TypeOK'
    <3>1. made' \in 0 .. num_vms + 1
      BY <1>1, <2>1, MgrAssumption
    <3> QED
      BY <1>1, <1>3, <2>1, <2>3, <2>5, <2>6, <2>8, <3>1 DEF TypeOK, PoolInv
  <2> QED
    BY <1>3, <2>1, <2>12, <2>14, <2>15, <2>16, Established
<1> QED
  BY <1>4, <1>5

\* A step that only starts or ends a qemu process.
LEMMA RunStep ==
  ASSUME IInv, phase \notin {"done", "aborted"},
         UNCHANGED <<poolVars, made, mgrLists, given, images>>,
         started' \subseteq VMs, running' \subseteq started', faults' \in 0 .. MaxFaults,
         phase' \in {"create", "build", "wait", "run", "kill", phase, "aborted"},
         phase' = "aborted" => running' \subseteq running,
         phase' # "aborted" => running' \subseteq Range(live_vm_instances) /\ PhaseOK'
  PROVE  IInv'
<1>1. /\ TypeOK /\ PoolInv /\ NoSharing /\ ListsOK(Lists) /\ GivenOK
      /\ phase' # "done" /\ Lists' = Lists
  BY DEF IInv, PoolSound, TypeOK, PoolInv, mgrLists, Lists
<1>2. TypeOK'
  BY <1>1 DEF TypeOK, PoolTypeOK, poolVars, mgrLists, given
<1>3. PoolInv' /\ (phase' = "aborted" => NoSharing')
  BY <1>1, PoolKept, StillNoSharing
<1>4. ASSUME phase' # "aborted"
      PROVE  ListsOK(Lists)' /\ GivenOK'
  <2>1. UNCHANGED <<vnc_num, ssh_config, made, held, images, using_pool, pool>>
    BY DEF given, poolVars
  <2>2. running' \subseteq Range(Lists.live)
    BY <1>4 DEF Lists
  <2>3. Listed(Lists)' = Listed(Lists)
    BY <1>1 DEF Listed
  <2>4. ListsOK(Lists)'
    BY <1>1, <1>4, <2>1, <2>2 DEF ListsOK, ListsType
  <2>5. GivenOK'
    BY <1>1, <1>4, <2>1, <2>3 DEF GivenOK
  <2> QED
    BY <2>4, <2>5
<1> QED
  BY <1>1, <1>2, <1>3, <1>4, Established

\* The host's steps that start VMs and wait for them, and the end of a qemu
\* process.
LEMMA RunSteps ==
  ASSUME IInv,
         \/ StartVm \/ BuildBase \/ WaitAll \/ EndMonitor
         \/ \E v \in VMs : QemuDies(v) \/ (v # Base /\ Restart(v))
  PROVE  IInv'
<1> USE MgrAssumption
<1>t. /\ started \subseteq VMs /\ running \subseteq started /\ faults \in 0 .. MaxFaults
      /\ made \in 0 .. (num_vms + 1)
      /\ phase # "aborted" => PhaseOK /\ running \subseteq Range(live_vm_instances)
  BY DEF IInv, PoolSound, TypeOK, ListsOK, Lists
<1>s. \A k : Spend(k) => faults' \in 0 .. MaxFaults
  BY <1>t DEF Spend
<1>n. NextVm \in {"wait", "create"} /\ (NextVm = "create" => made <= num_vms)
  BY <1>t DEF NextVm
<1>1. CASE StartVm
  <2>1. /\ phase = "start" /\ started' = started \cup {made - 1}
        /\ UNCHANGED <<poolVars, made, mgrLists, given, images>>
        /\ \/ /\ phase' \in {"build", "wait", "create"}
              /\ phase' = "create" => made <= num_vms
              /\ running' = running \cup {made - 1} /\ faults' = faults
           \/ phase' = "aborted" /\ running' = running /\ Spend("start")
    BY <1>1, <1>n DEF StartVm, Goto
  <2>2. made - 1 \in VMs /\ made - 1 \in Range(live_vm_instances)
    BY <1>t, <2>1 DEF PhaseOK, VMs
  <2>3. phase' # "aborted" => PhaseOK'
    BY <2>1 DEF PhaseOK
  <2> QED
    BY <1>t, <1>s, <2>1, <2>2, <2>3, RunStep
<1>2. CASE BuildBase
  <2>1. /\ phase = "build" /\ started' = started /\ running' \subseteq running
        /\ UNCHANGED <<poolVars, made, mgrLists, given, images>>
        /\ phase' \in {"wait", "create", "kill", "aborted"}
        /\ phase' = "create" => made <= num_vms
        /\ faults' = faults \/ Spend("shutdown")
    BY <1>2, <1>n DEF BuildBase, Goto
  <2>2. phase' # "aborted" => PhaseOK'
    BY <2>1 DEF PhaseOK
  <2> QED
    BY <1>t, <1>s, <2>1, <2>2, RunStep
<1>3. CASE WaitAll
  <2>1. /\ phase = "wait" /\ UNCHANGED <<started, running>>
        /\ UNCHANGED <<poolVars, made, mgrLists, given, images, live_vm_instances>>
        /\ \/ phase' = "run" /\ 1 .. num_vms \subseteq running
           \/ phase' = "aborted"
        /\ faults' = faults \/ Spend("access")
    BY <1>3 DEF WaitAll, Goto, Unless, vmVars, mgrLists
  <2>2. phase' # "aborted" => PhaseOK'
    BY <1>t, <2>1 DEF PhaseOK
  <2> QED
    BY <1>t, <1>s, <2>1, <2>2, RunStep
<1>4. CASE EndMonitor
  <2>1. /\ phase = "run" /\ phase' = "kill" /\ UNCHANGED <<started, running, faults>>
        /\ UNCHANGED <<poolVars, made, mgrLists, given, images>>
    BY <1>4 DEF EndMonitor, Goto, vmVars
  <2>2. PhaseOK'
    BY <2>1 DEF PhaseOK
  <2> QED
    BY <1>t, <2>1, <2>2, RunStep
<1>5. ASSUME NEW v \in VMs, QemuDies(v) PROVE IInv'
  <2>1. /\ phase' = phase /\ phase \notin {"done", "aborted"} /\ Spend("qemu")
        /\ running' = running \ {v} /\ started' = started
        /\ UNCHANGED <<poolVars, made, mgrLists, given, images, live_vm_instances>>
    BY <1>5 DEF QemuDies, mgrLists
  <2>2. PhaseOK'
    BY <1>t, <2>1 DEF PhaseOK
  <2> QED
    BY <1>t, <1>s, <2>1, <2>2, RunStep
<1>6. ASSUME NEW v \in VMs, v # Base, Restart(v) PROVE IInv'
  <2>1. /\ phase = "run" /\ phase' \in {"run", "aborted"}
        /\ \/ faults' = faults
           \/ Spend("start")
           \/ Spend("kill")
        /\ running' \subseteq running \cup {v} /\ started' = started
        /\ phase' = "aborted" => running' = running
        /\ UNCHANGED <<poolVars, made, mgrLists, given, images, live_vm_instances>>
    BY <1>6 DEF Restart, Goto, mgrLists
  <2>2. v \in 1 .. num_vms
    BY <1>6 DEF VMs, Base
  <2>3. v \in started /\ v \in Range(live_vm_instances)
    BY <1>t, <2>1, <2>2 DEF PhaseOK
  <2>4. phase' # "aborted" => PhaseOK'
    BY <1>t, <2>1 DEF PhaseOK
  <2> QED
    BY <1>t, <1>s, <2>1, <2>3, <2>4, RunStep
<1> QED
  BY <1>1, <1>2, <1>3, <1>4, <1>5, <1>6

\* kill_all_vm.
LEMMA KillStep == ASSUME IInv, KillAll PROVE IInv'
<1>1. /\ TypeOK /\ PoolInv /\ NoSharing /\ ListsOK(Lists) /\ GivenOK /\ PhaseOK
      /\ phase = "kill" /\ UNCHANGED <<poolVars, made, given, started, images>>
      /\ live_vm_instances \in Seq(VMs) /\ IsInjective(live_vm_instances)
  BY DEF IInv, PoolSound, TypeOK, PoolInv, KillAll, ListsOK, Lists
<1>p. PoolInv'
  BY <1>1, PoolKept
<1>2. ASSUME NEW vs \in Seq(VMs), IsInjective(vs),
             Range(vs) \subseteq Range(live_vm_instances)
      PROVE  LET b == Buried(Lists, vs)
             IN  /\ b \in ListsType /\ b.live = live_vm_instances
                 /\ IsInjective(b.dead)
                 /\ Range(b.dead) = Range(dead_vm_instances) \cup Range(vs)
                 /\ IsInjective(b.vnc) /\ Len(b.vnc) = Len(vnc_num_list) + Len(vs)
                 /\ b = [live |-> b.live, dead |-> b.dead, vnc |-> b.vnc]
  <2>1. Lists.live = live_vm_instances /\ Lists.dead = dead_vm_instances
        /\ Lists.vnc = vnc_num_list
    BY DEF Lists
  <2> QED
    BY <1>1, <1>2, <2>1, BuriedLists DEF ListsType
<1>3. CASE LET l == Buried(Lists, live_vm_instances)
           IN  /\ SetLists([l EXCEPT !.live = <<>>])
               /\ running' = running \ Range(live_vm_instances)
               /\ Unless(Len(l.vnc) # run_limit, "reclaim")
               /\ UNCHANGED faults
  <2> DEFINE l == Buried(Lists, live_vm_instances)
  <2>1. /\ l \in ListsType
        /\ IsInjective(l.dead)
        /\ Range(l.dead) = Range(dead_vm_instances) \cup Range(live_vm_instances)
        /\ IsInjective(l.vnc)
        /\ Len(l.vnc) = Len(vnc_num_list) + Len(live_vm_instances)
        /\ l = [live |-> l.live, dead |-> l.dead, vnc |-> l.vnc]
    BY <1>1, <1>2
  <2>2. /\ SetLists([l EXCEPT !.live = <<>>])
        /\ running' = running \ Range(live_vm_instances)
        /\ Unless(Len(l.vnc) # run_limit, "reclaim") /\ faults' = faults
    BY <1>3
  <2> HIDE DEF l
  <2>3. /\ live_vm_instances' = <<>> /\ dead_vm_instances' = l.dead
        /\ vnc_num_list' = l.vnc
        /\ l.dead \in Seq(VMs) /\ l.vnc \in Seq(Nat)
    BY <2>1, <2>2 DEF SetLists, ListsType
  <2>4. Len(l.vnc) = run_limit
    BY <1>1, <2>1 DEF ListsOK, ListsType, Lists
  <2>5. phase' = "reclaim" /\ running' = {}
    BY <1>1, <2>2, <2>4 DEF Unless, ListsOK, Lists
  <2>6. Range(<<>>) = {} /\ IsInjective(<<>>) /\ <<>> \in Seq(VMs) /\ Len(<<>>) = 0
    BY DEF Range, IsInjective
  <2>7. ListsOK(Lists)'
    <3>1. Len(l.vnc) + 0 = run_limit
      BY <2>4, MgrAssumption
    <3> QED
      BY <2>1, <2>3, <2>5, <2>6, <3>1 DEF ListsOK, ListsType, Lists
  <2>8. Listed(Lists)' = Listed(Lists)
    BY <2>1, <2>3, <2>6 DEF Listed, Lists
  <2>9. GivenOK'
    BY <1>1, <2>5, <2>8 DEF GivenOK, given, poolVars
  <2>10. PhaseOK'
    BY <2>3, <2>5 DEF PhaseOK
  <2>11. TypeOK'
    BY <1>1, <1>p, <2>2, <2>3, <2>5, <2>6 DEF TypeOK, PoolInv, given
  <2> QED
    BY <1>p, <2>5, <2>7, <2>9, <2>10, <2>11, Established
<1>4. ASSUME NEW i \in DOMAIN live_vm_instances, Spend("qemu"),
             SetLists(Buried(Lists, SubSeq(live_vm_instances, 1, i - 1))),
             running' = running \ Range(SubSeq(live_vm_instances, 1, i)),
             phase' = "aborted"
      PROVE  IInv'
  <2> DEFINE vs == SubSeq(live_vm_instances, 1, i - 1)
  <2>1. /\ vs \in Seq(VMs) /\ DOMAIN vs = 1 .. i - 1 /\ i \in 1 .. Len(live_vm_instances)
        /\ \A k \in 1 .. i - 1 : vs[k] = live_vm_instances[k]
    BY <1>1
  <2>2. IsInjective(vs) /\ Range(vs) \subseteq Range(live_vm_instances)
    BY <1>1, <2>1 DEF IsInjective, Range
  <2> HIDE DEF vs
  <2>3. Buried(Lists, vs) \in ListsType
    BY <1>2, <2>1, <2>2
  <2>4. /\ live_vm_instances' \in Seq(VMs) /\ dead_vm_instances' \in Seq(VMs)
        /\ vnc_num_list' \in Seq(Nat)
    BY <1>4, <2>3 DEF SetLists, ListsType, vs
  <2>5. faults' \in 0 .. MaxFaults
    BY <1>1, <1>4, MgrAssumption DEF Spend, TypeOK
  <2>6. TypeOK'
    BY <1>1, <1>p, <1>4, <2>4, <2>5 DEF TypeOK, PoolInv, given
  <2>7. NoSharing'
    BY <1>1, <1>4, StillNoSharing
  <2> QED
    BY <1>p, <1>4, <2>6, <2>7, Established
<1> QED
  BY <1>3, <1>4 DEF KillAll, Goto

\* clear_vm, after kill_all_vm.
LEMMA ClearStep == ASSUME IInv, ClearVm PROVE IInv'
<1>1. /\ TypeOK /\ PoolInv /\ NoSharing /\ ListsOK(Lists) /\ GivenOK /\ PhaseOK
      /\ phase = "reclaim" /\ made' = made /\ faults' = faults
      /\ live_vm_instances = <<>>
  BY DEF IInv, PoolSound, TypeOK, PoolInv, ClearVm, PhaseOK
<1>e. Range(<<>>) = {}
  BY DEF Range
<1>r. running = {}
  BY <1>1, <1>e DEF ListsOK, ListsType, Lists
<1>2. ASSUME dead_vm_instances # <<>>, Reclaim(Head(dead_vm_instances), Lists),
             phase' = phase
      PROVE  IInv'
  <2>0. Lists.dead = dead_vm_instances /\ Lists.live = live_vm_instances
    BY DEF Lists
  <2>1. /\ PoolInv' /\ ListsOK(Lists)' /\ Lists'.live = Lists.live
        /\ GivenOK'
        /\ started' = started /\ running' = running /\ UNCHANGED given
        /\ images' \in SUBSET VMs
    BY <1>1, <1>2, <2>0, ReclaimSound
  <2>2. /\ live_vm_instances' \in Seq(VMs) /\ dead_vm_instances' \in Seq(VMs)
        /\ vnc_num_list' \in Seq(Nat)
    BY <2>1 DEF ListsOK, ListsType, Lists
  <2>3. live_vm_instances' = live_vm_instances
    BY <2>0, <2>1 DEF Lists
  <2>4. PhaseOK'
    BY <1>1, <1>2, <2>3 DEF PhaseOK
  <2>5. TypeOK'
    BY <1>1, <1>2, <2>1, <2>2 DEF TypeOK, PoolInv, given
  <2> QED
    BY <1>1, <1>2, <2>1, <2>4, <2>5, Established
<1>3. ASSUME dead_vm_instances = <<>>, DestoryPool, phase' = "done", UNCHANGED vmVars
      PROVE  IInv'
  <2>1. Listed(Lists) = {}
    BY <1>1, <1>3, <1>e DEF Listed, Lists
  <2>2. held = {} /\ images = {} /\ Range(using_pool) = {}
    BY <1>1, <2>1 DEF GivenOK, PoolInv, NoneLost
  <2>3. using_pool = <<>>
    <3>1. using_pool \in Seq(Ports \cup {NoConf})
      BY <1>1 DEF PoolInv, PoolTypeOK
    <3>2. \A i \in 1 .. Len(using_pool) : using_pool[i] \in Range(using_pool)
      BY <3>1 DEF Range
    <3>3. Len(using_pool) = 0
      BY <2>2, <3>1, <3>2
    <3> QED
      BY <3>1, <3>3
  <2>4. /\ file' = backup /\ pool' = "destoried"
        /\ UNCHANGED <<free_pool, using_pool, glo_start_port, backup, held, hosts>>
    BY <1>3, <2>3 DEF DestoryPool
  <2>5. UNCHANGED <<live_vm_instances, dead_vm_instances, vnc_num_list, vnc_num,
                    ssh_config, started, running, images>>
    BY <1>3 DEF vmVars, mgrLists, given
  <2>6. PoolTypeOK' /\ HeldNotFree' /\ NoneLost' /\ PortsOK'
    BY <1>1, <2>4 DEF PoolInv, PoolTypeOK, HeldNotFree, NoneLost, PortsOK
  <2>7. TypeOK'
    BY <1>1, <1>3, <2>5, <2>6 DEF TypeOK
  <2>8. NoSharing' /\ CleanUp'
    BY <1>1, <1>r, <2>2, <2>4, <2>5 DEF NoSharing, CleanUp
  <2>9. Lists' = Lists
    BY <2>5 DEF Lists
  <2>10. ListsOK(Lists)' /\ PhaseOK'
    BY <1>1, <1>3, <2>5, <2>9 DEF ListsOK, ListsType, PhaseOK
  <2>11. GivenOK'
    <3>1. Listed(Lists)' = Listed(Lists)
      BY <2>9 DEF Listed
    <3> QED
      BY <1>1, <1>3, <2>4, <2>5, <3>1 DEF GivenOK
  <2> QED
    BY <2>6, <2>7, <2>8, <2>10, <2>11 DEF IInv, PoolSound
<1> QED
  BY <1>1, <1>2, <1>3, <1>r DEF ClearVm, Goto

\* Another host starts with everything but the ssh config file as new.
LEMMA RestartStep == ASSUME IInv, HostRestarts PROVE IInv'
<1> USE PoolAssumption, MgrAssumption
<1>1. /\ AllVnc \in Seq(Nat) /\ Len(AllVnc) = run_limit /\ IsInjective(AllVnc)
  BY DEF AllVnc, IsInjective
<1>2. Range(<<>>) = {} /\ IsInjective(<<>>) /\ Len(<<>>) = 0
  BY DEF Range, IsInjective
<1>3. /\ phase' = "create" /\ made' = 0 /\ running' = {} /\ faults' = faults
      /\ live_vm_instances' = <<>> /\ dead_vm_instances' = <<>>
      /\ vnc_num_list' = AllVnc
      /\ vnc_num' = [v \in VMs |-> 0] /\ ssh_config' = [v \in VMs |-> NoConf]
      /\ started' = {} /\ images' = {}
      /\ hosts > 0 /\ hosts' = hosts - 1
      /\ free_pool' = <<>> /\ using_pool' = <<>> /\ held' = {}
      /\ glo_start_port' = FIRST_PORT_NUM /\ backup' = file /\ pool' = "open"
      /\ file' = file
  BY DEF HostRestarts, NextHost, SetLists, Goto
<1>4. TypeOK
  BY DEF IInv, PoolSound
<1>5. TypeOK'
  BY <1>1, <1>3, <1>4 DEF TypeOK, PoolTypeOK, VMs
<1>6. PoolInv'
  BY <1>2, <1>3, <1>5 DEF PoolInv, TypeOK, HeldNotFree, NoneLost, PortsOK
<1>7. ListsOK(Lists)'
  BY <1>1, <1>2, <1>3 DEF Lists, ListsOK, ListsType
<1>8. GivenOK' /\ PhaseOK'
  <2>1. Listed(Lists)' = {}
    BY <1>2, <1>3 DEF Listed, Lists
  <2> QED
    BY <1>2, <1>3, <2>1 DEF GivenOK, PhaseOK
<1> QED
  BY <1>3, <1>5, <1>6, <1>7, <1>8, Established

\* IInv is inductive.
LEMMA NextIInv == IInv /\ [Next]_vars => IInv'
<1> SUFFICES ASSUME IInv, [Next]_vars PROVE IInv'
  OBVIOUS
<1>1. CASE UNCHANGED vars
  <2>1. /\ UNCHANGED <<free_pool, using_pool, glo_start_port, file, backup, held,
                       pool, hosts>>
        /\ UNCHANGED <<phase, made, live_vm_instances, dead_vm_instances,
                       vnc_num_list, vnc_num, ssh_config, started, running, images,
                       faults>>
    BY <1>1 DEF vars, poolVars, mgrVars, vmVars, mgrLists, given
  <2> QED
    BY <2>1 DEF IInv, PoolSound, TypeOK, PoolTypeOK, HeldNotFree, NoneLost, NoSharing,
                CleanUp, PortsOK, ListsOK, Lists, GivenOK, Listed, PhaseOK
<1> QED
  BY <1>1, CreateStep, AllocStep, RunSteps, KillStep, ClearStep, RestartStep
     DEF Next, HostStep

\* The inductive invariant holds of every behaviour.
LEMMA MgrInvariant == Spec => []IInv
BY InitIInv, NextIInv, PTL DEF Spec

-----------------------------------------------------------------------------
\* ssh_config.py: whatever the VMs and the hosts do, no configuration is with
\* two callers or lost to later ones.
THEOREM MgrPoolSound == Spec => []PoolSound
<1>1. IInv => PoolSound
  BY DEF IInv
<1> QED
  BY <1>1, MgrInvariant, PTL

\* vm_mgr.py: two VMs that run never have the same port or VNC number, although
\* both are used again when a VM is dead.
THEOREM MgrNoSharing == Spec => []NoSharing
<1>1. IInv => NoSharing
  BY DEF IInv
<1> QED
  BY <1>1, MgrInvariant, PTL

\* vm_mgr.py: the assertions on the length of vnc_num_list and on duplicates in
\* it hold in every host, and no free number is that of a living VM.
THEOREM MgrVncConserved == Spec => []VncConserved
<1>1. IInv => VncConserved
  <2> SUFFICES ASSUME IInv, phase # "aborted"
               PROVE  /\ Len(vnc_num_list) + Len(live_vm_instances) = run_limit
                      /\ Range(vnc_num_list)
                            \cap {vnc_num[v] : v \in Range(live_vm_instances)} = {}
                      /\ Cardinality(Range(vnc_num_list)) = Len(vnc_num_list)
    BY DEF VncConserved
  <2>1. /\ vnc_num_list \in Seq(Nat) /\ IsInjective(vnc_num_list)
        /\ Len(vnc_num_list) + Len(live_vm_instances) = run_limit
        /\ \A v \in Range(live_vm_instances) : vnc_num[v] \notin Range(vnc_num_list)
    BY DEF IInv, ListsOK, ListsType, Lists
  <2>2. ExistsBijection(1 .. Len(vnc_num_list), Range(vnc_num_list))
    <3>1. vnc_num_list \in Bijection(1 .. Len(vnc_num_list), Range(vnc_num_list))
      BY <2>1 DEF Bijection, Injection, Surjection, IsInjective, Range
    <3> QED
      BY <3>1 DEF ExistsBijection
  <2>3. Cardinality(Range(vnc_num_list)) = Len(vnc_num_list)
    BY <2>1, <2>2, FS_CountingElements
  <2> QED
    BY <2>1, <2>3
<1> QED
  BY <1>1, MgrInvariant, PTL

\* main_host.py: after clear_vm no VM runs, no image is left, every configuration
\* is back and ~/.ssh/config is what it was before this host.
THEOREM MgrCleanUp == Spec => []CleanUp
<1>1. IInv => CleanUp
  BY DEF IInv
<1> QED
  BY <1>1, MgrInvariant, PTL

=============================================================================
