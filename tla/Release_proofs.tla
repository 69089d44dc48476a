---------------------------- MODULE Release_proofs ----------------------------
(***************************************************************************)
(* Proofs about Release, for any builds, versions and deployments, and     *)
(* about OtaText: what the device takes from the files that are released,  *)
(* and the credentials it asks for them with.                              *)
(***************************************************************************)
EXTENDS Release, OtaText, SequenceTheorems, FiniteSetTheorems,
        WellFoundedInduction, TLAPS

\* What a deployment has done so far to the files of its version.
Deploying ==
    /\ stage = "idle" \/ build \in Build
    /\ stage \in {"copying_bin", "copy_sha", "copying_sha", "publish"}
         => Ver[build] \in dirty
    /\ stage \in {"copy_sha", "copying_sha", "publish"} => bin[Ver[build]] = build
    /\ stage = "publish" => sha[Ver[build]] = build
    /\ stage = "prune" => version = Ver[build]

\* A digest is under the version of its build.
Filed == \A v \in Version : sha[v] \in Build => Ver[sha[v]] = v

ServerInv ==
    /\ stage \in {"idle", "copying_bin", "copy_sha", "copying_sha",
                  "publish", "prune", "trigger"}
    /\ build \in Build \cup {None}
    /\ version \in Version
    /\ bin \in [Version -> Contents] /\ sha \in [Version -> Contents]
    /\ dirty \subseteq Version
    /\ Deploying /\ Filed /\ CommitPoint

\* The digest that is held is of the version that was told.
Held ==
    /\ step \in {"sha", "image", "stream"} => told \in Version
    /\ step \in {"image", "stream"} => expected \in Build /\ Ver[expected] = told

\* The first sector holds nothing that was not streamed since the device's last
\* reset.
Streamed == spoilt \in {None, tried} \/ tried = Torn

DeviceInv ==
    /\ step \in {"idle", "version", "sha", "image", "stream"}
    /\ told \in Version \cup {None}
    /\ expected \in Build \cup {None}
    /\ body \in Contents
    /\ spoilt \in Contents /\ tried \in Contents
    /\ running \in Build /\ image \in Build \cup {Torn}
    /\ request \in BOOLEAN /\ due \in BOOLEAN
    /\ Held /\ Streamed

Inv == ServerInv /\ DeviceInv

LEMMA InvImplies == Inv => TypeOK /\ CommitPoint
  BY DEF Inv, ServerInv, DeviceInv, TypeOK

LEMMA VersionOfBuild == ASSUME NEW b \in Build PROVE Ver[b] \in Version
  BY DEF Version

LEMMA InvInit == Init => Inv
<1> SUFFICES ASSUME Init PROVE Inv
  OBVIOUS
<1>1. Ver[First] \in Version /\ First \in Build
  BY ReleaseAssumption, VersionOfBuild
<1>2. bin \in [Version -> Contents] /\ sha = bin
  BY <1>1 DEF Init, Contents
<1>3. ServerInv
  BY <1>1, <1>2, ReleaseAssumption DEF Init, ServerInv, Deploying, Filed, CommitPoint
<1>4. DeviceInv
  BY <1>1 DEF Init, DeviceInv, Held, Streamed, Contents
<1> QED
  BY <1>3, <1>4 DEF Inv

\* What the device does leaves the server alone.
LEMMA ServerKept == ServerInv /\ UNCHANGED <<stage, build, server, dirty>> => ServerInv'
  BY DEF ServerInv, Deploying, Filed, CommitPoint, server

\* What the deployment does leaves the device alone, but for its trigger.
LEMMA DeviceKept ==
    ASSUME DeviceInv, UNCHANGED device, request' \in BOOLEAN, due' \in BOOLEAN
    PROVE  DeviceInv'
  BY DEF DeviceInv, Held, Streamed, device, flash

LEMMA DeploymentStep ==
    ASSUME Inv,
           \/ \E b \in Build : Deploy(b)
           \/ CopyBinEnds \/ CopyShaBegins \/ CopyShaEnds
           \/ PublishVersion \/ Prune \/ Trigger \/ Abort
    PROVE  Inv'
<1> USE ReleaseAssumption
<1>1. ServerInv /\ DeviceInv /\ request \in BOOLEAN /\ due \in BOOLEAN
  BY DEF Inv, DeviceInv
<1>2. ASSUME NEW b \in Build, Deploy(b) PROVE Inv'
  <2>1. Ver[b] \in Version
    BY VersionOfBuild
  <2>2. bin' \in [Version -> Contents]
    BY <1>1, <1>2 DEF Deploy, Contents, ServerInv
  <2>3. \A v \in Version : v \notin dirty' => bin'[v] = bin[v]
    BY <1>1, <1>2, <2>1 DEF Deploy, ServerInv
  <2>4. ServerInv'
    BY <1>1, <1>2, <2>1, <2>2, <2>3 DEF Deploy, ServerInv, Deploying, Filed, CommitPoint
  <2>5. body' \in Contents
    BY <1>1, <1>2 DEF Deploy, Contents, DeviceInv
  <2>6. DeviceInv'
    BY <1>1, <1>2, <2>5 DEF Deploy, DeviceInv, Held, Streamed, flash
  <2> QED
    BY <2>4, <2>6 DEF Inv
<1>3. CASE CopyBinEnds
  <2>1. build \in Build /\ Ver[build] \in Version
    BY <1>1, <1>3, VersionOfBuild DEF CopyBinEnds, ServerInv, Deploying
  <2>2. bin' \in [Version -> Contents] /\ bin'[Ver[build]] = build
    BY <1>1, <1>3, <2>1 DEF CopyBinEnds, Contents, ServerInv
  <2>3. \A v \in Version : v \notin dirty => bin'[v] = bin[v]
    BY <1>1, <1>3, <2>1 DEF CopyBinEnds, ServerInv, Deploying
  <2>4. ServerInv'
    BY <1>1, <1>3, <2>1, <2>2, <2>3 DEF CopyBinEnds, ServerInv, Deploying, Filed, CommitPoint
  <2> QED
    BY <1>1, <1>3, <2>4, DeviceKept DEF CopyBinEnds, Inv
<1>4. CASE CopyShaBegins
  <2>1. build \in Build /\ Ver[build] \in Version
    BY <1>1, <1>4, VersionOfBuild DEF CopyShaBegins, ServerInv, Deploying
  <2>2. sha' \in [Version -> Contents]
    BY <1>1, <1>4 DEF CopyShaBegins, Contents, ServerInv
  <2>3. \A v \in Version : sha'[v] = sha[v] \/ (v \in dirty /\ sha'[v] = Torn)
    BY <1>1, <1>4, <2>1 DEF CopyShaBegins, ServerInv, Deploying
  <2>4. ServerInv'
    BY <1>1, <1>4, <2>1, <2>2, <2>3 DEF CopyShaBegins, ServerInv, Deploying, Filed, CommitPoint
  <2> QED
    BY <1>1, <1>4, <2>4, DeviceKept DEF CopyShaBegins, Inv
<1>5. CASE CopyShaEnds
  <2>1. build \in Build /\ Ver[build] \in Version
    BY <1>1, <1>5, VersionOfBuild DEF CopyShaEnds, ServerInv, Deploying
  <2>2. sha' \in [Version -> Contents] /\ sha'[Ver[build]] = build
    BY <1>1, <1>5, <2>1 DEF CopyShaEnds, Contents, ServerInv
  <2>3. \A v \in Version :
          sha'[v] = sha[v] \/ (v \in dirty /\ v = Ver[build] /\ sha'[v] = build)
    BY <1>1, <1>5, <2>1 DEF CopyShaEnds, ServerInv, Deploying
  <2>4. ServerInv'
    BY <1>1, <1>5, <2>1, <2>2, <2>3 DEF CopyShaEnds, ServerInv, Deploying, Filed, CommitPoint
  <2> QED
    BY <1>1, <1>5, <2>4, DeviceKept DEF CopyShaEnds, Inv
<1>6. CASE PublishVersion
  <2>1. ServerInv'
    BY <1>1, <1>6, VersionOfBuild DEF PublishVersion, ServerInv, Deploying, Filed, CommitPoint
  <2> QED
    BY <1>1, <1>6, <2>1, DeviceKept DEF PublishVersion, Inv
<1>7. CASE Prune
  <2>1. PICK removed \in SUBSET {n \in Version \ Kept(Ver[build]) : bin[n] # None} :
          /\ bin' = [n \in Version |-> IF n \in removed THEN None ELSE bin[n]]
          /\ sha' = [n \in Version |-> IF n \in removed THEN None ELSE sha[n]]
    BY <1>7 DEF Prune
  <2>2. version \notin removed
    BY <1>1, <1>7 DEF Prune, Kept, ServerInv, Deploying
  <2>3. bin' \in [Version -> Contents] /\ sha' \in [Version -> Contents]
    BY <1>1, <2>1 DEF Contents, ServerInv
  <2>4. ServerInv'
    BY <1>1, <1>7, <2>1, <2>2, <2>3 DEF Prune, ServerInv, Deploying, Filed, CommitPoint
  <2> QED
    BY <1>1, <1>7, <2>4, DeviceKept DEF Prune, Inv
<1>8. CASE Trigger
  <2>1. ServerInv'
    BY <1>1, <1>8 DEF Trigger, server, ServerInv, Deploying, Filed, CommitPoint
  <2> QED
    BY <1>1, <1>8, <2>1, DeviceKept DEF Trigger, Inv
<1>9. CASE Abort
  <2>1. ServerInv'
    BY <1>1, <1>9 DEF Abort, server, ServerInv, Deploying, Filed, CommitPoint
  <2> QED
    BY <1>1, <1>9, <2>1, DeviceKept DEF Abort, Inv
<1> QED
  BY <1>2, <1>3, <1>4, <1>5, <1>6, <1>7, <1>8, <1>9

\* The first sector after a stream, or without one.
LEMMA StreamKept ==
    ASSUME DeviceInv, UNCHANGED <<spoilt, tried>> \/ StreamEnds
    PROVE  Streamed' /\ spoilt' \in Contents /\ tried' \in Contents
<1>1. Over(spoilt) \in {None, Over(tried)} \/ Over(tried) = Torn
  BY DEF Over, DeviceInv, Streamed
<1>2. Over(spoilt) \in Contents /\ Over(tried) \in Contents /\ None \in Contents
  BY DEF Over, Contents, DeviceInv
<1> QED
  BY <1>1, <1>2 DEF StreamEnds, Streamed, DeviceInv

LEMMA DeviceStepKeeps ==
    ASSUME Inv, DeviceStep \/ ReadVersionCut \/ RequestFails \/ Restart
    PROVE  Inv'
<1> USE ReleaseAssumption
<1>1. ServerInv /\ DeviceInv /\ None \in Contents
  BY DEF Inv, Contents
<1>2. ServerInv'
  <2>1. UNCHANGED <<stage, build, server, dirty>>
    BY DEF DeviceStep, StartCheck, ReadVersion, ReadVersionCut, ReadSha, StartImage,
           Installs, Mismatch, RollsBack, RequestFails, Restart, server
  <2> QED
    BY <1>1, <2>1, ServerKept
<1> SUFFICES DeviceInv'
  BY <1>2 DEF Inv
<1>3. CASE StartCheck
  BY <1>1, <1>3 DEF StartCheck, flash, DeviceInv, Held, Streamed
<1>4. ASSUME NEW remote \in Version, step = "version", Decide(remote),
             UNCHANGED <<flash, request>>, due' \in BOOLEAN
      PROVE  DeviceInv'
  BY <1>1, <1>4 DEF Decide, EndCheck, flash, DeviceInv, Held, Streamed
<1>5. CASE ReadVersion \/ ReadVersionCut
  <2>1. version \in Version /\ due \in BOOLEAN
    BY <1>1 DEF ServerInv, DeviceInv
  <2> QED
    BY <1>4, <1>5, <2>1 DEF ReadVersion, ReadVersionCut
<1>6. CASE ReadSha
  <2>1. sha[told] \in Build /\ told \in Version => Ver[sha[told]] = told
    BY <1>1 DEF ServerInv, Filed
  <2> QED
    BY <1>1, <1>6, <2>1 DEF ReadSha, EndCheck, flash, DeviceInv, Held, Streamed
<1>7. CASE StartImage
  <2>1. told \in Version /\ bin[told] \in Contents
    BY <1>1, <1>7 DEF StartImage, ServerInv, DeviceInv, Held
  <2> QED
    BY <1>1, <1>7, <2>1 DEF StartImage, EndCheck, flash, DeviceInv, Held, Streamed
<1>8. CASE Installs
  <2>1. body \in Build /\ Over(spoilt) \in {body, Torn}
    BY <1>1, <1>8 DEF Installs, Verified, Over, DeviceInv, Held
  <2> QED
    BY <1>1, <1>8, <2>1 DEF Installs, Reset, DeviceInv, Held, Streamed
<1>9. CASE Mismatch \/ RequestFails
  <2>1. Streamed' /\ spoilt' \in Contents /\ tried' \in Contents
    BY <1>1, <1>9, StreamKept DEF Mismatch, RequestFails
  <2>2. CASE Mismatch
    BY <1>1, <2>1, <2>2 DEF Mismatch, EndCheck, DeviceInv, Held
  <2>3. CASE RequestFails
    BY <1>1, <2>1, <2>3 DEF RequestFails, EndCheck, DeviceInv, Held
  <2> QED
    BY <1>9, <2>2, <2>3
<1>10. CASE RollsBack
  BY <1>1, <1>10 DEF RollsBack, Reset, EndCheck, DeviceInv, Held, Streamed
<1>11. CASE Restart
  BY <1>1, <1>11 DEF Restart, Reset, DeviceInv, Held, Streamed
<1> QED
  BY <1>3, <1>5, <1>6, <1>7, <1>8, <1>9, <1>10, <1>11 DEF DeviceStep

LEMMA InvStep == Inv /\ [Next]_vars => Inv'
<1> SUFFICES ASSUME Inv, [Next]_vars PROVE Inv'
  OBVIOUS
<1>1. CASE UNCHANGED vars
  <2>1. ServerInv' /\ request' \in BOOLEAN /\ due' \in BOOLEAN
    BY <1>1, ServerKept DEF Inv, DeviceInv, vars
  <2> QED
    BY <1>1, <2>1, DeviceKept DEF Inv, vars
<1> QED
  BY <1>1, DeploymentStep, DeviceStepKeeps DEF Next

\* What `version` names is whole, for any order and number of deployments.
THEOREM CommitPointKept == Spec => [](TypeOK /\ CommitPoint)
  BY InvInit, InvStep, InvImplies, PTL DEF Spec

\* The device installs builds of the version it was told, whose digest it has read,
\* and all of each, unless it has streamed something else since its last reset.
THEOREM InstallsTold == Spec => InstallsWhatItWasTold
<1>1. Inv /\ [Next]_vars
        => [running' # running =>
              /\ running' \in Build /\ Ver[running'] = told /\ running' = expected
              /\ image' = expected \/ tried \notin {None, expected}]_vars
  <2> SUFFICES ASSUME Inv, Next, running' # running
               PROVE  /\ running' \in Build /\ Ver[running'] = told /\ running' = expected
                      /\ image' = expected \/ tried \notin {None, expected}
    BY DEF vars, device, flash
  <2>1. Installs
    BY DEF Next, Deploy, CopyBinEnds, CopyShaBegins, CopyShaEnds, PublishVersion,
           Prune, Trigger, Abort, DeviceStep, StartCheck, ReadVersion,
           ReadVersionCut, Decide, ReadSha, StartImage, Mismatch, RollsBack,
           RequestFails, Restart, EndCheck, device, flash
  <2>2. running' \in Build /\ Ver[running'] = told /\ running' = expected
    BY <2>1 DEF Installs, Verified, Inv, DeviceInv, Held
  <2>3. image' = expected \/ tried \notin {None, expected}
    BY <2>1, <2>2, ReleaseAssumption DEF Installs, Verified, Over, Inv, DeviceInv, Streamed
  <2> QED
    BY <2>2, <2>3
<1> QED
  BY <1>1, InvInit, InvStep, PTL DEF Spec, InstallsWhatItWasTold

------------------------------------------------------------------------------
(* What the files hold, as the device reads it.  The loops of OtaText are      *)
(* functions of a number from 0 on, of which one gets to the value at one from *)
(* the values at smaller ones.                                                 *)

\* A set of numbers has a least one.
LEMMA Least ==
    ASSUME NEW T, T \subseteq Nat, T # {}
    PROVE  \E m \in T : \A y \in T : m <= y
<1>1. PICK n \in T : TRUE
  OBVIOUS
<1> DEFINE S == 0..n
           F == {0..k : k \in T \cap S}
<1>2. IsFiniteSet(S)
  BY <1>1, FS_Interval
<1>3. IsWellFoundedOn(StrictSubsetOrdering(S), SUBSET S)
  BY <1>2, FS_StrictSubsetOrderingWellFounded, FS_FiniteSubsetsOfFinite
<1>4. F \subseteq SUBSET S /\ F # {}
  BY <1>1
<1>5. \E x \in F : \A y \in F : ~(<<y, x>> \in StrictSubsetOrdering(S))
  <2> HIDE DEF F, S, IsWellFoundedOn, StrictSubsetOrdering
  <2> QED
    BY <1>3, <1>4, WFMin
<1>6. PICK m \in T \cap S : \A y \in F : ~(<<y, 0..m>> \in StrictSubsetOrdering(S))
  BY <1>5
<1>7. ASSUME NEW y \in T, y < m PROVE FALSE
  <2>1. 0..y \in F
    BY <1>7
  <2>2. 0..y # 0..m /\ 0..y \subseteq 0..m
    BY <1>7
  <2>3. 0..y \in SUBSET S /\ 0..m \in SUBSET S
    BY <1>4, <1>6, <2>1
  <2>4. <<0..y, 0..m>> \in StrictSubsetOrdering(S)
    BY <2>2, <2>3 DEF StrictSubsetOrdering
  <2> QED
    BY <1>6, <2>1, <2>4
<1> QED
  BY <1>6, <1>7

\* What holds at 0, and at a number if it does at the one before, holds at each.
LEMMA Upward ==
    ASSUME NEW n \in Nat, NEW Good, 0 \in Good,
           \A k \in 1..n : k - 1 \in Good => k \in Good
    PROVE  \A k \in 0..n : k \in Good
<1> SUFFICES ASSUME NEW b \in 0..n, b \notin Good PROVE FALSE
  OBVIOUS
<1> DEFINE T == {k \in 0..n : k \notin Good}
<1>1. T \subseteq Nat /\ T # {}
  OBVIOUS
<1>2. PICK m \in T : \A y \in T : m <= y
  <2> HIDE DEF T
  <2> QED
    BY <1>1, Least
<1>3. m \in 1..n /\ m - 1 \in 0..n /\ m - 1 < m
  <2>1. m \in 0..n /\ m # 0
    BY <1>2
  <2> QED
    BY <2>1
<1>4. m - 1 \in Good
  BY <1>2, <1>3
<1> QED
  BY <1>2, <1>3, <1>4

\* A loop that gets to a number from all smaller ones can be one function only,
\* and there is one: with any turn that stays in G, which may say what else the
\* results are.
AgreeBefore(g, h, k) == \A j \in 0..(k - 1) : g[j] = h[j]

AgreeNext(n, g, h) == \A k \in 0..n : AgreeBefore(g, h, k) => g[k] = h[k]

LEMMA LoopIsUnique ==
    ASSUME NEW n \in Nat, NEW g, NEW h, AgreeNext(n, g, h)
    PROVE  \A k \in 0..n : g[k] = h[k]
<1> SUFFICES ASSUME NEW b \in 0..n, g[b] # h[b] PROVE FALSE
  OBVIOUS
<1> DEFINE T == {k \in 0..n : g[k] # h[k]}
<1>1. T \subseteq Nat /\ T # {}
  OBVIOUS
<1>2. PICK m \in T : \A y \in T : m <= y
  <2> HIDE DEF T
  <2> QED
    BY <1>1, Least
<1>3. ASSUME NEW j \in 0..(m - 1) PROVE g[j] = h[j]
  <2>1. m \in 0..n
    BY <1>2
  <2>2. j \in 0..n /\ ~(m <= j)
    BY <2>1
  <2> QED
    BY <1>2, <2>2
<1> QED
  BY <1>2, <1>3 DEF AgreeNext, AgreeBefore

LEMMA LoopExists ==
    ASSUME NEW n \in Nat, NEW G, G # {}, NEW F \in [G -> G],
           \A g \in G : g = [k \in 0..n |-> g[k]],
           \A g \in G, h \in G : \A k \in 0..n : AgreeBefore(g, h, k) => F[g][k] = F[h][k]
    PROVE  \E g \in G : F[g] = g
<1> DEFINE Settled(g, m) == \A k \in 0..(n - m) : F[g][k] = g[k]
           T == {m \in 0..(n + 1) : \E g \in G : Settled(g, m)}
<1>1. n + 1 \in T
  OBVIOUS
<1>2. PICK m \in T : \A y \in T : m <= y
  <2>1. T \subseteq Nat /\ T # {}
    BY <1>1
  <2> HIDE DEF T
  <2> QED
    BY <2>1, Least
<1>3. PICK g \in G : Settled(g, m)
  BY <1>2
<1>4. ASSUME m # 0 PROVE FALSE
  <2> DEFINE h == F[g]
  <2>1. h \in G
    OBVIOUS
  <2>2. \A k \in 0..(n - m) : g[k] = h[k]
    BY <1>3
  <2>3. ASSUME NEW k \in 0..(n - (m - 1)) PROVE F[h][k] = h[k]
    <3>1. k \in 0..n /\ AgreeBefore(g, h, k)
      BY <1>2, <1>4, <2>2 DEF AgreeBefore
    <3> QED
      BY <2>1, <3>1
  <2>4. m \in Nat /\ m - 1 \in 0..(n + 1)
    BY <1>2, <1>4
  <2>5. m - 1 \in T
    BY <2>1, <2>3, <2>4
  <2>6. m <= m - 1
    <3> HIDE DEF T
    <3> QED
      BY <1>2, <2>5
  <2> QED
    BY <2>4, <2>6
<1>5. \A k \in 0..n : F[g][k] = g[k]
  BY <1>3, <1>4
<1>6. F[g] \in G
  OBVIOUS
<1>7. F[g] = [k \in 0..n |-> F[g][k]] /\ g = [k \in 0..n |-> g[k]]
  BY <1>6
<1> QED
  BY <1>5, <1>7

\* A loop over a text, with an accumulator in A.
Turns(g, s, a, turn) ==
    g = [k \in 0..Len(s) |-> IF k = 0 THEN a ELSE turn[<<g[k - 1], s[k]>>]]

LEMMA TextLoop ==
    ASSUME NEW C, NEW s \in Seq(C), NEW A, NEW a \in A, NEW turn \in [A \X C -> A]
    PROVE  \E g \in [0..Len(s) -> A] : Turns(g, s, a, turn)
<1> DEFINE n == Len(s)
           G == [0..n -> A]
           F == [g \in G |-> [k \in 0..n |-> IF k = 0 THEN a ELSE turn[<<g[k - 1], s[k]>>]]]
<1>1. n \in Nat /\ \A k \in 1..n : s[k] \in C
  OBVIOUS
<1> HIDE DEF n
<1>2. F \in [G -> G]
  <2> SUFFICES ASSUME NEW g \in G, NEW k \in 0..n, k # 0
               PROVE  turn[<<g[k - 1], s[k]>>] \in A
    OBVIOUS
  <2>1. k \in 1..n /\ k - 1 \in 0..n
    BY <1>1
  <2>2. g[k - 1] \in A /\ s[k] \in C
    BY <1>1, <2>1
  <2> QED
    BY <2>2
<1>3. [k \in 0..n |-> a] \in G
  OBVIOUS
<1>4. \A g \in G, h \in G : \A k \in 0..n : AgreeBefore(g, h, k) => F[g][k] = F[h][k]
  <2> SUFFICES ASSUME NEW g \in G, NEW h \in G, NEW k \in 0..n, AgreeBefore(g, h, k), k # 0
               PROVE  g[k - 1] = h[k - 1]
    OBVIOUS
  <2>1. k - 1 \in 0..(k - 1)
    BY <1>1
  <2> QED
    BY <2>1 DEF AgreeBefore
<1>5. PICK g \in G : F[g] = g
  <2>1. \A g \in G : g = [k \in 0..n |-> g[k]]
    OBVIOUS
  <2> HIDE DEF F, G
  <2> QED
    BY <1>1, <1>2, <1>3, <1>4, <2>1, LoopExists
<1> QED
  BY <1>5 DEF n, Turns

------------------------------------------------------------------------------
(* Digits and numbers *)

Digit == ToSet(Digits)

\* Every character of HexDigit has a place of its own, which is its value.
LEMMA HexDigitValue ==
    ASSUME NEW d \in 0..15
    PROVE  DigitValue(HexDigit[1 + d]) = d
<1>1. DOMAIN HexDigit = 1..16
  BY DEF HexDigit
<1>2. \A i \in 1..16, j \in 1..16 : HexDigit[i] = HexDigit[j] => i = j
  BY DEF HexDigit
<1>3. \A i \in 1..16 : HexDigit[i] = HexDigit[1 + d] <=> i = 1 + d
  BY <1>2
<1>4. (CHOOSE i \in 1..16 : HexDigit[i] = HexDigit[1 + d]) = 1 + d
  BY <1>3
<1> DEFINE place == CHOOSE i \in 1..16 : HexDigit[i] = HexDigit[1 + d]
<1>5. DigitValue(HexDigit[1 + d]) = place - 1
  BY <1>1, Zenon DEF DigitValue
<1> HIDE DEF place
<1>6. place = 1 + d
  BY <1>4, Zenon DEF place
<1> QED
  BY <1>5, <1>6

LEMMA DigitValues ==
    /\ \A d \in 0..9 : Digits[1 + d] \in Digit /\ DigitValue(Digits[1 + d]) = d
    /\ \A c \in Digit : /\ DigitValue(c) \in 0..9 /\ Digits[1 + DigitValue(c)] = c
                        /\ c \notin Whitespace
                        /\ c # "0" => DigitValue(c) >= 1
    /\ Digits[1 + 0] = "0"
<1>1. \A d \in 0..9 : Digits[1 + d] = HexDigit[1 + d]
  BY DEF Digits, HexDigit
<1>2. DOMAIN Digits = 1..10
  BY DEF Digits
<1>3. ASSUME NEW d \in 0..9
      PROVE  Digits[1 + d] \in Digit /\ DigitValue(Digits[1 + d]) = d
  BY <1>1, <1>2, HexDigitValue DEF Digit, ToSet
<1>4. ASSUME NEW c \in Digit PROVE \E d \in 0..9 : c = Digits[1 + d]
  <2>1. PICK i \in 1..10 : c = Digits[i]
    BY <1>2 DEF Digit, ToSet
  <2>2. i - 1 \in 0..9 /\ 1 + (i - 1) = i
    OBVIOUS
  <2> QED
    BY <2>1, <2>2
<1>5. \A d \in 0..9 : Digits[1 + d] \notin Whitespace
  BY DEF Digits, Whitespace
<1>6. Digits[1 + 0] = "0"
  BY DEF Digits
<1>7. ASSUME NEW c \in Digit, c # "0" PROVE DigitValue(c) >= 1
  BY <1>3, <1>4, <1>6, <1>7
<1> QED
  BY <1>3, <1>4, <1>5, <1>6, <1>7

\* Number, from left to right.
LEMMA NumberIs ==
    ASSUME NEW s \in Seq(Digit)
    PROVE  \E value \in [0..Len(s) -> Nat] :
             /\ value[0] = 0
             /\ \A k \in 1..Len(s) : value[k] = 10 * value[k - 1] + DigitValue(s[k])
             /\ value[Len(s)] = Number(s)
<1> DEFINE n == Len(s)
           Turn(g) == [k \in 0..n |-> IF k = 0 THEN 0 ELSE 10 * g[k - 1] + DigitValue(s[k])]
           turn == [p \in Nat \X Digit |-> 10 * p[1] + DigitValue(p[2])]
<1>1. n \in Nat /\ \A k \in 1..n : s[k] \in Digit
  OBVIOUS
<1>2. turn \in [Nat \X Digit -> Nat]
  <2>1. ASSUME NEW p \in Nat \X Digit PROVE 10 * p[1] + DigitValue(p[2]) \in Nat
    <3>1. p[1] \in Nat /\ p[2] \in Digit
      OBVIOUS
    <3>2. DigitValue(p[2]) \in 0..9
      BY <3>1, DigitValues
    <3> QED
      BY <3>1, <3>2
  <2> QED
    BY <2>1
<1>3. PICK g : g \in [0..n -> Nat] /\ Turns(g, s, 0, turn)
  <2>1. 0 \in Nat /\ s \in Seq(Digit)
    OBVIOUS
  <2> HIDE DEF turn
  <2> QED
    BY <1>2, <2>1, TextLoop, Zenon
<1>4. g = Turn(g)
  <2>1. ASSUME NEW k \in 0..n, k # 0
        PROVE  turn[<<g[k - 1], s[k]>>] = 10 * g[k - 1] + DigitValue(s[k])
    <3>1. k \in 1..n /\ k - 1 \in 0..n
      BY <1>1, <2>1
    <3>2. g[k - 1] \in Nat /\ s[k] \in Digit
      BY <1>1, <1>3, <3>1
    <3> QED
      BY <3>2
  <2> HIDE DEF turn
  <2> QED
    BY <1>3, <2>1 DEF Turns
<1>5. PICK h : h = Turn(h) /\ Number(s) = h[n]
  <2> DEFINE choice == CHOOSE f : f = Turn(f)
  <2>1. choice = Turn(choice)
    BY <1>4, Zenon
  <2>2. Number(s) = choice[n]
    BY Zenon DEF Number
  <2> HIDE DEF choice
  <2> QED
    BY <2>1, <2>2, Zenon
<1>6. \A k \in 0..n : g[k] = h[k]
  <2>1. ASSUME NEW k \in 0..n, AgreeBefore(g, h, k) PROVE g[k] = h[k]
    <3>1. k # 0 => g[k - 1] = h[k - 1]
      BY <1>1, <2>1 DEF AgreeBefore
    <3>2. g[k] = IF k = 0 THEN 0 ELSE 10 * g[k - 1] + DigitValue(s[k])
      BY <1>4, Zenon
    <3>3. h[k] = IF k = 0 THEN 0 ELSE 10 * h[k - 1] + DigitValue(s[k])
      BY <1>5, Zenon
    <3> QED
      BY <3>1, <3>2, <3>3
  <2>2. n \in Nat
    BY <1>1
  <2> HIDE DEF Turn, n
  <2>3. AgreeNext(n, g, h)
    BY ONLY <2>1 DEF AgreeNext
  <2> QED
    BY ONLY <2>2, <2>3, LoopIsUnique
<1>7. /\ g[0] = 0
      /\ \A k \in 1..n : g[k] = 10 * g[k - 1] + DigitValue(s[k])
  BY <1>1, <1>4
<1> HIDE DEF Turn
<1>8. g[n] = Number(s)
  BY <1>1, <1>5, <1>6
<1> HIDE DEF turn
<1> QED
  BY ONLY <1>3, <1>7, <1>8, Zenon DEF n

LEMMA NumberAppend ==
    ASSUME NEW s \in Seq(Digit), NEW c \in Digit
    PROVE  Number(Append(s, c)) = 10 * Number(s) + DigitValue(c)
<1> DEFINE n == Len(s)
           t == Append(s, c)
<1>1. /\ n \in Nat /\ t \in Seq(Digit) /\ Len(t) = n + 1 /\ t[n + 1] = c
      /\ \A k \in 1..n : t[k] = s[k]
  BY AppendProperties
<1>2. PICK v \in [0..n -> Nat] :
        /\ v[0] = 0
        /\ \A k \in 1..n : v[k] = 10 * v[k - 1] + DigitValue(s[k])
        /\ v[n] = Number(s)
  BY NumberIs
<1> HIDE DEF t
<1>3. PICK w \in [0..(n + 1) -> Nat] :
        /\ w[0] = 0
        /\ \A k \in 1..(n + 1) : w[k] = 10 * w[k - 1] + DigitValue(t[k])
        /\ w[n + 1] = Number(t)
  <2>1. PICK w \in [0..Len(t) -> Nat] :
          /\ w[0] = 0
          /\ \A k \in 1..Len(t) : w[k] = 10 * w[k - 1] + DigitValue(t[k])
          /\ w[Len(t)] = Number(t)
    BY <1>1, NumberIs
  <2> QED
    BY <1>1, <2>1
<1> HIDE DEF n
<1>4. \A k \in 0..n : v[k] = w[k]
  <2> DEFINE Good == {k \in 0..n : v[k] = w[k]}
  <2>1. 0 \in Good
    BY <1>1, <1>2, <1>3
  <2>2. ASSUME NEW k \in 1..n, k - 1 \in Good PROVE k \in Good
    <3>1. k \in 1..(n + 1) /\ k \in 0..n /\ t[k] = s[k]
      BY <1>1
    <3> QED
      BY <1>2, <1>3, <2>2, <3>1
  <2>3. \A k \in 0..n : k \in Good
    <3> HIDE DEF Good
    <3> QED
      BY <1>1, <2>1, <2>2, Upward
  <2> QED
    BY <2>3
<1>5. n + 1 \in 1..(n + 1) /\ (n + 1) - 1 = n /\ n \in 0..n
  BY <1>1
<1>6. w[n + 1] = 10 * w[n] + DigitValue(c)
  BY <1>1, <1>3, <1>5
<1>7. w[n] = v[n]
  BY <1>4, <1>5
<1> QED
  BY <1>2, <1>3, <1>6, <1>7 DEF t

LEMMA NumberOfDigit ==
    /\ Number(<<>>) = 0
    /\ \A c \in Digit : Number(<<c>>) = DigitValue(c)
<1>1. <<>> \in Seq(Digit) /\ Len(<<>>) = 0
  OBVIOUS
<1>2. Number(<<>>) = 0
  BY <1>1, NumberIs
<1>3. ASSUME NEW c \in Digit PROVE Number(<<c>>) = DigitValue(c)
  <2>1. Append(<<>>, c) = <<c>>
    OBVIOUS
  <2>2. Number(Append(<<>>, c)) = 10 * Number(<<>>) + DigitValue(c)
    BY <1>1, NumberAppend
  <2>3. DigitValue(c) \in 0..9
    BY DigitValues
  <2> QED
    BY <1>2, <2>1, <2>2, <2>3
<1> QED
  BY <1>2, <1>3

\* checked_mul and checked_add give the number, or nothing once it is too large,
\* which it stays.
LEMMA DecimalAgrees ==
    ASSUME NEW s \in Seq(Digit), NEW max \in Nat
    PROVE  /\ Number(s) \in Nat
           /\ Decimal(s, max) = IF Number(s) <= max THEN {Number(s)} ELSE {}
<1> DEFINE n == Len(s)
           Part(g, k) == UNION {checked(m * 10 + DigitValue(s[k]), max) : m \in g[k - 1]}
           Turn(g) == [k \in 0..n |-> IF k = 0 THEN {0} ELSE Part(g, k)]
<1>1. n \in Nat /\ \A k \in 1..n : s[k] \in Digit
  OBVIOUS
<1>2. PICK v \in [0..n -> Nat] :
        /\ v[0] = 0
        /\ \A k \in 1..n : v[k] = 10 * v[k - 1] + DigitValue(s[k])
        /\ v[n] = Number(s)
  BY NumberIs
<1> DEFINE g == [k \in 0..n |-> IF v[k] <= max THEN {v[k]} ELSE {}]
<1>3. ASSUME NEW k \in 1..n PROVE Part(g, k) = g[k]
  <2>1. /\ k \in 0..n /\ k - 1 \in 0..n /\ v[k] \in Nat /\ v[k - 1] \in Nat
        /\ DigitValue(s[k]) \in 0..9
    <3>1. k \in 0..n /\ k - 1 \in 0..n
      BY <1>1
    <3>2. s[k] \in Digit
      BY <1>1
    <3> HIDE DEF n
    <3> QED
      BY <1>2, <3>1, <3>2, DigitValues
  <2>2. v[k] = v[k - 1] * 10 + DigitValue(s[k])
    BY <1>2, <2>1
  <2>3. CASE v[k - 1] <= max
    <3>1. g[k - 1] = {v[k - 1]}
      BY <2>1, <2>3
    <3>2. Part(g, k) = checked(v[k], max)
      <4> HIDE DEF g
      <4> QED
        BY <2>2, <3>1
    <3>3. g[k] = checked(v[k], max)
      BY <2>1 DEF checked
    <3> QED
      BY <3>2, <3>3
  <2>4. CASE ~(v[k - 1] <= max)
    <3>1. g[k - 1] = {}
      BY <2>1, <2>4
    <3>2. Part(g, k) = {}
      <4> HIDE DEF g
      <4> QED
        BY <3>1
    <3>3. ~(v[k] <= max)
      <4> DEFINE x == v[k - 1]
                 d == DigitValue(s[k])
      <4>1. x \in Nat /\ d \in 0..9 /\ ~(x <= max) /\ v[k] = x * 10 + d
        BY <2>1, <2>2, <2>4
      <4> HIDE DEF x, d
      <4> QED
        BY <4>1
    <3>4. g[k] = {}
      BY <2>1, <3>3
    <3> QED
      BY <3>2, <3>4
  <2> QED
    BY <2>3, <2>4
<1>4. g[0] = {0}
  BY <1>1, <1>2
<1>5. g = Turn(g)
  <2> HIDE DEF Part
  <2>1. ASSUME NEW k \in 0..n, k # 0 PROVE g[k] = Part(g, k)
    <3>1. k \in 1..n
      BY <1>1, <2>1
    <3> QED
      BY <1>3, <3>1
  <2> QED
    BY <1>4, <2>1
<1>6. PICK h : h = Turn(h) /\ Decimal(s, max) = h[n]
  <2> DEFINE choice == CHOOSE f : f = Turn(f)
  <2>1. choice = Turn(choice)
    BY <1>5, Zenon
  <2>2. Decimal(s, max) = choice[n]
    BY Zenon DEF Decimal
  <2> HIDE DEF choice
  <2> QED
    BY <2>1, <2>2, Zenon
<1>7. \A k \in 0..n : g[k] = h[k]
  <2>1. ASSUME NEW k \in 0..n, AgreeBefore(g, h, k) PROVE g[k] = h[k]
    <3> HIDE DEF g
    <3>1. k # 0 => g[k - 1] = h[k - 1]
      BY <1>1, <2>1 DEF AgreeBefore
    <3>2. g[k] = IF k = 0 THEN {0} ELSE Part(g, k)
      BY <1>5, Zenon
    <3>3. h[k] = IF k = 0 THEN {0} ELSE Part(h, k)
      BY <1>6, Zenon
    <3>4. k # 0 => Part(g, k) = Part(h, k)
      BY <3>1
    <3> QED
      BY <3>2, <3>3, <3>4
  <2>2. n \in Nat
    BY <1>1
  <2> HIDE DEF Turn, g, n
  <2>3. AgreeNext(n, g, h)
    BY ONLY <2>1 DEF AgreeNext
  <2> QED
    BY ONLY <2>2, <2>3, LoopIsUnique
<1>8. n \in 0..n /\ g[n] = IF Number(s) <= max THEN {Number(s)} ELSE {}
  BY <1>1, <1>2
<1> HIDE DEF g, Turn
<1> QED
  BY <1>1, <1>2, <1>6, <1>7, <1>8

\* What to_decimal writes of m, from what it writes of smaller numbers.
Written(g, m) ==
    IF m < 10 THEN <<Digits[1 + m]>> ELSE Append(g[m \div 10], Digits[1 + (m % 10)])

LEMMA Tenths ==
    ASSUME NEW m \in Nat
    PROVE  /\ m % 10 \in 0..9 /\ m \div 10 \in Nat
           /\ m = 10 * (m \div 10) + (m % 10)
           /\ m >= 10 => m \div 10 \in 1..(m - 1)
OBVIOUS

LEMMA WrittenAgrees ==
    ASSUME NEW g, NEW h, NEW k \in Nat, AgreeBefore(g, h, k)
    PROVE  Written(g, k) = Written(h, k)
<1>1. k >= 10 => k \div 10 \in 0..(k - 1)
  BY Tenths
<1> QED
  BY <1>1 DEF AgreeBefore, Written

LEMMA WrittenIsUnique ==
    ASSUME NEW m \in Nat, NEW g, NEW h,
           g = [j \in 0..m |-> Written(g, j)], h = [j \in 0..m |-> Written(h, j)]
    PROVE  g[m] = h[m]
<1>1. \A k \in 0..m : AgreeBefore(g, h, k) => g[k] = h[k]
  <2> SUFFICES ASSUME NEW k \in 0..m, AgreeBefore(g, h, k) PROVE g[k] = h[k]
    OBVIOUS
  <2>1. g[k] = Written(g, k) /\ h[k] = Written(h, k)
    OBVIOUS
  <2>2. k \in Nat
    OBVIOUS
  <2> QED
    BY <2>1, <2>2, WrittenAgrees
<1>2. AgreeNext(m, g, h)
  BY <1>1 DEF AgreeNext
<1>3. \A k \in 0..m : g[k] = h[k]
  BY <1>2, LoopIsUnique
<1> QED
  BY <1>3

LEMMA WrittenLoop ==
    ASSUME NEW n \in Nat
    PROVE  \E g \in [0..n -> Seq(Digit)] : g = [m \in 0..n |-> Written(g, m)]
<1> DEFINE G == [0..n -> Seq(Digit)]
           F == [g \in G |-> [m \in 0..n |-> Written(g, m)]]
<1>1. F \in [G -> G]
  <2> SUFFICES ASSUME NEW g \in G, NEW m \in 0..n PROVE Written(g, m) \in Seq(Digit)
    OBVIOUS
  <2>1. CASE m < 10
    <3>1. m \in 0..9
      BY <2>1
    <3>2. Digits[1 + m] \in Digit
      BY <3>1, DigitValues
    <3> QED
      BY <2>1, <3>2 DEF Written
  <2>2. CASE ~(m < 10)
    <3>1. m \div 10 \in 0..n /\ m % 10 \in 0..9
      BY <2>2, Tenths
    <3>2. Digits[1 + (m % 10)] \in Digit /\ g[m \div 10] \in Seq(Digit)
      BY <3>1, DigitValues
    <3> QED
      BY <2>2, <3>2, AppendProperties DEF Written
  <2> QED
    BY <2>1, <2>2
<1>2. [m \in 0..n |-> <<>>] \in G
  OBVIOUS
<1>3. \A g \in G, h \in G : \A k \in 0..n : AgreeBefore(g, h, k) => F[g][k] = F[h][k]
  BY WrittenAgrees
<1>4. \A g \in G : g = [k \in 0..n |-> g[k]]
  OBVIOUS
<1>5. PICK g \in G : F[g] = g
  <2> HIDE DEF F, G
  <2> QED
    BY <1>1, <1>2, <1>3, <1>4, LoopExists
<1> QED
  BY <1>5

\* to_decimal writes the last digit behind those of the tenth.
LEMMA ToDecimalIs ==
    ASSUME NEW n \in Nat
    PROVE  /\ to_decimal(n) \in Seq(Digit)
           /\ to_decimal(n) = IF n < 10 THEN <<Digits[1 + n]>>
                              ELSE Append(to_decimal(n \div 10), Digits[1 + (n % 10)])
<1>1. PICK g \in [0..n -> Seq(Digit)] : g = [m \in 0..n |-> Written(g, m)]
  BY WrittenLoop
<1>2. ASSUME NEW m \in 0..n PROVE to_decimal(m) = g[m]
  <2> DEFINE Turn(f) == [j \in 0..m |-> Written(f, j)]
             part == [j \in 0..m |-> g[j]]
  <2>1. part = Turn(part)
    <3>1. ASSUME NEW j \in 0..m PROVE part[j] = Written(part, j)
      <4>1. AgreeBefore(g, part, j)
        BY DEF AgreeBefore
      <4>2. j \in Nat /\ j \in 0..n /\ part[j] = g[j]
        OBVIOUS
      <4>3. g[j] = Written(g, j)
        BY <1>1, <4>2, Zenon
      <4> HIDE DEF part
      <4> QED
        BY <4>1, <4>2, <4>3, WrittenAgrees
    <3>2. part = [j \in 0..m |-> part[j]]
      OBVIOUS
    <3> HIDE DEF part
    <3> QED
      BY <3>1, <3>2
  <2>2. PICK h : h = Turn(h) /\ to_decimal(m) = h[m]
    <3> DEFINE choice == CHOOSE f : f = Turn(f)
    <3>1. choice = Turn(choice)
      BY <2>1, Zenon
    <3>2. to_decimal(m) = choice[m]
      BY Zenon DEF to_decimal, Written
    <3> HIDE DEF choice
    <3> QED
      BY <3>1, <3>2, Zenon
  <2>3. m \in Nat /\ part[m] = g[m]
    OBVIOUS
  <2> HIDE DEF part
  <2>4. part[m] = h[m]
    BY <2>1, <2>2, <2>3, WrittenIsUnique
  <2> QED
    BY <2>2, <2>3, <2>4
<1>3. to_decimal(n) = g[n] /\ g[n] = Written(g, n) /\ g[n] \in Seq(Digit)
  <2>1. n \in 0..n
    OBVIOUS
  <2>2. g[n] = Written(g, n)
    BY <1>1, <2>1, Zenon
  <2> QED
    BY <1>2, <2>1, <2>2
<1>4. n >= 10 => g[n \div 10] = to_decimal(n \div 10)
  <2>1. n >= 10 => n \div 10 \in 0..n
    BY Tenths
  <2> QED
    BY <1>2, <2>1
<1> QED
  BY <1>3, <1>4 DEF Written

\* What it writes are the number's digits, without leading zeros.
Writes(n, s) ==
    /\ s \in Seq(Digit) /\ Len(s) >= 1 /\ Number(s) = n
    /\ n < 10 => Len(s) = 1
    /\ n >= 1 => s[1] # "0"

LEMMA ToDecimalWrites ==
    ASSUME NEW n \in Nat
    PROVE  Writes(n, to_decimal(n))
<1> DEFINE Bad == {m \in Nat : ~Writes(m, to_decimal(m))}
<1> SUFFICES ASSUME Bad # {} PROVE FALSE
  OBVIOUS
<1>1. PICK m \in Bad : \A k \in Bad : m <= k
  <2>1. Bad \subseteq Nat
    OBVIOUS
  <2> HIDE DEF Bad
  <2> QED
    BY <2>1, Least
<1>2. m \in Nat /\ ~Writes(m, to_decimal(m))
  BY <1>1
<1>3. CASE m < 10
  <2>1. to_decimal(m) = <<Digits[1 + m]>>
    BY <1>2, <1>3, ToDecimalIs
  <2>2. Digits[1 + m] \in Digit /\ DigitValue(Digits[1 + m]) = m
    BY <1>2, <1>3, DigitValues
  <2>3. Number(<<Digits[1 + m]>>) = m
    BY <2>2, NumberOfDigit
  <2>4. m >= 1 => Digits[1 + m] # "0"
    <3>1. DigitValue(Digits[1 + 0]) = 0 /\ Digits[1 + 0] = "0"
      BY DigitValues
    <3> QED
      BY <2>2, <3>1
  <2> QED
    BY <1>2, <1>3, <2>1, <2>2, <2>3, <2>4 DEF Writes
<1>4. CASE m >= 10
  <2> DEFINE k == m \div 10
             s == to_decimal(k)
             c == Digits[1 + (m % 10)]
  <2>1. k \in 1..(m - 1) /\ k \in Nat /\ m % 10 \in 0..9 /\ m = 10 * k + (m % 10)
    BY <1>2, <1>4, Tenths
  <2>2. Writes(k, s)
    <3>1. ~(m <= k)
      BY <1>2, <2>1
    <3> QED
      BY <1>1, <2>1, <3>1
  <2>3. c \in Digit /\ DigitValue(c) = m % 10
    BY <2>1, DigitValues
  <2>4. to_decimal(m) = Append(s, c)
    BY <1>2, <1>4, ToDecimalIs
  <2> HIDE DEF k, s, c
  <2>5. Number(Append(s, c)) = m
    <3>1. s \in Seq(Digit) /\ Number(s) = k
      BY <2>2 DEF Writes
    <3>2. Number(Append(s, c)) = 10 * k + DigitValue(c)
      BY <2>3, <3>1, NumberAppend
    <3> QED
      BY <2>1, <2>3, <3>2
  <2>6. /\ Append(s, c) \in Seq(Digit) /\ Len(Append(s, c)) >= 1
        /\ Append(s, c)[1] = s[1]
    BY <2>2, <2>3, AppendProperties DEF Writes
  <2> QED
    BY <1>2, <1>4, <2>1, <2>2, <2>4, <2>5, <2>6 DEF Writes
<1> QED
  BY <1>2, <1>3, <1>4

\* So a number is written in one way without leading zeros.
LEMMA WrittenOnce ==
    ASSUME NEW s \in Seq(Digit), Len(s) >= 1, s[1] # "0" \/ Len(s) = 1
    PROVE  to_decimal(Number(s)) = s
<1> DEFINE n == Len(s)
           P(k) == SubSeq(s, 1, k)
           Good == {k \in 0..n : k >= 1 => /\ to_decimal(Number(P(k))) = P(k)
                                           /\ k < n => Number(P(k)) >= 1}
<1>1. n \in Nat /\ n >= 1 /\ \A k \in 1..n : s[k] \in Digit /\ DigitValue(s[k]) \in 0..9
  BY DigitValues
<1>2. \A k \in 0..n : P(k) \in Seq(Digit)
  OBVIOUS
<1>3. ASSUME NEW k \in 1..n
      PROVE  P(k) = Append(P(k - 1), s[k]) /\ k - 1 \in 0..n
  <2>1. 1 \in 1..n /\ k \in 1..n /\ k - 1 \in 0..n
    BY <1>1
  <2>2. P(k) = P(k - 1) \o <<s[k]>>
    BY <2>1, SubSeqRecursiveSecond
  <2>3. P(k - 1) \in Seq(Digit) /\ s[k] \in Digit
    BY <1>1, <1>2, <2>1
  <2> HIDE DEF P
  <2> QED
    BY <2>1, <2>2, <2>3, AppendIsConcat
<1>4. P(0) = <<>>
  OBVIOUS
<1>5. P(n) = s
  BY SubSeqFull
<1> HIDE DEF P, n
<1>6. 0 \in Good
  BY <1>1
<1>7. ASSUME NEW k \in 1..n, k - 1 \in Good PROVE k \in Good
  <2> DEFINE v == Number(P(k - 1))
             d == DigitValue(s[k])
  <2>1. k \in 0..n /\ k - 1 \in 0..n /\ P(k - 1) \in Seq(Digit)
    BY <1>1, <1>2
  <2>2. v \in Nat /\ d \in 0..9 /\ s[k] \in Digit /\ Digits[1 + d] = s[k]
    BY <1>1, <2>1, DecimalAgrees, DigitValues
  <2>3. Number(P(k)) = 10 * v + d
    BY <1>1, <1>3, <2>1, NumberAppend
  <2> HIDE DEF v, d
  <2>4. CASE k = 1
    <3>1. P(k - 1) = <<>> /\ v = 0
      BY <1>4, <2>4, NumberOfDigit DEF v
    <3>2. P(k) = <<s[k]>>
      <4>1. Append(<<>>, s[k]) = <<s[k]>>
        OBVIOUS
      <4> QED
        BY <1>3, <3>1, <4>1
    <3>3. Number(P(k)) = d
      BY <2>2, <2>3, <3>1
    <3>4. to_decimal(d) = <<Digits[1 + d]>>
      <4>1. d \in Nat /\ d < 10
        BY <2>2
      <4> QED
        BY <4>1, ToDecimalIs
    <3>5. to_decimal(Number(P(k))) = P(k)
      BY <2>2, <3>2, <3>3, <3>4
    <3>6. k < n => d >= 1
      <4>1. k < n => s[k] # "0"
        BY <1>1, <2>4 DEF n
      <4> QED
        BY <2>2, <4>1, DigitValues DEF d
    <3> QED
      BY <2>1, <3>3, <3>5, <3>6
  <2>5. CASE k > 1
    <3>1. to_decimal(v) = P(k - 1) /\ v >= 1
      <4>1. k - 1 >= 1 /\ k - 1 < n
        BY <1>1, <2>5
      <4> QED
        BY <1>7, <4>1 DEF v
    <3>2. /\ 10 * v + d \in Nat /\ 10 * v + d >= 10
          /\ (10 * v + d) \div 10 = v /\ (10 * v + d) % 10 = d
      BY <2>2, <3>1
    <3>3. to_decimal(10 * v + d) = Append(to_decimal(v), Digits[1 + d])
      <4> DEFINE m == 10 * v + d
      <4>1. m \in Nat /\ m >= 10 /\ m \div 10 = v /\ m % 10 = d
        BY <3>2
      <4> HIDE DEF m
      <4>2. ~(m < 10)
        BY <4>1
      <4>3. to_decimal(m) = Append(to_decimal(v), Digits[1 + d])
        BY <4>1, <4>2, ToDecimalIs
      <4> QED
        BY <4>3 DEF m
    <3>4. to_decimal(Number(P(k))) = P(k)
      BY <1>3, <2>2, <2>3, <3>1, <3>3
    <3> QED
      BY <2>1, <2>3, <3>2, <3>4
  <2> QED
    BY <2>1, <2>4, <2>5
<1>8. \A k \in 0..n : k \in Good
  <2> HIDE DEF Good
  <2> QED
    BY <1>1, <1>6, <1>7, Upward
<1>9. n \in Good
  BY <1>1, <1>8
<1> QED
  BY <1>1, <1>5, <1>9

------------------------------------------------------------------------------
(* The files *)

\* Where a text without its white space begins and ends.
Trimmed(s, a, b) ==
    /\ a \in 1..Len(s) /\ b \in a..Len(s)
    /\ s[a] \notin Whitespace /\ s[b] \notin Whitespace
    /\ \A k \in 1..Len(s) : k < a \/ k > b => s[k] \in Whitespace

LEMMA TrimIs ==
    ASSUME NEW C, NEW s \in Seq(C)
    PROVE  \/ trim_ascii(s) = <<>>
           \/ \E a, b \in Nat : Trimmed(s, a, b) /\ trim_ascii(s) = SubSeq(s, a, b)
<1> DEFINE n == Len(s)
           kept == {k \in DOMAIN s : s[k] \notin Whitespace}
<1>1. n \in Nat /\ kept \subseteq 1..n
  OBVIOUS
<1>2. CASE kept = {}
  BY <1>2 DEF trim_ascii
<1>3. CASE kept # {}
  <2> DEFINE a == Min(kept)
             b == Max(kept)
  <2>1. trim_ascii(s) = SubSeq(s, a, b)
    BY <1>3 DEF trim_ascii
  <2>2. a \in kept /\ \A y \in kept : a <= y
    <3>1. PICK m \in kept : \A y \in kept : m <= y
      <4>1. kept \subseteq Nat
        BY <1>1
      <4> HIDE DEF kept
      <4> QED
        BY <1>3, <4>1, Least
    <3> HIDE DEF kept
    <3> QED
      BY <3>1 DEF Min
  <2>3. b \in kept /\ \A y \in kept : b >= y
    <3> DEFINE T == {n - k : k \in kept}
    <3> HIDE DEF kept, n
    <3>1. T \subseteq Nat /\ T # {}
      <4>1. \A k \in kept : n - k \in Nat
        BY <1>1
      <4>2. PICK k \in kept : TRUE
        BY <1>3
      <4>3. n - k \in T
        BY <4>2
      <4> QED
        BY <4>1, <4>3
    <3>2. PICK m \in T : \A y \in T : m <= y
      <4> HIDE DEF T
      <4> QED
        BY <3>1, Least
    <3>3. PICK k \in kept : m = n - k
      BY <3>2
    <3>4. ASSUME NEW y \in kept PROVE k >= y
      <4>1. n - y \in T /\ k \in 1..n /\ y \in 1..n
        BY <1>1
      <4>2. n - k <= n - y
        <5> HIDE DEF T
        <5> QED
          BY <3>2, <3>3, <4>1
      <4> QED
        BY <1>1, <4>1, <4>2
    <3> QED
      BY <3>4 DEF Max
  <2> HIDE DEF a, b
  <2>4. Trimmed(s, a, b) /\ a \in Nat /\ b \in Nat
    <3>1. a \in 1..n /\ b \in 1..n /\ b >= a
      BY <1>1, <2>2, <2>3
    <3>2. s[a] \notin Whitespace /\ s[b] \notin Whitespace
      BY <2>2, <2>3
    <3>3. ASSUME NEW k \in 1..n, k < a \/ k > b PROVE s[k] \in Whitespace
      <4>1. k \notin kept
        <5> HIDE DEF kept
        <5> QED
          BY <2>2, <2>3, <3>1, <3>3
      <4> QED
        BY <1>1, <4>1
    <3> QED
      BY <1>1, <3>1, <3>2, <3>3 DEF Trimmed
  <2> QED
    BY <2>1, <2>4
<1> QED
  BY <1>2, <1>3

LEMMA TrimmedType ==
    ASSUME NEW C, NEW s \in Seq(C)
    PROVE  trim_ascii(s) \in Seq(C)
<1>1. CASE trim_ascii(s) = <<>>
  BY <1>1
<1>2. ASSUME NEW a \in Nat, NEW b \in Nat, Trimmed(s, a, b), trim_ascii(s) = SubSeq(s, a, b)
      PROVE  trim_ascii(s) \in Seq(C)
  <2>1. \A i \in a..b : s[i] \in C
    BY <1>2 DEF Trimmed
  <2>2. SubSeq(s, a, b) \in Seq(C)
    BY <2>1, SubSeqProperties
  <2> QED
    BY <1>2, <2>2
<1> QED
  BY <1>1, <1>2, TrimIs

\* A text without white space is kept as it is.
LEMMA TrimKeeps ==
    ASSUME NEW C, NEW s \in Seq(C), \A k \in 1..Len(s) : s[k] \notin Whitespace, Len(s) >= 1
    PROVE  trim_ascii(s) = s
<1> DEFINE kept == {k \in DOMAIN s : s[k] \notin Whitespace}
<1>1. Len(s) \in Nat /\ kept = 1..Len(s) /\ 1 \in kept /\ Len(s) \in kept
  OBVIOUS
<1>2. trim_ascii(s) = SubSeq(s, Min(kept), Max(kept))
  BY <1>1 DEF trim_ascii
<1>3. Min(kept) = 1 /\ Max(kept) = Len(s)
  <2> HIDE DEF kept
  <2>1. \A x \in kept : (\A y \in kept : x <= y) <=> x = 1
    BY <1>1
  <2>2. \A x \in kept : (\A y \in kept : x >= y) <=> x = Len(s)
    BY <1>1
  <2> QED
    BY <1>1, <2>1, <2>2 DEF Min, Max
<1> QED
  BY <1>2, <1>3, SubSeqFull

LEMMA DigitsAre ==
    ASSUME NEW C, NEW s \in Seq(C)
    PROVE  AreDigits(s) <=> s \in Seq(Digit) /\ Len(s) >= 1
<1>1. Len(s) \in Nat /\ DOMAIN s = 1..Len(s) /\ (s # <<>> <=> Len(s) >= 1)
  BY EmptySeq
<1>2. ToSet(s) \subseteq Digit <=> \A k \in 1..Len(s) : s[k] \in Digit
  BY <1>1 DEF ToSet
<1>3. s \in Seq(Digit) <=> \A k \in 1..Len(s) : s[k] \in Digit
  <2>1. ASSUME \A k \in 1..Len(s) : s[k] \in Digit PROVE s \in Seq(Digit)
    <3>1. s = [k \in 1..Len(s) |-> s[k]]
      OBVIOUS
    <3>2. [k \in 1..Len(s) |-> s[k]] \in Seq(Digit)
      BY <1>1, <2>1, IsASeq
    <3> QED
      BY <3>1, <3>2
  <2> QED
    BY <2>1, ElementOfSeq
<1> QED
  BY <1>1, <1>2, <1>3 DEF AreDigits, Digit

LEMMA VersionAgreed ==
    ASSUME NEW C, NEW text \in Seq(C)
    PROVE  VersionAgrees(text)
<1> DEFINE s == trim_ascii(text)
<1>1. s \in Seq(C) /\ U32_MAX \in Nat
  BY TrimmedType, TextAssumption
<1> HIDE DEF s
<1>2. AreDigits(s) => /\ s \in Seq(Digit) /\ Len(s) >= 1 /\ Number(s) \in Nat
                      /\ Decimal(s, U32_MAX) = IF Number(s) <= U32_MAX THEN {Number(s)} ELSE {}
  BY <1>1, DigitsAre, DecimalAgrees
<1>3. parse_version(text) = IF AreDigits(s) /\ Number(s) <= U32_MAX THEN {Number(s)} ELSE {}
  BY <1>2 DEF parse_version, s
<1>4. ASSUME NEW v \in parse_version(text)
      PROVE  /\ parse_version(to_decimal(v)) = {v}
             /\ to_decimal(v) = s <=> (s[1] # "0" \/ Len(s) = 1)
  <2> DEFINE d == to_decimal(v)
  <2>1. /\ AreDigits(s) /\ v = Number(s) /\ v \in Nat /\ v <= U32_MAX
        /\ s \in Seq(Digit) /\ Len(s) >= 1
    BY <1>2, <1>3, <1>4
  <2>2. Writes(v, d)
    BY <2>1, ToDecimalWrites
  <2> HIDE DEF d
  <2>3. d \in Seq(Digit) /\ Len(d) >= 1 /\ Number(d) = v
    BY <2>2 DEF Writes
  <2>4. trim_ascii(d) = d
    <3>1. \A k \in 1..Len(d) : d[k] \notin Whitespace
      BY <2>3, ElementOfSeq, DigitValues
    <3> QED
      BY <2>3, <3>1, TrimKeeps
  <2>5. AreDigits(d) /\ Decimal(d, U32_MAX) = {v}
    BY <1>1, <2>1, <2>3, DigitsAre, DecimalAgrees
  <2>6. parse_version(d) = {v}
    BY <2>4, <2>5 DEF parse_version
  <2>7. s[1] # "0" \/ Len(s) = 1 => d = s
    BY <2>1, WrittenOnce DEF d
  <2>8. d = s => s[1] # "0" \/ Len(s) = 1
    BY <2>1, <2>2 DEF Writes
  <2> QED
    BY <2>6, <2>7, <2>8 DEF d
<1> QED
  BY <1>3, <1>4 DEF VersionAgrees, s

\* A text that is cut short is the same without its white space, or shorter.
LEMMA TrimOfPrefix ==
    ASSUME NEW C, NEW s \in Seq(C), NEW n \in 1..Len(s),
           trim_ascii(SubSeq(s, 1, n)) # <<>>,
           Len(trim_ascii(SubSeq(s, 1, n))) = Len(trim_ascii(s))
    PROVE  trim_ascii(SubSeq(s, 1, n)) = trim_ascii(s)
<1> DEFINE p == SubSeq(s, 1, n)
<1>1. /\ p \in Seq(C) /\ Len(p) = n /\ Len(s) \in Nat /\ n \in Nat
      /\ \A k \in 1..n : p[k] = s[k]
  OBVIOUS
<1> HIDE DEF p
<1>2. PICK a \in Nat, b \in Nat : Trimmed(p, a, b) /\ trim_ascii(p) = SubSeq(p, a, b)
  BY <1>1, TrimIs DEF p
<1>3. a \in 1..n /\ b \in a..n /\ s[a] \notin Whitespace
  BY <1>1, <1>2 DEF Trimmed
<1>4. ASSUME NEW m \in Nat, NEW l \in Nat, NEW t \in Seq(C),
             m \in 1..Len(t), l \in m..Len(t)
      PROVE  Len(SubSeq(t, m, l)) = l - m + 1
  <2>1. m \in Int /\ l \in Int /\ m <= l /\ \A i \in m..l : t[i] \in C
    BY <1>4, ElementOfSeq
  <2> QED
    BY <2>1, SubSeqProperties
<1>5. Len(trim_ascii(p)) = b - a + 1
  BY <1>1, <1>2, <1>3, <1>4
<1>6. PICK c \in Nat, d \in Nat : Trimmed(s, c, d) /\ trim_ascii(s) = SubSeq(s, c, d)
  <2>1. trim_ascii(s) # <<>>
    <3>1. Len(trim_ascii(s)) = b - a + 1 /\ b - a + 1 >= 1
      BY <1>3, <1>5 DEF p
    <3> QED
      BY <3>1
  <2> QED
    BY <2>1, TrimIs
<1>7. Len(trim_ascii(s)) = d - c + 1
  BY <1>4, <1>6 DEF Trimmed
<1>8. a = c
  <2>1. a \in 1..Len(s) /\ c \in 1..Len(s) /\ s[c] \notin Whitespace
    BY <1>1, <1>3, <1>6 DEF Trimmed
  <2>2. c <= a
    BY <1>3, <1>6, <2>1 DEF Trimmed
  <2>3. c \in 1..n /\ p[c] \notin Whitespace
    BY <1>1, <1>3, <2>1, <2>2
  <2>4. a <= c
    BY <1>1, <1>2, <2>3 DEF Trimmed
  <2> QED
    BY <2>1, <2>2, <2>4
<1>9. b = d
  BY <1>3, <1>5, <1>6, <1>7, <1>8 DEF p
<1>10. SubSeq(p, a, b) = SubSeq(s, a, b)
  <2>1. /\ 1 \in 1..Len(s) /\ n \in 1..Len(s)
        /\ a \in 1..(n - 1 + 1) /\ b \in 1..(n - 1 + 1)
    BY <1>1, <1>3
  <2>2. SubSeq(SubSeq(s, 1, n), a, b) = SubSeq(s, 1 + a - 1, 1 + b - 1)
    BY <2>1, SubSeqOfSubSeq
  <2>3. 1 + a - 1 = a /\ 1 + b - 1 = b
    OBVIOUS
  <2> QED
    BY <2>2, <2>3 DEF p
<1> QED
  BY <1>2, <1>6, <1>8, <1>9, <1>10 DEF p

\* The two nibbles of a byte.
LEMMA Nibbles ==
    ASSUME NEW high \in 0..15, NEW low \in 0..15
    PROVE  (16 * high + low) \div 16 = high /\ (16 * high + low) % 16 = low
OBVIOUS

LEMMA HexDigitIs ==
    ASSUME NEW c \in ToSet(HexDigit)
    PROVE  DigitValue(c) \in 0..15 /\ HexDigit[1 + DigitValue(c)] = c
<1>1. PICK i \in 1..16 : c = HexDigit[i]
  BY DEF ToSet, HexDigit
<1>2. i - 1 \in 0..15 /\ 1 + (i - 1) = i
  OBVIOUS
<1>3. DigitValue(HexDigit[1 + (i - 1)]) = i - 1
  BY <1>2, HexDigitValue
<1> QED
  BY <1>1, <1>2, <1>3

LEMMA DigestAgreed ==
    ASSUME NEW C, NEW text \in Seq(C)
    PROVE  DigestAgrees(text)
<1> DEFINE s == trim_ascii(text)
           h == HASH_BYTES
           Bytes(t) == [k \in 1..h |-> 16 * DigitValue(t[2 * k - 1]) + DigitValue(t[2 * k])]
           AsHex(digest) ==
             [k \in 1..(2 * h) |->
                LET byte == digest[(k + 1) \div 2]
                IN  HexDigit[1 + IF k % 2 = 1 THEN byte \div 16 ELSE byte % 16]]
<1> SUFFICES ASSUME NEW digest \in parse_sha256_hex(text)
             PROVE  /\ s = AsHex(digest)
                    /\ \A n \in DOMAIN text :
                         parse_sha256_hex(SubSeq(text, 1, n)) \in {{}, {digest}}
  BY DEF DigestAgrees
<1>1. h \in Nat /\ h >= 1 /\ s \in Seq(C)
  BY TrimmedType, TextAssumption
<1>2. Len(s) = 2 * h /\ ToSet(s) \subseteq ToSet(HexDigit) /\ digest = Bytes(s)
  BY DEF parse_sha256_hex
<1>3. ASSUME NEW k \in 1..(2 * h)
      PROVE  DigitValue(s[k]) \in 0..15 /\ HexDigit[1 + DigitValue(s[k])] = s[k]
  <2>1. s[k] \in ToSet(s)
    BY <1>1, <1>2 DEF ToSet
  <2> HIDE DEF s
  <2> QED
    BY <1>2, <2>1, HexDigitIs
<1>4. ASSUME NEW k \in 1..(2 * h) PROVE AsHex(digest)[k] = s[k]
  <2> DEFINE j == (k + 1) \div 2
             high == DigitValue(s[2 * j - 1])
             low == DigitValue(s[2 * j])
  <2>1. /\ j \in 1..h /\ 2 * j - 1 \in 1..(2 * h) /\ 2 * j \in 1..(2 * h)
        /\ k = IF k % 2 = 1 THEN 2 * j - 1 ELSE 2 * j
    BY <1>1
  <2>2. digest[j] = 16 * high + low
    BY <1>2, <2>1
  <2>3. high \in 0..15 /\ low \in 0..15
    BY <1>3, <2>1
  <2> HIDE DEF s, high, low
  <2>4. digest[j] \div 16 = high /\ digest[j] % 16 = low
    BY <2>2, <2>3, Nibbles
  <2>5. AsHex(digest)[k] = HexDigit[1 + IF k % 2 = 1 THEN high ELSE low]
    BY <2>4
  <2>6. CASE k % 2 = 1
    BY <1>3, <2>1, <2>5, <2>6 DEF high
  <2>7. CASE k % 2 # 1
    BY <1>3, <2>1, <2>5, <2>7 DEF low
  <2> QED
    BY <2>6, <2>7
<1>5. s = AsHex(digest)
  <2>1. s = [k \in 1..(2 * h) |-> s[k]]
    BY <1>1, <1>2
  <2> HIDE DEF s
  <2>2. AsHex(digest) = [k \in 1..(2 * h) |-> AsHex(digest)[k]]
    OBVIOUS
  <2> HIDE DEF AsHex
  <2> QED
    BY <1>4, <2>1, <2>2
<1>6. ASSUME NEW n \in DOMAIN text, parse_sha256_hex(SubSeq(text, 1, n)) # {}
      PROVE  parse_sha256_hex(SubSeq(text, 1, n)) = {digest}
  <2> DEFINE p == SubSeq(text, 1, n)
  <2>1. n \in 1..Len(text)
    OBVIOUS
  <2>2. /\ Len(trim_ascii(p)) = 2 * h
        /\ parse_sha256_hex(p) = {Bytes(trim_ascii(p))}
    BY <1>6 DEF parse_sha256_hex
  <2>3. trim_ascii(p) # <<>>
    <3>1. 2 * h # 0
      BY <1>1
    <3> QED
      BY <2>2, <3>1
  <2>4. trim_ascii(p) = s
    BY <1>2, <2>1, <2>2, <2>3, TrimOfPrefix
  <2> HIDE DEF p, s, Bytes
  <2>5. parse_sha256_hex(p) = {digest}
    BY <1>2, <2>2, <2>4
  <2> QED
    BY <2>5 DEF p
<1> QED
  BY <1>5, <1>6

\* Whatever the two text files hold: a version is the number that its digits stand
\* for, or none if that does not fit, and is written as it was read; and a digest
\* is told by its text, of which nothing less than the whole is a digest.
THEOREM FilesAreRead == ASSUME NEW C, file \in Seq(C) PROVE FilesAgree
BY VersionAgreed, DigestAgreed DEF FilesAgree

\* The port of a URL is the number of its digits, behind a plus sign if there is one,
\* and nothing if that is zero or too large; none is taken for another: ParsePort.
THEOREM PortIsRead ==
    ASSUME NEW C, NEW s \in Seq(C)
    PROVE  LET digits == IF s # <<>> /\ Head(s) = "+" THEN Tail(s) ELSE s
           IN  ParsePort(s) =
                 IF AreDigits(digits) /\ Number(digits) \in 1..U16_MAX THEN {Number(digits)}
                 ELSE {}
<1> DEFINE digits == IF s # <<>> /\ Head(s) = "+" THEN Tail(s) ELSE s
<1>1. digits \in Seq(C) /\ U16_MAX \in Nat
  BY TextAssumption
<1>2. ParsePort(s) = IF AreDigits(digits) THEN Decimal(digits, U16_MAX) \ {0} ELSE {}
  BY DEF ParsePort
<1> HIDE DEF digits
<1>3. ParsePort(s) =
        IF AreDigits(digits) /\ Number(digits) \in 1..U16_MAX THEN {Number(digits)} ELSE {}
  <2>1. CASE AreDigits(digits)
    <3> DEFINE p == Number(digits)
    <3>1. /\ p \in Nat
          /\ Decimal(digits, U16_MAX) = IF p <= U16_MAX THEN {p} ELSE {}
      BY <1>1, <2>1, DigitsAre, DecimalAgrees
    <3> HIDE DEF p
    <3>2. p \in 1..U16_MAX <=> p # 0 /\ p <= U16_MAX
      BY <1>1, <3>1
    <3>3. ParsePort(s) = IF p \in 1..U16_MAX THEN {p} ELSE {}
      BY <1>2, <2>1, <3>1, <3>2
    <3> QED
      BY <2>1, <3>3 DEF p
  <2>2. CASE ~AreDigits(digits)
    BY <1>2, <2>2
  <2> QED
    BY <2>1, <2>2
<1> QED
  BY <1>3 DEF digits

------------------------------------------------------------------------------
(* Base64 *)

Octet  == 0..255
Sextet == 0..63

\* What the places of a number of sextets, and those of a byte, come to.
LEMMA By64 ==
    ASSUME NEW q \in Nat, NEW r \in 0..63
    PROVE  (64 * q + r) \div 64 = q /\ (64 * q + r) % 64 = r
  OBVIOUS
LEMMA By4096 ==
    ASSUME NEW q \in Nat, NEW r \in Nat, r < 4096 PROVE (4096 * q + r) \div 4096 = q
  OBVIOUS
LEMMA By262144 ==
    ASSUME NEW q \in Nat, NEW r \in Nat, r < 262144 PROVE (262144 * q + r) \div 262144 = q
  BY SMT
LEMMA OctetBy4 ==
    ASSUME NEW a \in Octet
    PROVE  a \div 4 \in 0..63 /\ a % 4 \in 0..3 /\ a = 4 * (a \div 4) + (a % 4)
  BY DEF Octet
LEMMA OctetBy16 ==
    ASSUME NEW a \in Octet
    PROVE  a \div 16 \in 0..15 /\ a % 16 \in 0..15 /\ a = 16 * (a \div 16) + (a % 16)
  BY DEF Octet
LEMMA OctetBy64 ==
    ASSUME NEW a \in Octet
    PROVE  a \div 64 \in 0..3 /\ a % 64 \in 0..63 /\ a = 64 * (a \div 64) + (a % 64)
  BY DEF Octet

OfSextets(x, y, z, w) == 262144 * x + 4096 * y + 64 * z + w

LEMMA FourSextets ==
    ASSUME NEW x \in Sextet, NEW y \in Sextet, NEW z \in Sextet, NEW w \in Sextet
    PROVE  /\ OfSextets(x, y, z, w) \div 262144 = x
           /\ (OfSextets(x, y, z, w) \div 4096) % 64 = y
           /\ (OfSextets(x, y, z, w) \div 64) % 64 = z
           /\ OfSextets(x, y, z, w) % 64 = w
<1> USE DEF Sextet
<1> DEFINE v == OfSextets(x, y, z, w)
<1>0. v = 262144 * x + 4096 * y + 64 * z + w
  BY DEF OfSextets
<1> HIDE DEF v
<1>1. /\ 4096 * y + 64 * z + w \in Nat /\ 4096 * y + 64 * z + w < 262144
      /\ v = 262144 * x + (4096 * y + 64 * z + w)
  BY <1>0, SMT
<1>2. /\ 64 * z + w \in Nat /\ 64 * z + w < 4096 /\ 64 * x + y \in Nat
      /\ v = 4096 * (64 * x + y) + (64 * z + w)
  BY <1>0, SMT
<1>3. 4096 * x + 64 * y + z \in Nat /\ v = 64 * (4096 * x + 64 * y + z) + w
  BY <1>0, SMT
<1>4. 64 * x + y \in Nat /\ 4096 * x + 64 * y + z = 64 * (64 * x + y) + z
  OBVIOUS
<1>5. v \div 262144 = x
  BY ONLY <1>1, By262144, x \in Sextet, SMT
<1>6. v \div 4096 = 64 * x + y
  <2> DEFINE q == 64 * x + y
             r == 64 * z + w
  <2>1. q \in Nat /\ r \in Nat /\ r < 4096 /\ v = 4096 * q + r
    BY <1>2, SMTT(30)
  <2> HIDE DEF q, r
  <2>2. v \div 4096 = q
    BY ONLY <2>1, By4096, SMTT(30)
  <2> QED
    BY <2>2 DEF q
<1>7. v \div 64 = 64 * (64 * x + y) + z /\ v % 64 = w
  <2> DEFINE q == 4096 * x + 64 * y + z
  <2>1. q \in Nat /\ v = 64 * q + w
    BY <1>3
  <2> HIDE DEF q
  <2>2. v \div 64 = q /\ v % 64 = w
    BY ONLY <2>1, By64, w \in Sextet
  <2> QED
    BY <2>2, <1>4 DEF q
<1>8. (64 * (64 * x + y) + z) % 64 = z
  <2> DEFINE q == 64 * x + y
  <2>1. q \in Nat
    BY <1>4
  <2> HIDE DEF q
  <2>2. (64 * q + z) % 64 = z
    BY ONLY <2>1, By64, z \in Sextet
  <2> QED
    BY <2>2 DEF q
<1>9. (64 * x + y) % 64 = y
  BY ONLY By64, x \in Sextet, y \in Sextet
<1> QED
  BY <1>5, <1>6, <1>7, <1>8, <1>9, SMT DEF v

\* Twenty-four bits, by eights and by sixes.
LEMMA Sextets ==
    ASSUME NEW a \in Octet, NEW b \in Octet, NEW c \in Octet,
           NEW n, n = a * 65536 + b * 256 + c
    PROVE  /\ n \div 262144 = a \div 4
           /\ (n \div 4096) % 64 = 16 * (a % 4) + (b \div 16)
           /\ (n \div 64) % 64 = 4 * (b % 16) + (c \div 64)
           /\ n % 64 = c % 64
<1> DEFINE h == a \div 4
           l == a % 4
           i == b \div 16
           m == b % 16
           j == c \div 64
           o == c % 64
<1>1. h \in Sextet /\ l \in 0..3 /\ a = 4 * h + l
  BY OctetBy4 DEF Sextet
<1>2. i \in 0..15 /\ m \in 0..15 /\ b = 16 * i + m
  BY OctetBy16
<1>3. j \in 0..3 /\ o \in Sextet /\ c = 64 * j + o
  BY OctetBy64 DEF Sextet
<1> SUFFICES /\ n \div 262144 = h /\ (n \div 4096) % 64 = 16 * l + i
             /\ (n \div 64) % 64 = 4 * m + j /\ n % 64 = o
  OBVIOUS
<1> HIDE DEF h, l, i, m, j, o
<1> DEFINE y == 16 * l + i
           z == 4 * m + j
<1>4. y \in Sextet /\ z \in Sextet
  BY <1>1, <1>2, <1>3 DEF Sextet
<1>5. n = OfSextets(h, y, z, o)
  BY <1>1, <1>2, <1>3, SMT DEF OfSextets, Sextet
<1> HIDE DEF y, z
<1>6. /\ OfSextets(h, y, z, o) \div 262144 = h
      /\ (OfSextets(h, y, z, o) \div 4096) % 64 = y
      /\ (OfSextets(h, y, z, o) \div 64) % 64 = z
      /\ OfSextets(h, y, z, o) % 64 = o
  BY ONLY <1>1, <1>3, <1>4, FourSextets
<1> QED
  BY <1>5, <1>6, SMT DEF y, z

\* The byte at a place, and zero behind the last.
ByteAt(s, k) == IF k <= Len(s) THEN s[k] ELSE 0

LEMMA QuantumIs ==
    ASSUME NEW s \in Seq(Octet), NEW i \in Nat, i < Len(s)
    PROVE  /\ Quantum(s, i) \in Seq(0..Pad) /\ Len(Quantum(s, i)) = 4
           /\ Quantum(s, i)[1] = ByteAt(s, i + 1) \div 4
           /\ Quantum(s, i)[2] = 16 * (ByteAt(s, i + 1) % 4) + (ByteAt(s, i + 2) \div 16)
           /\ Quantum(s, i)[3] = IF i + 2 <= Len(s)
                THEN 4 * (ByteAt(s, i + 2) % 16) + (ByteAt(s, i + 3) \div 64) ELSE Pad
           /\ Quantum(s, i)[4] = IF i + 3 <= Len(s) THEN ByteAt(s, i + 3) % 64 ELSE Pad
<1> DEFINE a == ByteAt(s, i + 1)
           b == ByteAt(s, i + 2)
           c == ByteAt(s, i + 3)
           n == a * 65536 + b * 256 + c
<1>1. Len(s) \in Nat /\ \A k \in 1..Len(s) : s[k] \in Octet
  OBVIOUS
<1>2. a \in Octet /\ b \in Octet /\ c \in Octet
  <2>1. ASSUME NEW k \in Nat, k >= 1 PROVE ByteAt(s, k) \in Octet
    BY <1>1, <2>1 DEF ByteAt, Octet
  <2> QED
    BY <2>1
<1>3. Quantum(s, i) =
        <<n \div 262144, (n \div 4096) % 64,
          IF Len(s) >= i + 2 THEN (n \div 64) % 64 ELSE Pad,
          IF Len(s) >= i + 3 THEN n % 64 ELSE Pad>>
  BY SMT DEF Quantum, ByteAt
<1>4. /\ n \div 262144 = a \div 4
      /\ (n \div 4096) % 64 = 16 * (a % 4) + (b \div 16)
      /\ (n \div 64) % 64 = 4 * (b % 16) + (c \div 64)
      /\ n % 64 = c % 64
  <2> HIDE DEF a, b, c
  <2> QED
    BY <1>2, Sextets, SMT
<1> HIDE DEF a, b, c, n
<1>5. /\ a \div 4 \in 0..63 /\ 16 * (a % 4) + (b \div 16) \in 0..63
      /\ 4 * (b % 16) + (c \div 64) \in 0..63 /\ c % 64 \in 0..63
  BY <1>2 DEF Octet
<1>6. \A x, y, z, w \in 0..Pad : <<x, y, z, w>> \in Seq(0..Pad)
  OBVIOUS
<1>7. Quantum(s, i) =
        <<a \div 4, 16 * (a % 4) + (b \div 16),
          IF Len(s) >= i + 2 THEN 4 * (b % 16) + (c \div 64) ELSE Pad,
          IF Len(s) >= i + 3 THEN c % 64 ELSE Pad>>
  BY <1>3, <1>4, SMT
<1>8. /\ Quantum(s, i)[1] = a \div 4
      /\ Quantum(s, i)[2] = 16 * (a % 4) + (b \div 16)
      /\ Quantum(s, i)[3] = IF i + 2 <= Len(s) THEN 4 * (b % 16) + (c \div 64) ELSE Pad
      /\ Quantum(s, i)[4] = IF i + 3 <= Len(s) THEN c % 64 ELSE Pad
  BY <1>1, <1>7
<1>9. Quantum(s, i) \in Seq(0..Pad) /\ Len(Quantum(s, i)) = 4
  <2>1. PICK x, y, z, w \in 0..Pad : Quantum(s, i) = <<x, y, z, w>>
    <3>1. /\ a \div 4 \in 0..Pad /\ 16 * (a % 4) + (b \div 16) \in 0..Pad
          /\ (IF Len(s) >= i + 2 THEN 4 * (b % 16) + (c \div 64) ELSE Pad) \in 0..Pad
          /\ (IF Len(s) >= i + 3 THEN c % 64 ELSE Pad) \in 0..Pad
      BY <1>5 DEF Pad
    <3> QED
      BY <1>7, <3>1
  <2> QED
    BY <1>6, <2>1
<1> QED
  BY <1>8, <1>9 DEF a, b, c

\* Every place in a sequence, counted from one, is one of its fours or threes.
LEMMA Fours ==
    ASSUME NEW k \in Nat, k > 0
    PROVE  \E q \in Nat, j \in 1..4 : k = 4 * q + j
<1>1. (k - 1) \div 4 \in Nat /\ (k - 1) % 4 \in 0..3 /\ k - 1 = 4 * ((k - 1) \div 4) + ((k - 1) % 4)
  OBVIOUS
<1>2. 1 + ((k - 1) % 4) \in 1..4 /\ k = 4 * ((k - 1) \div 4) + (1 + ((k - 1) % 4))
  BY <1>1
<1> QED
  BY <1>1, <1>2

LEMMA PlaceInFour ==
    ASSUME NEW q \in Nat, NEW j \in 1..4
    PROVE  (4 * q + j - 1) \div 4 = q /\ 1 + ((4 * q + j - 1) % 4) = j
<1>1. \A i \in 0..3 : (4 * q + i) \div 4 = q /\ (4 * q + i) % 4 = i
  OBVIOUS
<1>2. j - 1 \in 0..3 /\ 4 * q + (j - 1) = 4 * q + j - 1
  OBVIOUS
<1>3. (4 * q + j - 1) \div 4 = q /\ (4 * q + j - 1) % 4 = j - 1
  BY <1>1, <1>2
<1> QED
  BY <1>3

LEMMA Threes ==
    ASSUME NEW k \in Nat, k > 0
    PROVE  \E q \in Nat, j \in 1..3 : k = 3 * q + j
<1>1. (k - 1) \div 3 \in Nat /\ (k - 1) % 3 \in 0..2 /\ k - 1 = 3 * ((k - 1) \div 3) + ((k - 1) % 3)
  OBVIOUS
<1>2. 1 + ((k - 1) % 3) \in 1..3 /\ k = 3 * ((k - 1) \div 3) + (1 + ((k - 1) % 3))
  BY <1>1
<1> QED
  BY <1>1, <1>2

\* The first q quanta of a base64 text, place by place.
Quanta(s, q) ==
    [k \in 1..(4 * q) |-> Quantum(s, 3 * ((k - 1) \div 4))[1 + ((k - 1) % 4)]]

LEMMA QuantaAt ==
    ASSUME NEW s, NEW n \in Nat, NEW q \in 0..(n - 1), NEW j \in 1..4
    PROVE  /\ 4 * q + j \in 1..(4 * n)
           /\ Quanta(s, n)[4 * q + j] = Quantum(s, 3 * q)[j]
<1>1. 4 * q + j \in 1..(4 * n)
  OBVIOUS
<1>2. (4 * q + j - 1) \div 4 = q /\ 1 + ((4 * q + j - 1) % 4) = j
  BY PlaceInFour
<1> QED
  BY <1>1, <1>2 DEF Quanta

LEMMA FunctionIsText ==
    ASSUME NEW S, NEW m \in Nat, NEW f \in [1..m -> S]
    PROVE  f \in Seq(S) /\ Len(f) = m
OBVIOUS

LEMMA QuantaType ==
    ASSUME NEW s \in Seq(Octet), NEW n \in Nat, n = 0 \/ 3 * (n - 1) < Len(s)
    PROVE  Quanta(s, n) \in Seq(0..Pad) /\ Len(Quanta(s, n)) = 4 * n
<1>1. ASSUME NEW k \in 1..(4 * n)
      PROVE  Quantum(s, 3 * ((k - 1) \div 4))[1 + ((k - 1) % 4)] \in 0..Pad
  <2>1. k \in Nat /\ k > 0
    OBVIOUS
  <2>2. PICK q \in Nat, j \in 1..4 : k = 4 * q + j
    BY <2>1, Fours
  <2>3. (k - 1) \div 4 = q /\ 1 + ((k - 1) % 4) = j
    BY <2>2, PlaceInFour
  <2>4. 3 * q \in Nat /\ 3 * q < Len(s)
    BY <2>2
  <2>5. Quantum(s, 3 * q) \in Seq(0..Pad) /\ Len(Quantum(s, 3 * q)) = 4
    <3> DEFINE i == 3 * q
    <3> HIDE DEF i
    <3>1. i \in Nat /\ i < Len(s)
      BY <2>4 DEF i
    <3>2. Quantum(s, i) \in Seq(0..Pad) /\ Len(Quantum(s, i)) = 4
      BY <3>1, QuantumIs
    <3> QED
      BY <3>2 DEF i
  <2>6. Quantum(s, 3 * q)[j] \in 0..Pad
    <3> DEFINE t == Quantum(s, 3 * q)
    <3>1. t \in Seq(0..Pad) /\ j \in 1..Len(t)
      BY <2>2, <2>5
    <3> HIDE DEF t
    <3>2. t[j] \in 0..Pad
      BY ONLY <3>1, ElementOfSeq
    <3> QED
      BY <3>2 DEF t
  <2> QED
    BY <2>3, <2>6
<1>2. Quanta(s, n) \in [1..(4 * n) -> 0..Pad] /\ 4 * n \in Nat
  BY <1>1 DEF Quanta
<1> DEFINE f == Quanta(s, n)
           m == 4 * n
           S == 0..Pad
<1>3. f \in [1..m -> S] /\ m \in Nat
  BY <1>2
<1> HIDE DEF f, m, S
<1>4. f \in Seq(S) /\ Len(f) = m
  BY ONLY <1>3, FunctionIsText
<1> QED
  BY <1>4 DEF f, m, S

LEMMA QuantaAppend ==
    ASSUME NEW s \in Seq(Octet), NEW q \in Nat, 3 * q < Len(s)
    PROVE  Quanta(s, q + 1) = Quanta(s, q) \o Quantum(s, 3 * q)
<1> DEFINE g == Quanta(s, q)
           h == Quanta(s, q + 1)
           t == Quantum(s, 3 * q)
<1>1. t \in Seq(0..Pad) /\ Len(t) = 4
  <2> DEFINE i == 3 * q
  <2>1. i \in Nat /\ i < Len(s)
    OBVIOUS
  <2> HIDE DEF i
  <2>2. Quantum(s, i) \in Seq(0..Pad) /\ Len(Quantum(s, i)) = 4
    BY <2>1, QuantumIs
  <2> QED
    BY <2>2 DEF i
<1>2. q = 0 \/ 3 * (q - 1) < Len(s)
  OBVIOUS
<1>3. g \in Seq(0..Pad) /\ Len(g) = 4 * q
  BY <1>2, QuantaType
<1>4. q + 1 \in Nat /\ 3 * ((q + 1) - 1) < Len(s)
  OBVIOUS
<1>5. h \in Seq(0..Pad) /\ Len(h) = 4 * (q + 1)
  BY <1>4, QuantaType
<1>6. ASSUME NEW k \in 1..(4 * q) PROVE h[k] = g[k]
  <2>1. k \in 1..(4 * (q + 1))
    OBVIOUS
  <2> QED
    BY <2>1 DEF Quanta
<1>7. ASSUME NEW j \in 1..4 PROVE h[4 * q + j] = t[j]
  <2>1. q \in 0..((q + 1) - 1)
    OBVIOUS
  <2> QED
    BY <1>4, <2>1, QuantaAt
<1> HIDE DEF g, h, t
<1>8. /\ g \o t \in Seq(0..Pad) /\ Len(g \o t) = 4 * q + 4
      /\ \A k \in 1..(4 * q + 4) :
           (g \o t)[k] = IF k <= 4 * q THEN g[k] ELSE t[k - 4 * q]
  <2>1. /\ g \o t \in Seq(0..Pad) /\ Len(g \o t) = Len(g) + Len(t)
        /\ \A k \in 1..(Len(g) + Len(t)) :
             (g \o t)[k] = IF k <= Len(g) THEN g[k] ELSE t[k - Len(g)]
    BY <1>1, <1>3, ConcatProperties, Zenon
  <2>2. Len(g) = 4 * q /\ Len(t) = 4
    BY <1>1, <1>3
  <2> QED
    BY ONLY <2>1, <2>2
<1>9. ASSUME NEW k \in 1..(4 * q + 4) PROVE h[k] = (g \o t)[k]
  <2>1. CASE k <= 4 * q
    <3>1. k \in 1..(4 * q)
      BY <2>1
    <3>2. (g \o t)[k] = g[k]
      BY <1>8, <2>1
    <3> QED
      BY <1>6, <3>1, <3>2
  <2>2. CASE ~(k <= 4 * q)
    <3>1. k - 4 * q \in 1..4 /\ 4 * q + (k - 4 * q) = k
      BY <2>2
    <3>2. h[k] = t[k - 4 * q]
      BY <1>7, <3>1
    <3>3. (g \o t)[k] = t[k - 4 * q]
      BY <1>8, <2>2
    <3> QED
      BY <3>2, <3>3
  <2> QED
    BY <2>1, <2>2
<1>10. h = g \o t
  <2>1. Len(h) = Len(g \o t) /\ Len(h) = 4 * q + 4
    BY <1>5, <1>8
  <2>2. \A k \in 1..Len(h) : h[k] = (g \o t)[k]
    BY <1>9, <2>1
  <2>3. h \in Seq(0..Pad) /\ g \o t \in Seq(0..Pad)
    BY <1>5, <1>8
  <2> QED
    BY <2>1, <2>2, <2>3, SeqEqual, Zenon
<1> QED
  BY <1>10 DEF g, h, t

\* base64 makes all the quanta, if there is room for them.
LEMMA Base64Is ==
    ASSUME NEW s \in Seq(Octet), NEW capacity \in Nat
    PROVE  LET turns == (Len(s) + 2) \div 3
           IN  base64(s, capacity) =
                 IF capacity < 4 * turns THEN {} ELSE {Quanta(s, turns)}
<1> DEFINE n == (Len(s) + 2) \div 3
           Part(g, q) == IF capacity < 4 * q THEN {}
                         ELSE {head \o Quantum(s, 3 * (q - 1)) : head \in g[q - 1]}
           Turn(g) == [q \in 0..n |-> IF q = 0 THEN {<<>>} ELSE Part(g, q)]
           g == [q \in 0..n |-> IF capacity < 4 * q THEN {} ELSE {Quanta(s, q)}]
<1>1. Len(s) \in Nat /\ n \in Nat /\ 3 * n < Len(s) + 3
  OBVIOUS
<1>2. Quanta(s, 0) = <<>>
  <2>1. Quanta(s, 0) \in Seq(0..Pad) /\ Len(Quanta(s, 0)) = 4 * 0
    BY QuantaType
  <2>2. Len(Quanta(s, 0)) = 0
    BY <2>1
  <2> QED
    BY <2>1, <2>2, EmptySeq
<1> HIDE DEF n
<1>3. ASSUME NEW q \in 1..n PROVE Part(g, q) = g[q]
  <2> DEFINE p == q - 1
  <2>1. /\ p \in Nat /\ p \in 0..n /\ q \in 0..n /\ q = p + 1
        /\ 3 * p < Len(s) /\ 4 * p < 4 * q
    BY <1>1
  <2>2. Quanta(s, p + 1) = Quanta(s, p) \o Quantum(s, 3 * p)
    <3> HIDE DEF p
    <3> QED
      BY <2>1, QuantaAppend
  <2> HIDE DEF p
  <2>3. CASE capacity < 4 * q
    BY <2>1, <2>3
  <2>4. CASE ~(capacity < 4 * q)
    <3>1. ~(capacity < 4 * p)
      BY <2>1, <2>4
    <3>2. g[p] = {Quanta(s, p)}
      BY <2>1, <3>1
    <3>3. Part(g, q) = {head \o Quantum(s, 3 * p) : head \in g[p]}
      BY <2>4 DEF p
    <3>4. g[q] = {Quanta(s, p + 1)}
      BY <2>1, <2>4
    <3> HIDE DEF g, Part
    <3> QED
      BY <2>2, <3>2, <3>3, <3>4
  <2> QED
    BY <2>3, <2>4
<1>4. g[0] = {<<>>}
  <2>1. 0 \in 0..n /\ ~(capacity < 4 * 0)
    BY <1>1
  <2> QED
    BY <1>2, <2>1
<1>5. g = Turn(g)
  <2> HIDE DEF Part
  <2>1. ASSUME NEW q \in 0..n, q # 0 PROVE g[q] = Part(g, q)
    <3>1. q \in 1..n
      BY <1>1, <2>1
    <3> QED
      BY <1>3, <3>1
  <2> QED
    BY <1>4, <2>1
<1>6. PICK h : h = Turn(h) /\ base64(s, capacity) = h[n]
  <2> DEFINE choice == CHOOSE f : f = Turn(f)
  <2>1. choice = Turn(choice)
    BY <1>5, Zenon
  <2>2. base64(s, capacity) = choice[n]
    BY Zenon DEF base64, n
  <2> HIDE DEF choice
  <2> QED
    BY <2>1, <2>2, Zenon
<1>7. \A q \in 0..n : g[q] = h[q]
  <2>1. ASSUME NEW q \in 0..n, AgreeBefore(g, h, q) PROVE g[q] = h[q]
    <3> HIDE DEF g
    <3>1. q # 0 => g[q - 1] = h[q - 1]
      BY <1>1, <2>1 DEF AgreeBefore
    <3>2. g[q] = IF q = 0 THEN {<<>>} ELSE Part(g, q)
      BY <1>5, Zenon
    <3>3. h[q] = IF q = 0 THEN {<<>>} ELSE Part(h, q)
      BY <1>6, Zenon
    <3>4. q # 0 => Part(g, q) = Part(h, q)
      BY <3>1
    <3> QED
      BY <3>2, <3>3, <3>4
  <2>2. n \in Nat
    BY <1>1
  <2> HIDE DEF Turn, g, n
  <2>3. AgreeNext(n, g, h)
    BY ONLY <2>1 DEF AgreeNext
  <2> QED
    BY ONLY <2>2, <2>3, LoopIsUnique
<1>8. n \in 0..n /\ g[n] = IF capacity < 4 * n THEN {} ELSE {Quanta(s, n)}
  BY <1>1
<1> HIDE DEF g, Turn
<1>9. base64(s, capacity) = IF capacity < 4 * n THEN {} ELSE {Quanta(s, n)}
  BY <1>6, <1>7, <1>8
<1> QED
  BY <1>9 DEF n

\* Three bytes, put together again out of four sextets.
LEMMA Rejoined ==
    ASSUME NEW a \in Octet, NEW b \in Octet, NEW c \in Octet
    PROVE  LET y == 16 * (a % 4) + (b \div 16)
               z == 4 * (b % 16) + (c \div 64)
           IN  /\ a \div 4 \in Sextet /\ y \in Sextet /\ z \in Sextet /\ c % 64 \in Sextet
               /\ 4 * (a \div 4) + (y \div 16) = a
               /\ 16 * (y % 16) + (z \div 4) = b
               /\ 64 * (z % 4) + (c % 64) = c
<1> DEFINE h == a \div 4
           l == a % 4
           i == b \div 16
           m == b % 16
           j == c \div 64
           o == c % 64
<1>1. h \in 0..63 /\ l \in 0..3 /\ a = 4 * h + l
  BY OctetBy4
<1>2. i \in 0..15 /\ m \in 0..15 /\ b = 16 * i + m
  BY OctetBy16
<1>3. j \in 0..3 /\ o \in 0..63 /\ c = 64 * j + o
  BY OctetBy64
<1> HIDE DEF h, l, i, m, j, o
<1>4. (16 * l + i) \div 16 = l /\ (16 * l + i) % 16 = i /\ 16 * l + i \in Sextet
  BY <1>1, <1>2 DEF Sextet
<1>5. (4 * m + j) \div 4 = m /\ (4 * m + j) % 4 = j /\ 4 * m + j \in Sextet
  BY <1>2, <1>3 DEF Sextet
<1>6. /\ h \in Sextet /\ 16 * l + i \in Sextet /\ 4 * m + j \in Sextet /\ o \in Sextet
      /\ 4 * h + ((16 * l + i) \div 16) = a
      /\ 16 * ((16 * l + i) % 16) + ((4 * m + j) \div 4) = b
      /\ 64 * ((4 * m + j) % 4) + o = c
  BY <1>1, <1>2, <1>3, <1>4, <1>5 DEF Sextet
<1> QED
  BY <1>6 DEF h, l, i, m, j, o

\* What a place of a base64 text counts for.
Plain(x) == IF x = Pad THEN 0 ELSE x

LEMMA QuantumDecodes ==
    ASSUME NEW s \in Seq(Octet), NEW i \in Nat, i < Len(s)
    PROVE  LET t == Quantum(s, i)
           IN  /\ \A j \in 1..4 : t[j] \in 0..Pad
               /\ t[1] # Pad /\ t[2] # Pad
               /\ t[3] = Pad <=> i + 2 > Len(s)
               /\ t[4] = Pad <=> i + 3 > Len(s)
               /\ 4 * Plain(t[1]) + (Plain(t[2]) \div 16) = ByteAt(s, i + 1)
               /\ 16 * (Plain(t[2]) % 16) + (Plain(t[3]) \div 4) = ByteAt(s, i + 2)
               /\ 64 * (Plain(t[3]) % 4) + Plain(t[4]) = ByteAt(s, i + 3)
<1> DEFINE t == Quantum(s, i)
           a == ByteAt(s, i + 1)
           b == ByteAt(s, i + 2)
           c == ByteAt(s, i + 3)
           x == a \div 4
           y == 16 * (a % 4) + (b \div 16)
           z == 4 * (b % 16) + (c \div 64)
           w == c % 64
<1>1. Len(s) \in Nat /\ \A k \in 1..Len(s) : s[k] \in Octet
  OBVIOUS
<1>2. a \in Octet /\ b \in Octet /\ c \in Octet
  <2>1. ASSUME NEW k \in Nat, k >= 1 PROVE ByteAt(s, k) \in Octet
    BY <1>1, <2>1 DEF ByteAt, Octet
  <2> QED
    BY <2>1
<1>3. /\ t[1] = x /\ t[2] = y
      /\ t[3] = IF i + 2 <= Len(s) THEN z ELSE Pad
      /\ t[4] = IF i + 3 <= Len(s) THEN w ELSE Pad
  BY QuantumIs
<1>4. i + 2 > Len(s) => b = 0 /\ c = 0
  BY <1>1 DEF ByteAt
<1>5. i + 3 > Len(s) => c = 0
  BY <1>1 DEF ByteAt
<1> HIDE DEF t, a, b, c
<1>6. /\ x \in Sextet /\ y \in Sextet /\ z \in Sextet /\ w \in Sextet
      /\ 4 * x + (y \div 16) = a /\ 16 * (y % 16) + (z \div 4) = b /\ 64 * (z % 4) + w = c
  BY <1>2, Rejoined
<1>7. i + 2 > Len(s) => z = 0 /\ w = 0
  BY <1>4
<1>8. i + 3 > Len(s) => w = 0
  BY <1>5
<1> HIDE DEF x, y, z, w
<1>9. x # Pad /\ y # Pad /\ z # Pad /\ w # Pad
  <2>1. \A v \in Sextet : v # Pad
    BY DEF Pad, Sextet
  <2> QED
    BY ONLY <1>6, <2>1
<1>10. /\ t[1] # Pad /\ t[2] # Pad
       /\ Plain(t[1]) = x /\ Plain(t[2]) = y /\ Plain(t[3]) = z /\ Plain(t[4]) = w
  <2>1. Plain(x) = x /\ Plain(y) = y /\ Plain(z) = z /\ Plain(w) = w /\ Plain(Pad) = 0
    BY ONLY <1>9 DEF Plain
  <2>2. Plain(t[1]) = x /\ Plain(t[2]) = y /\ t[1] # Pad /\ t[2] # Pad
    BY ONLY <1>3, <1>9, <2>1
  <2>3. Plain(t[3]) = z
    <3>1. ~(i + 2 <= Len(s)) => z = 0
      BY <1>1, <1>7
    <3> QED
      BY ONLY <1>3, <2>1, <3>1
  <2>4. Plain(t[4]) = w
    <3>1. ~(i + 3 <= Len(s)) => w = 0
      BY <1>1, <1>8
    <3> QED
      BY ONLY <1>3, <2>1, <3>1
  <2> QED
    BY <2>2, <2>3, <2>4
<1>11. /\ t[3] = Pad <=> i + 2 > Len(s)
       /\ t[4] = Pad <=> i + 3 > Len(s)
  BY <1>1, <1>3, <1>9
<1>12. t[1] \in 0..Pad /\ t[2] \in 0..Pad /\ t[3] \in 0..Pad /\ t[4] \in 0..Pad
  BY <1>3, <1>6 DEF Pad, Sextet
<1>13. \A j \in 1..4 : t[j] \in 0..Pad
  BY <1>12
<1> QED
  BY <1>6, <1>10, <1>11, <1>13 DEF t, a, b, c

\* A place is behind the last sextet where the quantum it is in is padded.
LEMMA PadBegins ==
    ASSUME NEW n \in Nat, NEW q \in Nat, 3 * q < n
    PROVE  /\ ~(4 * q + 1 > (4 * n + 2) \div 3)
           /\ ~(4 * q + 2 > (4 * n + 2) \div 3)
           /\ 4 * q + 3 > (4 * n + 2) \div 3 <=> 3 * q + 2 > n
           /\ 4 * q + 4 > (4 * n + 2) \div 3 <=> 3 * q + 3 > n
<1> DEFINE e == (4 * n + 2) \div 3
<1>1. e \in Nat /\ 3 * e <= 4 * n + 2 /\ 4 * n + 2 < 3 * e + 3
  OBVIOUS
<1> HIDE DEF e
<1>2. /\ ~(4 * q + 1 > e) /\ ~(4 * q + 2 > e)
      /\ 4 * q + 3 > e <=> 3 * q + 2 > n
      /\ 4 * q + 4 > e <=> 3 * q + 3 > n
  BY <1>1
<1> QED
  BY <1>2 DEF e

LEMMA QuantaAreBase64 ==
    ASSUME NEW s \in Seq(Octet)
    PROVE  IsBase64(Quanta(s, (Len(s) + 2) \div 3), s)
<1> DEFINE l == Len(s)
           n == (l + 2) \div 3
           out == Quanta(s, n)
<1>1. l \in Nat /\ n \in Nat /\ 3 * n < l + 3 /\ (n = 0 \/ 3 * (n - 1) < l)
  OBVIOUS
<1>2. out \in Seq(0..Pad) /\ Len(out) = 4 * n
  <2> HIDE DEF n
  <2> QED
    BY <1>1, QuantaType
<1>3. DOMAIN out = 1..(4 * n)
  BY DEF Quanta
<1> HIDE DEF n
<1>4. ASSUME NEW q \in 0..(n - 1)
      PROVE  /\ 3 * q \in Nat /\ 3 * q < l
             /\ \A j \in 1..4 : out[4 * q + j] = Quantum(s, 3 * q)[j]
  <2>1. q \in Nat /\ 3 * q \in Nat /\ 3 * q < l
    BY <1>1
  <2>2. \A j \in 1..4 : out[4 * q + j] = Quantum(s, 3 * q)[j]
    BY <1>1, QuantaAt
  <2> QED
    BY <2>1, <2>2
<1> HIDE DEF l, out
<1>5. ASSUME NEW q \in 0..(n - 1), NEW t, t = Quantum(s, 3 * q)
      PROVE  /\ \A j \in 1..4 : t[j] \in 0..Pad
             /\ t[1] # Pad /\ t[2] # Pad
             /\ t[3] = Pad <=> 3 * q + 2 > l
             /\ t[4] = Pad <=> 3 * q + 3 > l
             /\ 4 * Plain(t[1]) + (Plain(t[2]) \div 16) = ByteAt(s, 3 * q + 1)
             /\ 16 * (Plain(t[2]) % 16) + (Plain(t[3]) \div 4) = ByteAt(s, 3 * q + 2)
             /\ 64 * (Plain(t[3]) % 4) + Plain(t[4]) = ByteAt(s, 3 * q + 3)
  <2> DEFINE i == 3 * q
  <2>1. i \in Nat /\ i < Len(s) /\ t = Quantum(s, i)
    BY <1>4, <1>5 DEF l
  <2> HIDE DEF i
  <2>2. /\ \A j \in 1..4 : t[j] \in 0..Pad
        /\ t[1] # Pad /\ t[2] # Pad
        /\ t[3] = Pad <=> i + 2 > Len(s)
        /\ t[4] = Pad <=> i + 3 > Len(s)
        /\ 4 * Plain(t[1]) + (Plain(t[2]) \div 16) = ByteAt(s, i + 1)
        /\ 16 * (Plain(t[2]) % 16) + (Plain(t[3]) \div 4) = ByteAt(s, i + 2)
        /\ 64 * (Plain(t[3]) % 4) + Plain(t[4]) = ByteAt(s, i + 3)
    BY <2>1, QuantumDecodes
  <2> QED
    BY <2>2 DEF i, l
<1>6. ASSUME NEW k \in DOMAIN out
      PROVE  out[k] \in 0..Pad /\ (out[k] = Pad <=> k > (4 * l + 2) \div 3)
  <2>1. k \in Nat /\ k > 0 /\ k <= 4 * n
    BY <1>1, <1>3
  <2>2. PICK q \in Nat, j \in 1..4 : k = 4 * q + j
    BY <2>1, Fours
  <2>3. q \in 0..(n - 1)
    BY <1>1, <2>1, <2>2
  <2>4. PICK t : t = Quantum(s, 3 * q)
    OBVIOUS
  <2>5. out[k] = t[j]
    BY <1>4, <2>2, <2>3, <2>4
  <2>6. /\ \A i \in 1..4 : t[i] \in 0..Pad
        /\ t[1] # Pad /\ t[2] # Pad
        /\ t[3] = Pad <=> 3 * q + 2 > l
        /\ t[4] = Pad <=> 3 * q + 3 > l
    BY <1>5, <2>3, <2>4
  <2>7. /\ ~(4 * q + 1 > (4 * l + 2) \div 3)
        /\ ~(4 * q + 2 > (4 * l + 2) \div 3)
        /\ 4 * q + 3 > (4 * l + 2) \div 3 <=> 3 * q + 2 > l
        /\ 4 * q + 4 > (4 * l + 2) \div 3 <=> 3 * q + 3 > l
    BY <1>1, <1>4, <2>3, PadBegins
  <2>8. j = 1 \/ j = 2 \/ j = 3 \/ j = 4
    BY <2>2
  <2>9. t[j] = Pad <=> k > (4 * l + 2) \div 3
    <3> DEFINE e == (4 * l + 2) \div 3
    <3> HIDE DEF e
    <3> SUFFICES t[j] = Pad <=> k > e
      BY DEF e
    <3>1. /\ ~(4 * q + 1 > e) /\ ~(4 * q + 2 > e)
          /\ 4 * q + 3 > e <=> 3 * q + 2 > l
          /\ 4 * q + 4 > e <=> 3 * q + 3 > l
      BY <2>7 DEF e
    <3>2. CASE j = 1
      BY <2>2, <2>6, <3>1, <3>2
    <3>3. CASE j = 2
      BY <2>2, <2>6, <3>1, <3>3
    <3>4. CASE j = 3
      BY <2>2, <2>6, <3>1, <3>4
    <3>5. CASE j = 4
      BY <2>2, <2>6, <3>1, <3>5
    <3> QED
      BY <2>8, <3>2, <3>3, <3>4, <3>5
  <2> QED
    BY <2>2, <2>5, <2>6, <2>9
<1>7. ASSUME NEW k \in 1..(3 * n)
      PROVE  Decoded(out, k) = IF k <= l THEN s[k] ELSE 0
  <2>1. k \in Nat /\ k > 0 /\ k <= 3 * n
    BY <1>1
  <2>2. PICK q \in Nat, j \in 1..3 : k = 3 * q + j
    BY <2>1, Threes
  <2>3. q \in 0..(n - 1)
    BY <1>1, <2>1, <2>2
  <2>4. PICK t : t = Quantum(s, 3 * q)
    OBVIOUS
  <2>5. /\ 4 * Plain(t[1]) + (Plain(t[2]) \div 16) = ByteAt(s, 3 * q + 1)
        /\ 16 * (Plain(t[2]) % 16) + (Plain(t[3]) \div 4) = ByteAt(s, 3 * q + 2)
        /\ 64 * (Plain(t[3]) % 4) + Plain(t[4]) = ByteAt(s, 3 * q + 3)
    BY <1>5, <2>3, <2>4
  <2>6. (k - 1) \div 3 = q /\ k % 3 = (IF j = 3 THEN 0 ELSE j)
    BY <2>2
  <2>7. /\ out[4 * q + 1] = t[1] /\ out[4 * q + 2] = t[2]
        /\ out[4 * q + 3] = t[3] /\ out[4 * q + 4] = t[4]
    BY <1>4, <2>3, <2>4
  <2>8. Decoded(out, k) =
          CASE k % 3 = 1 -> 4 * Plain(t[1]) + (Plain(t[2]) \div 16)
            [] k % 3 = 2 -> 16 * (Plain(t[2]) % 16) + (Plain(t[3]) \div 4)
            [] k % 3 = 0 -> 64 * (Plain(t[3]) % 4) + Plain(t[4])
    BY <2>6, <2>7 DEF Decoded, Plain
  <2>9. Decoded(out, k) = ByteAt(s, k)
    <3>1. CASE j = 1
      <4>1. k % 3 = 1 /\ k = 3 * q + 1
        BY <2>2, <2>6, <3>1
      <4>2. Decoded(out, k) = 4 * Plain(t[1]) + (Plain(t[2]) \div 16)
        BY ONLY <2>8, <4>1
      <4> QED
        BY ONLY <2>5, <4>1, <4>2
    <3>2. CASE j = 2
      BY <2>2, <2>5, <2>6, <2>8, <3>2
    <3>3. CASE j = 3
      BY <2>2, <2>5, <2>6, <2>8, <3>3
    <3> QED
      BY <2>2, <3>1, <3>2, <3>3
  <2> QED
    BY <2>9 DEF ByteAt, l
<1> QED
  BY <1>2, <1>6, <1>7 DEF IsBase64, l, n, out

\* Whatever the credentials are and however large the buffer is, the header that is
\* sent decodes to user, colon and password, nothing more and nothing less, and one
\* is missing only without credentials or for want of the room it takes:
\* basic_authorization and base64_fill.
THEOREM CredentialsSentWhole ==
    ASSUME secret \in Seq(Octet), room \in Nat PROVE CredentialsAgree
<1> SUFFICES ASSUME NEW k \in 0..Len(secret)
    PROVE  LET user   == SubSeq(secret, 1, k)
               pass   == SubSeq(secret, k + 1, Len(secret))
               header == basic_authorization(user, pass, room)
           IN  /\ header = {} <=>
                    secret = <<>> \/ room < 6 + 4 * ((Len(secret) + 3) \div 3)
               /\ \A out \in header : IsBase64(out, user \o <<58>> \o pass)
  BY DEF CredentialsAgree
<1> DEFINE user == SubSeq(secret, 1, k)
           pass == SubSeq(secret, k + 1, Len(secret))
           s    == user \o <<58>> \o pass
           n    == (Len(secret) + 3) \div 3
<1>1. Len(secret) \in Nat
  OBVIOUS
<1>2. user \in Seq(Octet) /\ Len(user) = k
  <2> DEFINE i == 1
  <2>1. \A j \in i..k : secret[j] \in Octet
    BY <1>1
  <2>2. i \in Int /\ k \in Int
    OBVIOUS
  <2> HIDE DEF i
  <2>3. /\ SubSeq(secret, i, k) \in Seq(Octet)
        /\ Len(SubSeq(secret, i, k)) = IF i <= k THEN k - i + 1 ELSE 0
    BY ONLY <2>1, <2>2, SubSeqProperties, Zenon
  <2> QED
    BY <2>3 DEF i
<1>3. pass \in Seq(Octet) /\ Len(pass) = Len(secret) - k
  <2> DEFINE m == Len(secret)
             i == k + 1
  <2>1. \A j \in i..m : secret[j] \in Octet
    BY <1>1
  <2>2. i \in Int /\ m \in Int
    BY <1>1
  <2> HIDE DEF m, i
  <2>3. /\ SubSeq(secret, i, m) \in Seq(Octet)
        /\ Len(SubSeq(secret, i, m)) = IF i <= m THEN m - i + 1 ELSE 0
    BY ONLY <2>1, <2>2, SubSeqProperties, Zenon
  <2> QED
    BY <1>1, <2>3 DEF m, i
<1>4. <<58>> \in Seq(Octet) /\ Len(<<58>>) = 1
  BY DEF Octet
<1> HIDE DEF user, pass
<1>5. s \in Seq(Octet) /\ Len(s) = Len(secret) + 1
  <2>1. user \o <<58>> \in Seq(Octet) /\ Len(user \o <<58>>) = Len(user) + Len(<<58>>)
    BY <1>2, <1>4, ConcatProperties, Zenon
  <2>2. s \in Seq(Octet) /\ Len(s) = Len(user \o <<58>>) + Len(pass)
    BY <1>3, <2>1, ConcatProperties, Zenon
  <2> HIDE DEF s
  <2> QED
    BY <1>1, <1>2, <1>3, <1>4, <2>1, <2>2
<1> HIDE DEF s
<1>6. user = <<>> /\ pass = <<>> <=> secret = <<>>
  <2>1. \A t \in Seq(Octet) : t = <<>> <=> Len(t) = 0
    BY EmptySeq
  <2> QED
    BY <1>1, <1>2, <1>3, <2>1
<1>7. (Len(s) + 2) \div 3 = n /\ n \in Nat
  <2>1. Len(s) + 2 = Len(secret) + 3
    BY <1>1, <1>5
  <2> QED
    BY <1>1, <2>1
<1> HIDE DEF n
<1>8. basic_authorization(user, pass, room) =
        IF secret = <<>> \/ room < 6 THEN {} ELSE base64(s, room - 6)
  BY <1>6 DEF basic_authorization, s
<1>9. basic_authorization(user, pass, room) =
        IF secret = <<>> \/ room < 6 + 4 * n THEN {} ELSE {Quanta(s, n)}
  <2>1. CASE room < 6
    BY <1>7, <1>8, <2>1
  <2>2. CASE ~(room < 6)
    <3> DEFINE capacity == room - 6
    <3>1. capacity \in Nat
      BY <2>2
    <3>2. capacity < 4 * n <=> room < 6 + 4 * n
      BY <1>7
    <3> HIDE DEF capacity
    <3>3. base64(s, capacity) = IF capacity < 4 * n THEN {} ELSE {Quanta(s, n)}
      BY <1>5, <1>7, <3>1, Base64Is
    <3> QED
      BY <1>8, <2>2, <3>2, <3>3 DEF capacity
  <2> QED
    BY <2>1, <2>2
<1>10. IsBase64(Quanta(s, n), s)
  BY <1>5, <1>7, QuantaAreBase64
<1>11. /\ basic_authorization(user, pass, room) = {} <=>
            secret = <<>> \/ room < 6 + 4 * n
       /\ \A out \in basic_authorization(user, pass, room) : IsBase64(out, s)
  BY <1>9, <1>10
<1> QED
  BY <1>11 DEF user, pass, s, n

\* Both, whatever is in the files and in the configuration of the device.
THEOREM TextsAreRead ==
    ASSUME NEW C, file \in Seq(C), secret \in Seq(Octet), room \in Nat PROVE TextsAgree
BY FilesAreRead, CredentialsSentWhole DEF TextsAgree
=============================================================================
