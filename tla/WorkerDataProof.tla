--------------------------- MODULE WorkerDataProof ---------------------------
(***************************************************************************)
(* The buffers of a worker, on top of the order of its signals, for any    *)
(* number of devices: what a device copies to the host, what the reducers  *)
(* add, what the root compresses, pushes and pulls, and what every device  *)
(* copies back are determined by the rounds of the key that were done      *)
(* (DInv), on a machine of one or two PCIe switches. Hence the sum that is *)
(* pushed, and the slices that a callback finds.                           *)
(***************************************************************************)
EXTENDS WorkerSignalsProof

-----------------------------------------------------------------------------
(* Which device copies which part of the host's buffers.                   *)

\* The device of switch w that copies slice i.
At(w, i) == w * PcieSize + i

\* Its switch and its slice are w and i; the last device of the back switch is
\* the root.
LEMMA PlaceOf ==
    ASSUME machine \in Machines, NEW w \in Switches, NEW i \in Slices
    PROVE  At(w, i) \in Devices /\ SwitchOf(At(w, i)) = w /\ SliceOf(At(w, i)) = i
<1>1. PICK s \in Nat \ {0}, m \in Nat \ {0} :
         s = PcieSize /\ m = PcieNum /\ machine.local_size = m * s
  BY Geometry
<1>2. w \in Nat /\ w < m /\ i \in Nat /\ i < s
  BY <1>1 DEF Switches, Slices
<1>3. (w * s + i) \div s = w /\ (w * s + i) % s = i
  BY <1>1, <1>2, DivisionIs
<1>4. PICK x \in Nat : m = w + 1 + x
  <2>1. m - w - 1 \in Nat /\ m = w + 1 + (m - w - 1)
    BY <1>1, <1>2
  <2> QED BY <2>1
<1>5. m * s = w * s + s + x * s /\ x * s \in Nat /\ w * s \in Nat
  BY <1>1, <1>2, <1>4
<1>6. w * s + i \in 0..m * s - 1
  BY <1>1, <1>2, <1>5
<1> QED BY <1>1, <1>3, <1>6 DEF At, SwitchOf, SliceOf, Devices

\* Two devices of the same switch and slice are one; the devices of the back
\* switch are those that reduce.
LEMMA OneDevice ==
    ASSUME machine \in Machines, NEW d \in Devices, NEW e \in Devices
    PROVE  /\ SwitchOf(d) = SwitchOf(e) /\ SliceOf(d) = SliceOf(e) => d = e
           /\ IsReducerRoot(d) <=> SwitchOf(d) = Back
<1>1. d = SwitchOf(d) * PcieSize + SliceOf(d) /\ e = SwitchOf(e) * PcieSize + SliceOf(e)
  BY Places
<1>2. ReducerRoot(d) = Back * PcieSize + SliceOf(d)
  BY DEF ReducerRoot, Back
<1>3. SwitchOf(ReducerRoot(d)) = Back
  <2>1. Back \in Switches /\ SliceOf(d) \in Slices
    BY Geometry, OfDevice
  <2> QED BY <1>2, <2>1, PlaceOf DEF At
<1> QED BY <1>1, <1>2, <1>3 DEF IsReducerRoot

\* With two switches at most, the devices of a slice are one of each switch.
LEMMA TwoSwitches ==
    ASSUME machine \in Machines, PcieNum <= 2
    PROVE  /\ CrossPcie <=> PcieNum = 2
           /\ CrossPcie => Switches = {0, 1} /\ Back = 1
           /\ ~CrossPcie => Switches = {0} /\ Back = 0
<1>1. PICK s \in Nat \ {0}, m \in Nat \ {0} :
         s = PcieSize /\ m = PcieNum /\ machine.local_size = m * s
  BY Geometry
<1>2. m = 1 \/ m = 2
  BY <1>1
<1>3. 1 * s = s /\ 2 * s = s + s
  BY <1>1
<1> QED BY <1>1, <1>2, <1>3 DEF CrossPcie, Switches, Back

-----------------------------------------------------------------------------
(* The rounds of a task on the devices of a machine follow each other.     *)

\* What the rounds of key k on devices d and e, and on the root, are to each
\* other: a device copies to its memory what the root has pulled, decompressed
\* and copied, and the root pushes what every device has copied and reduced.
Chain(d, e, k) ==
    LET use == UseStage("PUSH", k) IN
    /\ Done(d, "COPYH2D", k) <= Done(Root, "COPYH2D", k)
    /\ Done(Root, "COPYH2D", k) <= Done(Root, use, k)
    /\ Done(Root, use, k) <= Used(Root, use, k)
    /\ Used(Root, use, k) <= Done(e, "COPYD2H", k)
    /\ Done(e, "COPYD2H", k) <= Done(e, "COPYH2D", k) + 1
    /\ CrossPcie => /\ Used(Root, use, k) <= Done(e, "PCIE_REDUCE", k)
                    /\ Done(e, "PCIE_REDUCE", k) <= Done(e, "COPYD2H", k)
    /\ machine.is_distributed => /\ Done(Root, "COPYH2D", k) <= Done(Root, "PULL", k)
                                 /\ Done(Root, "PULL", k) <= Done(Root, use, k)
    /\ HasCompressor(TensorOf(k)) => /\ Done(Root, "COPYH2D", k) <= Done(Root, "DECOMPRESS", k)
                                     /\ Done(Root, "DECOMPRESS", k) <= Done(Root, "PULL", k)

\* That of all keys and devices.
Chained == HostCopies => \A d, e \in Devices, k \in Keys : Chain(d, e, k)

\* The root pushes after every device has copied and reduced.
LEMMA PushAfterCopy ==
    ASSUME TaskTyped, Orders, Lowers, HostCopies, NEW e \in Devices, NEW k \in Keys,
           NEW u, u = UseStage("PUSH", k)
    PROVE  /\ Used(Root, u, k) <= Done(e, "COPYD2H", k)
           /\ CrossPcie => /\ Used(Root, u, k) <= Done(e, "PCIE_REDUCE", k)
                           /\ Done(e, "PCIE_REDUCE", k) <= Done(e, "COPYD2H", k)
<1>1. Root \in Devices /\ "PUSH" \in Tables
  BY Geometry DEF TaskTyped, Tables
<1> DEFINE t == TensorOf(k)
<1>2. u \in {"COMPRESS", "PUSH"} /\ u \in Stages(Root, t)
  BY HasStage DEF UseStage
<1>3. /\ "COPYD2H" \in Stages(e, t)
      /\ CrossPcie => "PCIE_REDUCE" \in Stages(e, t)
      /\ e # Root => "COORDINATE_PUSH" \in Stages(e, t)
  BY HasStage
<1>4. \A f \in Devices : \A o : Done(f, o, k) \in Int /\ Used(f, o, k) \in Int
  BY Numbers
<1>5. \A f \in Devices : \A a, b \in Stages(f, t) : Rank(a) < Rank(b) =>
         Done(f, b, k) <= Done(f, a, k) /\ Used(f, b, k) <= Done(f, a, k)
  BY InOrder
<1>6. /\ Rank("COPYD2H") < Rank("PCIE_REDUCE") /\ Rank("PCIE_REDUCE") < Rank("COORDINATE_PUSH")
      /\ Rank("COPYD2H") < Rank("COORDINATE_PUSH")
      /\ Rank("COPYD2H") < Rank(u) /\ Rank("PCIE_REDUCE") < Rank(u)
  BY <1>2, Ranks
<1>7. CrossPcie => Done(e, "PCIE_REDUCE", k) <= Done(e, "COPYD2H", k)
  BY <1>3, <1>5, <1>6
<1>8. CASE e = Root
  BY <1>1, <1>2, <1>3, <1>5, <1>6, <1>7, <1>8
<1>9. CASE e # Root
  <2>1. e \in Senders(Root, "PUSH")
    BY <1>9 DEF Senders, Active, HasTable
  <2>2. Used(Root, u, k) <= Signalled(e, "PUSH", k)
    BY <1>1, <2>1 DEF Lowers, Lower
  <2>3. /\ Signalled(e, "PUSH", k) <= Done(e, "COORDINATE_PUSH", k)
        /\ Signalled(e, "PUSH", k) \in Int
    BY SignalNumbers DEF SignalStage
  <2>4. /\ Done(e, "COORDINATE_PUSH", k) <= Done(e, "COPYD2H", k)
        /\ CrossPcie => Done(e, "COORDINATE_PUSH", k) <= Done(e, "PCIE_REDUCE", k)
    BY <1>3, <1>5, <1>6, <1>9
  <2>5. /\ Used(Root, u, k) \in Int /\ Done(e, "COORDINATE_PUSH", k) \in Int
        /\ Done(e, "COPYD2H", k) \in Int /\ Done(e, "PCIE_REDUCE", k) \in Int
    BY <1>1, <1>4
  <2> QED BY <1>7, <2>2, <2>3, <2>4, <2>5
<1> QED BY <1>8, <1>9

\* The chain of the rounds holds.
LEMMA ChainHolds ==
    ASSUME TaskTyped, Orders, Lowers, HostCopies, NEW d \in Devices, NEW e \in Devices,
           NEW k \in Keys
    PROVE  Chain(d, e, k)
<1>1. Root \in Devices /\ "COPYH2D" \in Tables
  BY Geometry DEF TaskTyped, Tables
<1>2. PICK t, u : t = TensorOf(k) /\ u = UseStage("PUSH", k)
  OBVIOUS
<1>3. /\ u \in {"COMPRESS", "PUSH"} /\ u \in Stages(Root, t)
      /\ "COPYH2D" \in Stages(Root, t)
      /\ machine.is_distributed => "PULL" \in Stages(Root, t)
      /\ HasCompressor(t) => "DECOMPRESS" \in Stages(Root, t) /\ "PULL" \in Stages(Root, t)
      /\ "COPYD2H" \in Stages(e, t) /\ "COPYH2D" \in Stages(e, t)
  BY <1>2, HasStage DEF UseStage
<1>4. \A f \in Devices : \A o : /\ Done(f, o, k) \in Int /\ Used(f, o, k) \in Int
                                /\ Done(f, o, k) <= Used(f, o, k)
  BY Numbers
<1>5. \A f \in Devices : \A a, b \in Stages(f, t) : Rank(a) < Rank(b) =>
         Done(f, b, k) <= Done(f, a, k) /\ Done(f, a, k) <= Done(f, b, k) + 1
  BY <1>2, InOrder
<1>6. /\ Rank(u) < Rank("PULL") /\ Rank(u) < Rank("COPYH2D")
      /\ Rank("PULL") < Rank("DECOMPRESS") /\ Rank("DECOMPRESS") < Rank("COPYH2D")
      /\ Rank("PULL") < Rank("COPYH2D") /\ Rank("COPYD2H") < Rank("COPYH2D")
  BY <1>3, Ranks
<1>7. Done(d, "COPYH2D", k) <= Done(Root, "COPYH2D", k)
  <2>1. CASE d = Root
    BY <1>1, <1>4, <2>1
  <2>2. CASE d # Root
    <3>1. Root \in Senders(d, "COPYH2D")
      BY <2>2 DEF Senders, Active, HasTable
    <3>2. UseStage("COPYH2D", k) = "COPYH2D"
      BY DEF UseStage
    <3>3. Used(d, "COPYH2D", k) <= Signalled(Root, "COPYH2D", k)
      BY <1>1, <3>1, <3>2 DEF Lowers, Lower
    <3>4. Signalled(Root, "COPYH2D", k) = Done(Root, "COPYH2D", k)
      BY <1>1, SignalNumbers
    <3>5. /\ Done(d, "COPYH2D", k) \in Int /\ Used(d, "COPYH2D", k) \in Int
          /\ Done(Root, "COPYH2D", k) \in Int /\ Done(d, "COPYH2D", k) <= Used(d, "COPYH2D", k)
      BY <1>1, <1>4
    <3> QED BY <3>3, <3>4, <3>5
  <2> QED BY <2>1, <2>2
<1>8. Done(Root, "COPYH2D", k) <= Done(Root, u, k) /\ Done(Root, u, k) <= Used(Root, u, k)
  BY <1>1, <1>3, <1>4, <1>5, <1>6
<1>9. Done(e, "COPYD2H", k) <= Done(e, "COPYH2D", k) + 1
  BY <1>3, <1>5, <1>6
<1>10. machine.is_distributed => /\ Done(Root, "COPYH2D", k) <= Done(Root, "PULL", k)
                                 /\ Done(Root, "PULL", k) <= Done(Root, u, k)
  BY <1>1, <1>3, <1>5, <1>6
<1>11. HasCompressor(t) => /\ Done(Root, "COPYH2D", k) <= Done(Root, "DECOMPRESS", k)
                           /\ Done(Root, "DECOMPRESS", k) <= Done(Root, "PULL", k)
  BY <1>1, <1>3, <1>5, <1>6
<1>12. /\ Used(Root, u, k) <= Done(e, "COPYD2H", k)
       /\ CrossPcie => /\ Used(Root, u, k) <= Done(e, "PCIE_REDUCE", k)
                       /\ Done(e, "PCIE_REDUCE", k) <= Done(e, "COPYD2H", k)
  BY <1>2, PushAfterCopy
<1> QED BY <1>2, <1>7, <1>8, <1>9, <1>10, <1>11, <1>12 DEF Chain

\* In every state that the invariants allow.
LEMMA ChainsHold ==
    IInv /\ SInv => Chained
<1> QED BY ChainHolds DEF Chained, IInv, TasksKept, SInv

-----------------------------------------------------------------------------
(* What the buffers hold, by the rounds that were done.                    *)

\* The rounds of the root between the host's buffers and the servers.
Pushes(k) == Done(Root, UseStage("PUSH", k), k)
Pulls(k) == Done(Root, "PULL", k)
Decompressions(k) == Done(Root, "DECOMPRESS", k)

\* The part of the host's buffers that device d copies to and from.
HostOf(d, k) == cpubuff[SwitchOf(d)][k][SliceOf(d)]

\* The value v of a buffer of switch w after n copies.
CopyIs(w, n, v) == n > 0 => v = Plain({<<w, n>>})

\* The value v of the back buffer after n copies: the copy of the back switch,
\* then the sum over the switches, then the answer of the servers, which the
\* root decompresses.
SumIs(k, n, reduced, pulled, decompressed, v) ==
    n > 0 => v = IF machine.is_distributed /\ pulled = n
                 THEN [sum |-> GlobalSum(n),
                       coded |-> HasCompressor(TensorOf(k)) /\ decompressed < n]
                 ELSE Plain(IF CrossPcie /\ reduced < n THEN {<<Back, n>>} ELSE LocalSum(n))

\* The value v of the n-th push, and of a device's slice after n copies to it.
PushIs(n, v) == n > 0 => v = LocalSum(n)
SliceIs(n, v) == n > 0 => v = Plain(GlobalSum(n))

\* The buffers of key k.
DataOf(k) ==
    /\ HostCopies => \A d \in Devices :
          /\ SwitchOf(d) # Back => CopyIs(SwitchOf(d), Done(d, "COPYD2H", k), HostOf(d, k))
          /\ SwitchOf(d) = Back => SumIs(k, Done(d, "COPYD2H", k), Done(d, "PCIE_REDUCE", k),
                                         Pulls(k), Decompressions(k), HostOf(d, k))
          /\ ~CrossPcie => SliceIs(Done(d, "COPYH2D", k), slice[d][k])
    /\ machine.is_distributed => \A i \in Slices : PushIs(Pushes(k), pushed[k][i])

\* The buffers of all keys, for one or two switches: the reducers add the first
\* switch's buffer to their own, and no other (core_loops.cc:553).
DInv == PcieNum <= 2 => \A k \in Keys : DataOf(k)

\* The same devices, slices and sums after a step.
LEMMA SamePlaces ==
    ASSUME machine' = machine
    PROVE  /\ \A d : SwitchOf(d)' = SwitchOf(d) /\ SliceOf(d)' = SliceOf(d)
           /\ CrossPcie' = CrossPcie /\ HostCopies' = HostCopies
           /\ \A t : HasCompressor(t)' = HasCompressor(t)
           /\ \A n : LocalSum(n)' = LocalSum(n) /\ GlobalSum(n)' = GlobalSum(n)
           /\ \A d, k : HostOf(d, k)' = cpubuff'[SwitchOf(d)][k][SliceOf(d)]
<1>1. \A d : SwitchOf(d)' = SwitchOf(d) /\ SliceOf(d)' = SliceOf(d)
  BY SameMachine DEF SwitchOf, SliceOf
<1>2. /\ CrossPcie' = CrossPcie /\ HostCopies' = HostCopies
      /\ \A t : HasCompressor(t)' = HasCompressor(t)
  BY SameStages
<1>3. \A n : LocalSum(n)' = LocalSum(n) /\ GlobalSum(n)' = GlobalSum(n)
  BY SameMachine DEF LocalSum, GlobalSum
<1>4. \A d, k : HostOf(d, k)' = cpubuff'[SwitchOf(d)][k][SliceOf(d)]
  BY <1>1 DEF HostOf
<1> QED BY <1>1, <1>2, <1>3, <1>4

\* The rounds of the root, named by it.
LEMMA RootRounds ==
    ASSUME machine' = machine, NEW r, r = Root, NEW k, NEW u, u = UseStage("PUSH", k)
    PROVE  /\ Pushes(k) = Done(r, u, k) /\ Pushes(k)' = Done(r, u, k)'
           /\ Pulls(k) = Done(r, "PULL", k) /\ Pulls(k)' = Done(r, "PULL", k)'
           /\ Decompressions(k) = Done(r, "DECOMPRESS", k)
           /\ Decompressions(k)' = Done(r, "DECOMPRESS", k)'
<1>1. r = Root' /\ u = UseStage("PUSH", k)'
  BY SameMachine, SameSenders
<1>2. \A o, q, x, y : x = y /\ o = q => Done(x, o, k) = Done(y, q, k)
  OBVIOUS
<1> QED BY <1>1, <1>2 DEF Pushes, Pulls, Decompressions, Done, Left, Step

\* The buffers of a key after a step.
LEMMA DataAfter ==
    ASSUME machine' = machine, NEW k,
           HostCopies => \A d \in Devices :
              /\ SwitchOf(d) # Back =>
                    CopyIs(SwitchOf(d), Done(d, "COPYD2H", k)', HostOf(d, k)')
              /\ SwitchOf(d) = Back =>
                    SumIs(k, Done(d, "COPYD2H", k)', Done(d, "PCIE_REDUCE", k)',
                          Pulls(k)', Decompressions(k)', HostOf(d, k)')
              /\ ~CrossPcie => SliceIs(Done(d, "COPYH2D", k)', slice'[d][k]),
           machine.is_distributed => \A i \in Slices : PushIs(Pushes(k)', pushed'[k][i])
    PROVE  DataOf(k)'
<1>1. /\ \A d : SwitchOf(d)' = SwitchOf(d)
      /\ CrossPcie' = CrossPcie /\ HostCopies' = HostCopies
      /\ \A t : HasCompressor(t)' = HasCompressor(t)
      /\ \A n : LocalSum(n)' = LocalSum(n) /\ GlobalSum(n)' = GlobalSum(n)
      /\ Back' = Back /\ Devices' = Devices /\ Slices' = Slices
  BY SamePlaces, SameMachine
<1>2. ASSUME NEW w, NEW n, NEW v
      PROVE  CopyIs(w, n, v)' <=> CopyIs(w, n, v)
  BY DEF CopyIs
<1>3. ASSUME NEW n, NEW x, NEW y, NEW z, NEW v
      PROVE  SumIs(k, n, x, y, z, v)' <=> SumIs(k, n, x, y, z, v)
  BY <1>1 DEF SumIs
<1>4. ASSUME NEW n, NEW v
      PROVE  (SliceIs(n, v)' <=> SliceIs(n, v)) /\ (PushIs(n, v)' <=> PushIs(n, v))
  BY <1>1 DEF SliceIs, PushIs
<1>5. HostCopies' => \A d \in Devices' :
         /\ (SwitchOf(d) # Back)' =>
               CopyIs(SwitchOf(d), Done(d, "COPYD2H", k), HostOf(d, k))'
         /\ (SwitchOf(d) = Back)' =>
               SumIs(k, Done(d, "COPYD2H", k), Done(d, "PCIE_REDUCE", k),
                     Pulls(k), Decompressions(k), HostOf(d, k))'
         /\ (~CrossPcie)' => SliceIs(Done(d, "COPYH2D", k), slice[d][k])'
  BY <1>1, <1>2, <1>3, <1>4 DEF CopyIs, SumIs, SliceIs
<1>6. machine.is_distributed' => \A i \in Slices' : PushIs(Pushes(k), pushed[k][i])'
  BY <1>1, <1>4 DEF PushIs
<1> QED BY <1>5, <1>6 DEF DataOf

\* The rounds of key k that the content of its buffers depends on, after a step
\* in which one of them grew by one at most: dev does stage op.
GrowsBy(k, dev, op, j, a) ==
    /\ HostCopies => \A d \in Devices :
          /\ Done(d, "COPYD2H", k)' =
                Done(d, "COPYD2H", k) + IF d = dev /\ op = "COPYD2H" /\ k = j THEN a ELSE 0
          /\ Done(d, "COPYH2D", k)' =
                Done(d, "COPYH2D", k) + IF d = dev /\ op = "COPYH2D" /\ k = j THEN a ELSE 0
          /\ CrossPcie =>
                Done(d, "PCIE_REDUCE", k)' =
                   Done(d, "PCIE_REDUCE", k) + IF d = dev /\ op = "PCIE_REDUCE" /\ k = j THEN a ELSE 0
    /\ machine.is_distributed =>
          /\ Pulls(k)' = Pulls(k) + IF dev = Root /\ op = "PULL" /\ k = j THEN a ELSE 0
          /\ Pushes(k)' =
                Pushes(k) + IF dev = Root /\ op = UseStage("PUSH", k) /\ k = j THEN a ELSE 0
    /\ HasCompressor(TensorOf(k)) =>
          Decompressions(k)' =
             Decompressions(k) + IF dev = Root /\ op = "DECOMPRESS" /\ k = j THEN a ELSE 0

\* These are the rounds that Rounds counts.
LEMMA RoundsCount ==
    ASSUME TaskTyped, Orders, machine' = machine, NEW c \in Devices, NEW op, NEW j \in Keys,
           NEW a \in 0..1, NEW b \in 0..1, Rounds(c, op, j, a, b), NEW k \in Keys
    PROVE  GrowsBy(k, c, op, j, a)
<1>1. PICK r \in Devices : r = Root
  BY Geometry DEF TaskTyped
<1>a. PICK u, t : u = UseStage("PUSH", k) /\ t = TensorOf(k)
  OBVIOUS
<1>2. \A d \in Devices : \A o \in Stages(d, t) :
         Done(d, o, k)' = Done(d, o, k) + IF d = c /\ o = op /\ k = j THEN a ELSE 0
  <2>1. \A d \in Devices : \A o : Done(d, o, k) \in Int
    BY Numbers
  <2> QED BY <1>1, <1>a, <2>1 DEF Rounds
<1>3. /\ HostCopies => \A d \in Devices : "COPYD2H" \in Stages(d, t) /\ "COPYH2D" \in Stages(d, t)
      /\ CrossPcie => \A d \in Devices : "PCIE_REDUCE" \in Stages(d, t)
      /\ machine.is_distributed => "PULL" \in Stages(r, t) /\ u \in Stages(r, t)
      /\ HasCompressor(t) => "DECOMPRESS" \in Stages(r, t)
  BY <1>1, <1>a, HasStage DEF UseStage
<1>4. /\ Pushes(k) = Done(r, u, k) /\ Pushes(k)' = Done(r, u, k)'
      /\ Pulls(k) = Done(r, "PULL", k) /\ Pulls(k)' = Done(r, "PULL", k)'
      /\ Decompressions(k) = Done(r, "DECOMPRESS", k)
      /\ Decompressions(k)' = Done(r, "DECOMPRESS", k)'
  BY <1>1, <1>a, RootRounds
<1>5. HostCopies => \A d \in Devices :
         /\ Done(d, "COPYD2H", k)' =
               Done(d, "COPYD2H", k) + IF d = c /\ op = "COPYD2H" /\ k = j THEN a ELSE 0
         /\ Done(d, "COPYH2D", k)' =
               Done(d, "COPYH2D", k) + IF d = c /\ op = "COPYH2D" /\ k = j THEN a ELSE 0
         /\ CrossPcie =>
               Done(d, "PCIE_REDUCE", k)' =
                  Done(d, "PCIE_REDUCE", k) + IF d = c /\ op = "PCIE_REDUCE" /\ k = j THEN a ELSE 0
  BY <1>2, <1>3
<1>6. machine.is_distributed =>
         /\ Done(r, "PULL", k)' = Done(r, "PULL", k) + IF r = c /\ op = "PULL" /\ k = j THEN a ELSE 0
         /\ Done(r, u, k)' = Done(r, u, k) + IF r = c /\ op = u /\ k = j THEN a ELSE 0
  BY <1>2, <1>3
<1>7. HasCompressor(t) =>
         Done(r, "DECOMPRESS", k)' =
            Done(r, "DECOMPRESS", k) + IF r = c /\ op = "DECOMPRESS" /\ k = j THEN a ELSE 0
  BY <1>2, <1>3
<1> QED BY <1>1, <1>a, <1>4, <1>5, <1>6, <1>7 DEF GrowsBy

\* The buffers of a key for which none of these rounds was done, and which
\* nobody wrote.
LEMMA BuffersStay ==
    ASSUME machine' = machine, TaskTyped, Orders, NEW k \in Keys, DataOf(k), NEW c, NEW op, NEW j,
           NEW a \in 0..1, GrowsBy(k, c, op, j, a),
           k = j => \/ a = 0
                    \/ op \in Coordinates \cup {"REDUCE", "BROADCAST"}
                    \/ op = "PUSH" /\ ~machine.is_distributed,
           \A w \in Switches : cpubuff'[w][k] = cpubuff[w][k],
           pushed'[k] = pushed[k], \A d \in Devices : slice'[d][k] = slice[d][k]
    PROVE  DataOf(k)'
<1>1. /\ \A d \in Devices : HostOf(d, k)' = HostOf(d, k)
      /\ \A t : HasCompressor(t) => machine.is_distributed
      /\ CrossPcie => HostCopies
  <2>1. \A d \in Devices : SwitchOf(d) \in Switches
    BY OfDevice DEF TaskTyped
  <2>2. \A t : HasCompressor(t) => machine.is_distributed
    BY DEF HasCompressor
  <2>3. CrossPcie => HostCopies
    BY DEF HostCopies
  <2> QED BY <2>1, <2>2, <2>3, SamePlaces DEF HostOf
<1>2. \A d \in Devices : \A o : Done(d, o, k) \in Int
  BY Numbers
<1>3. Pulls(k) \in Int /\ Pushes(k) \in Int /\ Decompressions(k) \in Int
  <2>1. Root \in Devices
    BY Geometry DEF TaskTyped
  <2> QED BY <1>2, <2>1 DEF Pulls, Pushes, Decompressions
<1>4. k = j /\ a # 0 => /\ op \notin {"COPYD2H", "COPYH2D", "PCIE_REDUCE", "PULL", "DECOMPRESS"}
                        /\ machine.is_distributed => op # UseStage("PUSH", k)
  BY DEF Coordinates, Coordinated, UseStage, HasCompressor
<1>5. HostCopies => \A d \in Devices :
         /\ Done(d, "COPYD2H", k)' = Done(d, "COPYD2H", k)
         /\ Done(d, "COPYH2D", k)' = Done(d, "COPYH2D", k)
         /\ CrossPcie => Done(d, "PCIE_REDUCE", k)' = Done(d, "PCIE_REDUCE", k)
  BY <1>2, <1>4 DEF GrowsBy
<1>6. /\ machine.is_distributed => Pulls(k)' = Pulls(k) /\ Pushes(k)' = Pushes(k)
      /\ HasCompressor(TensorOf(k)) => Decompressions(k)' = Decompressions(k)
  BY <1>3, <1>4 DEF GrowsBy
<1>7. HostCopies => \A d \in Devices :
         /\ SwitchOf(d) # Back => CopyIs(SwitchOf(d), Done(d, "COPYD2H", k)', HostOf(d, k)')
         /\ SwitchOf(d) = Back =>
               SumIs(k, Done(d, "COPYD2H", k)', Done(d, "PCIE_REDUCE", k)',
                     Pulls(k)', Decompressions(k)', HostOf(d, k)')
         /\ ~CrossPcie => SliceIs(Done(d, "COPYH2D", k)', slice'[d][k])
  <2> SUFFICES ASSUME HostCopies, NEW d \in Devices
               PROVE  /\ SwitchOf(d) # Back =>
                            CopyIs(SwitchOf(d), Done(d, "COPYD2H", k)', HostOf(d, k)')
                      /\ SwitchOf(d) = Back =>
                            SumIs(k, Done(d, "COPYD2H", k)', Done(d, "PCIE_REDUCE", k)',
                                  Pulls(k)', Decompressions(k)', HostOf(d, k)')
                      /\ ~CrossPcie => SliceIs(Done(d, "COPYH2D", k)', slice'[d][k])
    OBVIOUS
  <2>1. SwitchOf(d) # Back => CopyIs(SwitchOf(d), Done(d, "COPYD2H", k)', HostOf(d, k)')
    BY <1>1, <1>5 DEF DataOf
  <2>2. ~CrossPcie => SliceIs(Done(d, "COPYH2D", k)', slice'[d][k])
    BY <1>5 DEF DataOf
  <2>3. SwitchOf(d) = Back =>
           SumIs(k, Done(d, "COPYD2H", k)', Done(d, "PCIE_REDUCE", k)',
                 Pulls(k)', Decompressions(k)', HostOf(d, k)')
    <3> SUFFICES ASSUME SwitchOf(d) = Back
                 PROVE  SumIs(k, Done(d, "COPYD2H", k)', Done(d, "PCIE_REDUCE", k)',
                              Pulls(k)', Decompressions(k)', HostOf(d, k)')
      OBVIOUS
    <3>1. SumIs(k, Done(d, "COPYD2H", k), Done(d, "PCIE_REDUCE", k),
                Pulls(k), Decompressions(k), HostOf(d, k))
      BY DEF DataOf
    <3> QED BY <1>1, <1>5, <1>6, <3>1 DEF SumIs
  <2> QED BY <2>1, <2>2, <2>3
<1>8. machine.is_distributed => \A i \in Slices : PushIs(Pushes(k)', pushed'[k][i])
  BY <1>6 DEF DataOf
<1> QED BY <1>7, <1>8, DataAfter

\* A task that is on its way belongs to a step that was begun.
LEMMA StepBegun ==
    ASSUME IInv, NEW d \in Devices, NEW k \in Keys, NEW op, InStage(d, op, k)
    PROVE  Step(d, k) \in Nat \ {0}
<1>1. /\ TensorOf(k) \in Tensors /\ k \in Range(KeyList[TensorOf(k)])
  BY KeyFacts
<1>2. Progress(d, TensorOf(k)) /\ TaskTyped
  BY <1>1 DEF IInv, TasksKept, Kept
<1>3. k \notin Finished(d, TensorOf(k))
  BY DEF Finished, InStage
<1>4. enqueued[d][TensorOf(k)] = step_cnt[d][TensorOf(k)] + 1
  BY <1>1, <1>2, <1>3 DEF Progress
<1>5. step_cnt[d][TensorOf(k)] \in Nat
  BY <1>1, <1>2 DEF TaskTyped
<1> QED BY <1>4, <1>5 DEF Step

\* While the root compresses or pushes a task, every device has copied and
\* reduced this step of it and copies no other, so that the buffer has the sum
\* of the switches.
LEMMA SumAtPush ==
    ASSUME IInv, SInv, DInv, PcieNum <= 2, Chained, NEW k \in Keys, NEW r, r = Root,
           NEW op \in {"COMPRESS", "PUSH"}, Took(r, op, k), InStage(r, op, k)
    PROVE  /\ HostCopies
           /\ \A i \in Slices : cpubuff[Back][k][i] = Plain(LocalSum(Step(r, k)))
<1>1. r \in Devices /\ TaskTyped /\ Orders /\ machine \in Machines
  BY Geometry DEF IInv, TasksKept, TaskTyped, SInv
<1>2. PICK t, u, n : t = TensorOf(k) /\ u = UseStage("PUSH", k) /\ n = Step(r, k)
  OBVIOUS
<1>3. n \in Nat \ {0}
  BY <1>1, <1>2, StepBegun
<1>4. /\ Used(r, op, k) = n /\ Done(r, op, k) = n - 1 /\ op \in Stages(r, t)
      /\ \A e \in Devices : \A o : /\ Done(e, o, k) \in Int /\ Used(e, o, k) \in Int
                                   /\ Done(e, o, k) <= Used(e, o, k)
      /\ \A o : Used(r, o, k) <= n
  BY <1>1, <1>2, Numbers
<1>5. /\ HostCopies /\ u \in Stages(r, t) /\ u \in {"COMPRESS", "PUSH"}
      /\ "COPYH2D" \in Stages(r, t) /\ (machine.is_distributed => "PULL" \in Stages(r, t))
      /\ op = "COMPRESS" => u = "COMPRESS"
      /\ CrossPcie => HostCopies
  BY <1>1, <1>2, <1>4, HasStage DEF UseStage
<1>6. /\ Rank(op) < Rank("COPYH2D") /\ Rank(op) < Rank("PULL")
      /\ Rank("COMPRESS") < Rank("PUSH")
  BY Ranks
<1>7. Used(r, u, k) = n
  <2>1. CASE u = op
    BY <1>4, <2>1
  <2>2. CASE u # op
    <3>1. u = "COMPRESS" /\ op = "PUSH"
      BY <1>5, <2>2
    <3>2. Done(r, u, k) = Done(r, op, k) + 1
      BY <1>1, <1>2, <1>4, <1>5, <1>6, <3>1, InOrder
    <3> QED BY <1>1, <1>3, <1>4, <3>2
  <2> QED BY <2>1, <2>2
<1>8. /\ Done(r, "COPYH2D", k) = n - 1
      /\ machine.is_distributed => Pulls(k) = n - 1
  BY <1>1, <1>2, <1>4, <1>5, <1>6, InOrder DEF Pulls
<1>9. ASSUME NEW i \in Slices
      PROVE  cpubuff[Back][k][i] = Plain(LocalSum(n))
  <2>1. PICK e \in Devices : SwitchOf(e) = Back /\ SliceOf(e) = i
    BY <1>1, Geometry, PlaceOf
  <2>2. Chain(e, e, k)
    BY <1>5 DEF Chained
  <2>3. /\ Done(e, "COPYD2H", k) = n
        /\ CrossPcie => Done(e, "PCIE_REDUCE", k) = n
    <3>1. /\ Done(e, "COPYH2D", k) <= n - 1 /\ n <= Done(e, "COPYD2H", k)
          /\ Done(e, "COPYD2H", k) <= Done(e, "COPYH2D", k) + 1
          /\ CrossPcie => /\ n <= Done(e, "PCIE_REDUCE", k)
                          /\ Done(e, "PCIE_REDUCE", k) <= Done(e, "COPYD2H", k)
      BY <1>1, <1>2, <1>7, <1>8, <2>2 DEF Chain
    <3> QED BY <1>3, <1>4, <3>1
  <2>4. SumIs(k, n, Done(e, "PCIE_REDUCE", k), Pulls(k), Decompressions(k), HostOf(e, k))
    BY <1>5, <2>1, <2>3 DEF DInv, DataOf
  <2>5. ~(machine.is_distributed /\ Pulls(k) = n) /\ ~(CrossPcie /\ Done(e, "PCIE_REDUCE", k) < n)
    BY <1>3, <1>8, <2>3
  <2>6. HostOf(e, k) = Plain(LocalSum(n))
    BY <1>3, <2>4, <2>5 DEF SumIs
  <2> QED BY <2>1, <2>6 DEF HostOf
<1> QED BY <1>2, <1>5, <1>9

\* A step that writes the buffers of one key keeps those of the others.
LEMMA OneKey ==
    ASSUME machine' = machine, TaskTyped, Orders, DInv, PcieNum <= 2, NEW c \in Devices, NEW op,
           NEW j \in Keys, NEW a \in 0..1, NEW b \in 0..1, Rounds(c, op, j, a, b),
           \A k \in Keys : k # j =>
              /\ \A w \in Switches : cpubuff'[w][k] = cpubuff[w][k]
              /\ pushed'[k] = pushed[k]
              /\ \A d \in Devices : slice'[d][k] = slice[d][k],
           GrowsBy(j, c, op, j, a) => DataOf(j)'
    PROVE  \A k \in Keys : DataOf(k)'
<1> SUFFICES ASSUME NEW k \in Keys PROVE DataOf(k)'
  OBVIOUS
<1>1. GrowsBy(k, c, op, j, a) /\ DataOf(k)
  BY RoundsCount DEF DInv
<1>2. CASE k = j
  BY <1>1, <1>2
<1>3. CASE k # j
  <2>1. /\ \A w \in Switches : cpubuff'[w][k] = cpubuff[w][k]
        /\ pushed'[k] = pushed[k]
        /\ \A d \in Devices : slice'[d][k] = slice[d][k]
    BY <1>3
  <2> QED BY <1>1, <1>3, <2>1, BuffersStay
<1> QED BY <1>2, <1>3

\* A step that writes no buffer.
LEMMA NoBuffer ==
    ASSUME machine' = machine, TaskTyped, Orders, DInv, PcieNum <= 2, NEW c \in Devices, NEW op,
           NEW j \in Keys, NEW a \in 0..1, NEW b \in 0..1, Rounds(c, op, j, a, b),
           \/ a = 0
           \/ op \in Coordinates \cup {"REDUCE", "BROADCAST"}
           \/ op = "PUSH" /\ ~machine.is_distributed,
           UNCHANGED dataVars
    PROVE  \A k \in Keys : DataOf(k)'
<1> SUFFICES ASSUME NEW k \in Keys PROVE DataOf(k)'
  OBVIOUS
<1>1. GrowsBy(k, c, op, j, a) /\ DataOf(k)
  BY RoundsCount DEF DInv
<1>2. /\ \A w \in Switches : cpubuff'[w][k] = cpubuff[w][k]
      /\ pushed'[k] = pushed[k]
      /\ \A d \in Devices : slice'[d][k] = slice[d][k]
  BY DEF dataVars
<1> QED BY <1>1, <1>2, BuffersStay

\* A step in which no task passes a stage.
LEMMA NoMove ==
    ASSUME machine' = machine, TaskTyped, Orders, DInv, PcieNum <= 2, Still, UNCHANGED dataVars
    PROVE  \A k \in Keys : DataOf(k)'
<1> SUFFICES ASSUME NEW k \in Keys PROVE DataOf(k)'
  OBVIOUS
<1>1. PICK c \in Devices : c = Root
  BY Geometry DEF TaskTyped
<1>2. Rounds(c, "REDUCE", k, 0, 0)
  BY RoundsNone DEF Still
<1> QED BY <1>2, NoBuffer

\* The buffers of the host after one part of them is written, or one key of one.
PartSet(b, w, k, i, v) == [b EXCEPT ![w][k][i] = v]
RowSet(b, w, k, v) == [b EXCEPT ![w][k] = v]

\* One part of the host's buffers is written.
LEMMA PartWritten ==
    ASSUME DataTyped, NEW w \in Switches, NEW k \in Keys, NEW i \in Slices, NEW v,
           cpubuff' = PartSet(cpubuff, w, k, i, v)
    PROVE  \A x \in Switches, y \in Keys :
              /\ y # k => cpubuff'[x][y] = cpubuff[x][y]
              /\ \A z \in Slices :
                    cpubuff'[x][y][z] = IF x = w /\ y = k /\ z = i THEN v ELSE cpubuff[x][y][z]
<1>1. cpubuff \in [Switches -> [Keys -> [Slices -> Contents]]]
  BY DEF DataTyped
<1>2. PICK row \in [Keys -> [Slices -> Contents]] : row = cpubuff[w]
  BY <1>1
<1>3. PICK part \in [Slices -> Contents] : part = row[k]
  OBVIOUS
<1>4. cpubuff' = [cpubuff EXCEPT ![w] = [row EXCEPT ![k] = [part EXCEPT ![i] = v]]]
  BY <1>1, <1>2, <1>3 DEF PartSet
<1>5. \A x \in Switches : cpubuff'[x] = IF x = w THEN [row EXCEPT ![k] = [part EXCEPT ![i] = v]]
                                         ELSE cpubuff[x]
  BY <1>1, <1>4
<1>6. \A y \in Keys : [row EXCEPT ![k] = [part EXCEPT ![i] = v]][y] =
                          IF y = k THEN [part EXCEPT ![i] = v] ELSE row[y]
  OBVIOUS
<1>7. \A z \in Slices : [part EXCEPT ![i] = v][z] = IF z = i THEN v ELSE part[z]
  OBVIOUS
<1>8. ASSUME NEW x \in Switches, NEW y \in Keys
      PROVE  /\ y # k => cpubuff'[x][y] = cpubuff[x][y]
             /\ \A z \in Slices :
                   cpubuff'[x][y][z] = IF x = w /\ y = k /\ z = i THEN v ELSE cpubuff[x][y][z]
  <2>1. CASE x = w /\ y = k
    <3>1. cpubuff'[x][y] = [part EXCEPT ![i] = v] /\ cpubuff[x][y] = part
      BY <1>2, <1>3, <1>5, <1>6, <2>1
    <3> QED BY <1>7, <2>1, <3>1
  <2>2. CASE ~(x = w /\ y = k)
    <3>1. cpubuff'[x][y] = cpubuff[x][y]
      BY <1>2, <1>5, <1>6, <2>2
    <3> QED BY <2>2, <3>1
  <2> QED BY <2>1, <2>2
<1> QED BY <1>8

\* One key of one buffer is written.
LEMMA RowWritten ==
    ASSUME DataTyped, NEW w \in Switches, NEW k \in Keys, NEW v,
           cpubuff' = RowSet(cpubuff, w, k, v)
    PROVE  \A x \in Switches, y \in Keys :
              cpubuff'[x][y] = IF x = w /\ y = k THEN v ELSE cpubuff[x][y]
BY DEF DataTyped, RowSet

\* A receiver that uses a signal is not ahead of the sender, after its step.
LEMMA BehindAfter ==
    ASSUME SInv', machine' = machine, NEW d \in Devices, NEW T \in {"PCIE_REDUCE", "COPYH2D"},
           NEW k \in Keys, NEW e \in Senders(d, T)
    PROVE  Used(d, T, k)' <= Done(e, T, k)' - 0
<1>1. PICK u \in {"PCIE_REDUCE", "COPYH2D"} : u = T /\ u = UseStage(T, k) /\ T \in Tables /\ SignalStage(T) = T
  BY DEF UseStage, SignalStage, Tables
<1>2. Devices' = Devices
  BY SameMachine
<1>3. Lower(d, T, k)'
  BY <1>1, <1>2 DEF SInv, Lowers
<1>4. Used(d, u, k)' <= Signalled(e, T, k)'
  BY <1>1, <1>3, SignalsAfter
<1>5. ~Owes(e, SignalStage(T), k)'
  BY <1>1 DEF Owes, Coordinates, Coordinated
<1>6. Signalled(e, T, k)' = Done(e, T, k)' - 0
  BY <1>1, <1>5 DEF Signalled, Bit
<1> QED BY <1>1, <1>4, <1>6

\* What the root has pulled and pushed, in the chain of the rounds.
LEMMA ChainGives ==
    ASSUME TaskTyped, Orders, NEW d \in Devices, NEW e \in Devices, NEW k \in Keys, Chain(d, e, k)
    PROVE  /\ Done(d, "COPYH2D", k) <= Pushes(k) /\ Pushes(k) <= Done(e, "COPYD2H", k)
           /\ CrossPcie => Pushes(k) <= Done(e, "PCIE_REDUCE", k)
           /\ machine.is_distributed => /\ Pulls(k) <= Pushes(k)
                                        /\ Pulls(k) <= Done(e, "COPYD2H", k)
                                        /\ CrossPcie => Pulls(k) <= Done(e, "PCIE_REDUCE", k)
                                        /\ Done(d, "COPYH2D", k) <= Pulls(k)
           /\ HasCompressor(TensorOf(k)) => /\ Decompressions(k) <= Pulls(k)
                                            /\ Done(d, "COPYH2D", k) <= Decompressions(k)
           /\ Done(d, "COPYH2D", k) <= Done(e, "COPYD2H", k)
           /\ Pulls(k) \in Int /\ Pushes(k) \in Int /\ Decompressions(k) \in Int
<1>1. PICK r \in Devices : r = Root
  BY Geometry DEF TaskTyped
<1>a. PICK u : u = UseStage("PUSH", k)
  OBVIOUS
<1>2. \A f \in Devices : \A o : Done(f, o, k) \in Int /\ Used(f, o, k) \in Int
  BY Numbers
<1>3. /\ Pushes(k) = Done(r, u, k) /\ Pulls(k) = Done(r, "PULL", k)
      /\ Decompressions(k) = Done(r, "DECOMPRESS", k)
  BY <1>1, <1>a DEF Pushes, Pulls, Decompressions
<1>4. /\ Done(d, "COPYH2D", k) <= Done(r, "COPYH2D", k)
      /\ Done(r, "COPYH2D", k) <= Done(r, u, k)
      /\ Done(r, u, k) <= Used(r, u, k)
      /\ Used(r, u, k) <= Done(e, "COPYD2H", k)
      /\ CrossPcie => Used(r, u, k) <= Done(e, "PCIE_REDUCE", k)
      /\ machine.is_distributed => /\ Done(r, "COPYH2D", k) <= Done(r, "PULL", k)
                                   /\ Done(r, "PULL", k) <= Done(r, u, k)
      /\ HasCompressor(TensorOf(k)) =>
            /\ Done(r, "COPYH2D", k) <= Done(r, "DECOMPRESS", k)
            /\ Done(r, "DECOMPRESS", k) <= Done(r, "PULL", k)
  BY <1>1, <1>a DEF Chain
<1>5. /\ Done(r, "COPYH2D", k) \in Int /\ Done(r, u, k) \in Int /\ Used(r, u, k) \in Int
      /\ Done(r, "PULL", k) \in Int /\ Done(r, "DECOMPRESS", k) \in Int
      /\ Done(d, "COPYH2D", k) \in Int /\ Done(e, "COPYD2H", k) \in Int
      /\ Done(e, "PCIE_REDUCE", k) \in Int
  BY <1>1, <1>2
<1> QED BY <1>3, <1>4, <1>5

-----------------------------------------------------------------------------
(* The steps that write buffers.                                           *)

\* A device copies its slice to the host.
LEMMA CopyWrites ==
    ASSUME IInv, SInv, DInv, PcieNum <= 2, Chained, machine' = machine, NEW c \in Devices,
           CopyDevice2Host(c)
    PROVE  \A k \in Keys : DataOf(k)'
<1>1. PICK j \in Keys :
         /\ GetTask(c, "COPYD2H", j) /\ FinishOrProceed(c, j, Taken(c, "COPYD2H", j))
         /\ cpubuff' = [cpubuff EXCEPT ![SwitchOf(c)][j][SliceOf(c)] =
                            Plain({<<SwitchOf(c), Step(c, j)>>})]
  BY DEF CopyDevice2Host
<1>2. UNCHANGED <<nccl_tasks, nccl_pipeline, calls>> /\ pushed' = pushed /\ slice' = slice
  BY DEF CopyDevice2Host, ncclVars
<1>3. TaskTyped /\ DataTyped /\ Orders /\ "COPYD2H" \in QueueType /\ 1 \in 0..1
      /\ machine \in Machines
  BY DEF IInv, TasksKept, TaskTyped, SInv, QueueType
<1>4. InStage(c, "COPYD2H", j) /\ Move(c, "COPYD2H", j, 1, 1)
  BY <1>1, <1>2, <1>3, GetsTask, MovesFromQueue
<1>5. Rounds(c, "COPYD2H", j, 1, 1)
  BY <1>4 DEF Move
<1>6. PICK n \in Nat \ {0}, r \in Devices : n = Step(c, j) /\ r = Root
  BY <1>3, <1>4, StepBegun, Geometry
<1>t. PICK t : t = TensorOf(j)
  OBVIOUS
<1>7. HostCopies /\ Done(c, "COPYD2H", j) = n - 1 /\ "COPYD2H" \in Stages(c, t)
  BY <1>3, <1>4, <1>6, <1>t, Numbers, HasStage
<1>8. PICK part : part = Plain({<<SwitchOf(c), n>>})
  OBVIOUS
<1>9. \A w \in Switches, k \in Keys :
         /\ k # j => cpubuff'[w][k] = cpubuff[w][k]
         /\ \A z \in Slices :
               cpubuff'[w][k][z] = IF w = SwitchOf(c) /\ k = j /\ z = SliceOf(c) THEN part
                                   ELSE cpubuff[w][k][z]
  <2>1. PICK w \in Switches, i \in Slices : w = SwitchOf(c) /\ i = SliceOf(c)
    BY <1>3, OfDevice
  <2>2. cpubuff' = PartSet(cpubuff, w, j, i, part)
    BY <1>1, <1>6, <1>8, <2>1 DEF PartSet
  <2>3. \A x \in Switches, y \in Keys :
           /\ y # j => cpubuff'[x][y] = cpubuff[x][y]
           /\ \A z \in Slices :
                 cpubuff'[x][y][z] = IF x = w /\ y = j /\ z = i THEN part ELSE cpubuff[x][y][z]
    BY <1>3, <2>2, PartWritten
  <2> QED BY <2>1, <2>3
<1>10. \A d \in Devices : HostOf(d, j)' = IF d = c THEN part ELSE HostOf(d, j)
  BY <1>3, <1>9, SamePlaces, OfDevice, OneDevice DEF HostOf
<1>11. ASSUME GrowsBy(j, c, "COPYD2H", j, 1)
       PROVE  DataOf(j)'
  <2>1. \A d \in Devices : \A o : Done(d, o, j) \in Int
    BY <1>3, Numbers
  <2>2. Pulls(j) \in Int /\ Pushes(j) \in Int /\ Decompressions(j) \in Int
    BY <1>6, <2>1 DEF Pulls, Pushes, Decompressions
  <2>3. DataOf(j)
    BY DEF DInv
  <2>4. /\ machine.is_distributed => Pulls(j)' = Pulls(j) /\ Pushes(j)' = Pushes(j)
        /\ HasCompressor(t) => Decompressions(j)' = Decompressions(j)
        /\ \A d \in Devices :
              /\ Done(d, "COPYD2H", j)' = IF d = c THEN n ELSE Done(d, "COPYD2H", j)
              /\ Done(d, "COPYH2D", j)' = Done(d, "COPYH2D", j)
              /\ CrossPcie => Done(d, "PCIE_REDUCE", j)' = Done(d, "PCIE_REDUCE", j)
        /\ HasCompressor(t) => machine.is_distributed
    <3>1. UseStage("PUSH", j) # "COPYD2H" /\ (HasCompressor(t) => machine.is_distributed)
      BY DEF UseStage, HasCompressor
    <3> QED BY <1>6, <1>7, <1>11, <1>t, <2>1, <2>2, <3>1 DEF GrowsBy
  <2>5. machine.is_distributed => \A i \in Slices : PushIs(Pushes(j)', pushed'[j][i])
    BY <1>2, <2>3, <2>4 DEF DataOf
  <2>6. ASSUME NEW d \in Devices
        PROVE  /\ SwitchOf(d) # Back =>
                     CopyIs(SwitchOf(d), Done(d, "COPYD2H", j)', HostOf(d, j)')
               /\ SwitchOf(d) = Back =>
                     SumIs(j, Done(d, "COPYD2H", j)', Done(d, "PCIE_REDUCE", j)',
                           Pulls(j)', Decompressions(j)', HostOf(d, j)')
               /\ ~CrossPcie => SliceIs(Done(d, "COPYH2D", j)', slice'[d][j])
    <3>1. ~CrossPcie => SliceIs(Done(d, "COPYH2D", j)', slice'[d][j])
      BY <1>2, <1>7, <2>3, <2>4 DEF DataOf
    <3>2. CASE d # c
      <4>1. HostOf(d, j)' = HostOf(d, j) /\ Done(d, "COPYD2H", j)' = Done(d, "COPYD2H", j)
        BY <1>10, <2>4, <3>2
      <4>2. SwitchOf(d) # Back =>
               CopyIs(SwitchOf(d), Done(d, "COPYD2H", j), HostOf(d, j))
        BY <1>7, <2>3 DEF DataOf
      <4>3. SwitchOf(d) = Back =>
               SumIs(j, Done(d, "COPYD2H", j), Done(d, "PCIE_REDUCE", j),
                     Pulls(j), Decompressions(j), HostOf(d, j))
        BY <1>7, <2>3 DEF DataOf
      <4> QED BY <1>6, <1>t, <2>4, <3>1, <4>1, <4>2, <4>3 DEF SumIs
    <3>3. CASE d = c
      <4>1. HostOf(d, j)' = part /\ Done(d, "COPYD2H", j)' = n
        BY <1>10, <2>4, <3>3
      <4>2. CopyIs(SwitchOf(d), n, part)
        BY <1>8, <3>3 DEF CopyIs
      <4>3. ASSUME SwitchOf(d) = Back
            PROVE  SumIs(j, n, Done(d, "PCIE_REDUCE", j)', Pulls(j)', Decompressions(j)', part)
        <5>1. Chain(c, c, j)
          BY <1>7 DEF Chained
        <5>2. machine.is_distributed => Pulls(j) # n
          <6>1. machine.is_distributed => Pulls(j) <= Done(c, "COPYD2H", j)
            BY <1>3, <5>1, ChainGives
          <6> QED BY <1>6, <1>7, <2>2, <6>1
        <5>3. CrossPcie => Done(c, "PCIE_REDUCE", j) < n
          BY <1>6, <1>7, <2>1, <5>1 DEF Chain
        <5>4. part = Plain({<<Back, n>>})
          BY <1>8, <3>3, <4>3
        <5>5. ~CrossPcie => LocalSum(n) = {<<Back, n>>}
          BY <1>3, TwoSwitches DEF LocalSum
        <5> QED BY <2>4, <3>3, <5>2, <5>3, <5>4, <5>5 DEF SumIs
      <4> QED BY <3>1, <4>1, <4>2, <4>3
    <3> QED BY <3>2, <3>3
  <2> QED BY <2>5, <2>6, DataAfter
<1>12. \A k \in Keys : k # j =>
          /\ \A w \in Switches : cpubuff'[w][k] = cpubuff[w][k]
          /\ pushed'[k] = pushed[k] /\ \A d \in Devices : slice'[d][k] = slice[d][k]
  BY <1>2, <1>9
<1> QED BY <1>3, <1>5, <1>11, <1>12, OneKey

\* What a reducer finds: its own copy of the step, and that of the first switch.
LEMMA FindsCopies ==
    ASSUME IInv, SInv, SInv', DInv, PcieNum <= 2, Chained, machine' = machine, NEW c \in Devices,
           IsReducerRoot(c), CrossPcie, NEW j \in Keys, InStage(c, "PCIE_REDUCE", j),
           Holds(sq, c, "PCIE_REDUCE", j), Rounds(c, "PCIE_REDUCE", j, 1, 1)
    PROVE  /\ cpubuff[Back][j][SliceOf(c)] = Plain({<<Back, Step(c, j)>>})
           /\ cpubuff[0][j][SliceOf(c)] = Plain({<<0, Step(c, j)>>})
           /\ machine.is_distributed => Pulls(j) < Step(c, j)
<1>a. PICK op, n, i : op = "PCIE_REDUCE" /\ n = Step(c, j) /\ i = SliceOf(c)
  OBVIOUS
<1>b. InStage(c, op, j) /\ Holds(sq, c, op, j) /\ Rounds(c, op, j, 1, 1)
  BY <1>a
<1>1. TaskTyped /\ Orders /\ machine \in Machines /\ HostCopies
  BY DEF IInv, TasksKept, TaskTyped, SInv, HostCopies
<1>2. /\ SwitchOf(c) = Back /\ Back = 1 /\ Switches = {0, 1} /\ i \in Slices
  BY <1>1, <1>a, OneDevice, TwoSwitches, OfDevice
<1>3. PICK e \in Devices : SwitchOf(e) = 0 /\ SliceOf(e) = i
  BY <1>1, <1>2, PlaceOf
<1>4. e # c /\ e \in Senders(c, op)
  <2>1. e # c
    BY <1>2, <1>3
  <2>2. ReducerRoot(e) = c
    BY <1>3, <1>a DEF IsReducerRoot, ReducerRoot
  <2> QED BY <1>a, <2>1, <2>2 DEF Senders, Active, HasTable
<1>5. PICK t : t = TensorOf(j)
  OBVIOUS
<1>6. n \in Nat \ {0}
  BY <1>a, <1>b, StepBegun
<1>7. /\ op \in Stages(c, t) /\ op \in Stages(e, t) /\ "COPYD2H" \in Stages(c, t)
      /\ Rank("COPYD2H") < Rank(op)
  BY <1>1, <1>a, HasStage, Ranks
<1>8. /\ Done(c, op, j) = n - 1 /\ Used(c, op, j) = n - 1
      /\ \A f \in Devices : \A o : Done(f, o, j) \in Int
  BY <1>1, <1>a, <1>b, Numbers
<1>9. Done(c, "COPYD2H", j) = n
  BY <1>1, <1>5, <1>6, <1>7, <1>8, <1>b, InOrder
<1>10. n <= Done(e, op, j)
  <2>1. Used(c, op, j)' <= Done(e, op, j)' - 0
    BY <1>4, <1>a, BehindAfter
  <2>2. Used(c, op, j)' = Used(c, op, j) + 1 /\ Done(e, op, j)' = Done(e, op, j)
    BY <1>4, <1>5, <1>7, <1>b DEF Rounds
  <2>3. Used(c, op, j)' = n /\ Done(e, op, j) \in Int
    BY <1>6, <1>8, <2>2
  <2> QED BY <2>1, <2>2, <2>3
<1>11. Chain(e, e, j) /\ Chain(e, c, j)
  BY <1>1 DEF Chained
<1>12. Done(e, "COPYD2H", j) = n
  <2>1. Done(e, op, j) <= Done(e, "COPYD2H", j)
        /\ Done(e, "COPYD2H", j) <= Done(e, "COPYH2D", j) + 1
    BY <1>1, <1>11, <1>a DEF Chain
  <2>2. /\ Done(e, "COPYH2D", j) <= Pushes(j) /\ Pushes(j) <= Done(c, op, j)
        /\ Pushes(j) \in Int
    BY <1>1, <1>11, <1>a, ChainGives
  <2>3. /\ Done(e, "COPYH2D", j) \in Int /\ Done(e, op, j) \in Int
        /\ Done(e, "COPYD2H", j) \in Int
    BY <1>8
  <2> QED BY <1>6, <1>8, <1>10, <2>1, <2>2, <2>3
<1>13. machine.is_distributed => Pulls(j) < n
  BY <1>1, <1>6, <1>8, <1>11, <1>a, ChainGives
<1>14. HostOf(e, j) = Plain({<<0, n>>})
  <2>1. CopyIs(SwitchOf(e), Done(e, "COPYD2H", j), HostOf(e, j))
    BY <1>1, <1>2, <1>3 DEF DInv, DataOf
  <2> QED BY <1>3, <1>6, <1>12, <2>1 DEF CopyIs
<1>15. HostOf(c, j) = Plain({<<Back, n>>})
  <2>1. SumIs(j, n, Done(c, "PCIE_REDUCE", j), Pulls(j), Decompressions(j), HostOf(c, j))
    BY <1>1, <1>2, <1>9 DEF DInv, DataOf
  <2>2. Done(c, "PCIE_REDUCE", j) < n
    BY <1>6, <1>8, <1>a
  <2>3. ~(machine.is_distributed /\ Pulls(j) = n)
    BY <1>6, <1>13
  <2> QED BY <1>6, <2>1, <2>2, <2>3 DEF SumIs
<1> QED BY <1>2, <1>3, <1>13, <1>14, <1>15, <1>a DEF HostOf

\* The sum over the two switches of what they find.
LEMMA BothSwitches ==
    ASSUME machine \in Machines, PcieNum <= 2, CrossPcie, NEW n
    PROVE  [Plain({<<Back, n>>}) EXCEPT !.sum = @ \cup Plain({<<0, n>>}).sum] = Plain(LocalSum(n))
<1>1. Switches = {0, 1} /\ Back = 1
  BY TwoSwitches
<1>2. LocalSum(n) = {<<1, n>>} \cup {<<0, n>>}
  BY <1>1 DEF LocalSum
<1>3. ASSUME NEW a, NEW b
      PROVE  [Plain(a) EXCEPT !.sum = @ \cup Plain(b).sum] = Plain(a \cup b)
  <2>1. PICK c : c = a \cup b
    OBVIOUS
  <2>2. Plain(a).sum \cup Plain(b).sum = c
    BY <2>1 DEF Plain
  <2>3. [Plain(a) EXCEPT !.sum = c] = Plain(c)
    <3>1. ASSUME NEW f
          PROVE  [[sum |-> a, coded |-> f] EXCEPT !.sum = c] = [sum |-> c, coded |-> f]
      OBVIOUS
    <3> QED BY <3>1 DEF Plain
  <2> QED BY <2>1, <2>2, <2>3
<1> QED BY <1>1, <1>2, <1>3

\* The reducer of a slice adds the first switch's part to its own.
LEMMA ReduceWrites ==
    ASSUME IInv, SInv, SInv', DInv, PcieNum <= 2, Chained, machine' = machine, NEW c \in Devices,
           PcieReduce(c)
    PROVE  \A k \in Keys : DataOf(k)'
<1>1. PICK op : op = "PCIE_REDUCE"
  OBVIOUS
<1>2. PICK j \in Keys :
         /\ GetTask(c, op, j) /\ FinishOrProceed(c, j, Taken(c, op, j))
         /\ IF IsReducerRoot(c)
            THEN cpubuff' = [cpubuff EXCEPT ![Back][j][SliceOf(c)].sum =
                                @ \cup cpubuff[0][j][SliceOf(c)].sum]
            ELSE cpubuff' = cpubuff
  BY <1>1 DEF PcieReduce
<1>3. UNCHANGED <<nccl_tasks, nccl_pipeline, calls>> /\ pushed' = pushed /\ slice' = slice
  BY DEF PcieReduce, ncclVars
<1>4. TaskTyped /\ DataTyped /\ Orders /\ op \in QueueType /\ 1 \in 0..1 /\ machine \in Machines
  BY <1>1 DEF IInv, TasksKept, TaskTyped, SInv, QueueType
<1>5. InStage(c, op, j) /\ Holds(sq, c, op, j) /\ Move(c, op, j, 1, 1)
  BY <1>2, <1>3, <1>4, GetsTask, MovesFromQueue
<1>6. Rounds(c, op, j, 1, 1) /\ op \in Stages(c, TensorOf(j))
  BY <1>5 DEF Move
<1>7. PICK n \in Nat \ {0}, r \in Devices, i \in Slices :
         n = Step(c, j) /\ r = Root /\ i = SliceOf(c)
  <2>1. Step(c, j) \in Nat \ {0}
    BY <1>5, StepBegun
  <2>2. Root \in Devices /\ SliceOf(c) \in Slices
    BY <1>4, Geometry, OfDevice
  <2> QED BY <2>1, <2>2
<1>t. PICK t : t = TensorOf(j)
  OBVIOUS
<1>8. CrossPcie /\ HostCopies /\ Done(c, op, j) = n - 1
  BY <1>1, <1>4, <1>5, <1>6, <1>7, Numbers, HasStage
<1>9. PICK part : part = Plain(LocalSum(n))
  OBVIOUS
<1>10. IsReducerRoot(c) =>
          /\ cpubuff' = PartSet(cpubuff, Back, j, i, part)
          /\ machine.is_distributed => Pulls(j) < n
  <2> SUFFICES ASSUME IsReducerRoot(c)
               PROVE  /\ cpubuff' = PartSet(cpubuff, Back, j, i, part)
                      /\ machine.is_distributed => Pulls(j) < n
    OBVIOUS
  <2>1. /\ cpubuff[Back][j][i] = Plain({<<Back, n>>}) /\ cpubuff[0][j][i] = Plain({<<0, n>>})
        /\ machine.is_distributed => Pulls(j) < n
    <3>1. InStage(c, "PCIE_REDUCE", j) /\ Holds(sq, c, "PCIE_REDUCE", j)
          /\ Rounds(c, "PCIE_REDUCE", j, 1, 1)
      BY <1>1, <1>5, <1>6
    <3>2. /\ cpubuff[Back][j][SliceOf(c)] = Plain({<<Back, Step(c, j)>>})
          /\ cpubuff[0][j][SliceOf(c)] = Plain({<<0, Step(c, j)>>})
          /\ machine.is_distributed => Pulls(j) < Step(c, j)
      BY <1>8, <3>1, FindsCopies
    <3> QED BY <1>7, <3>2
  <2>2. cpubuff' = PartSet(cpubuff, Back, j, i,
                       [cpubuff[Back][j][i] EXCEPT !.sum = @ \cup cpubuff[0][j][i].sum])
    BY <1>2, <1>7 DEF PartSet
  <2>3. [cpubuff[Back][j][i] EXCEPT !.sum = @ \cup cpubuff[0][j][i].sum] = part
    BY <1>4, <1>8, <1>9, <2>1, BothSwitches
  <2> QED BY <2>1, <2>2, <2>3
<1>11. \A w \in Switches, k \in Keys :
          /\ k # j => cpubuff'[w][k] = cpubuff[w][k]
          /\ \A z \in Slices :
                cpubuff'[w][k][z] = IF IsReducerRoot(c) /\ w = Back /\ k = j /\ z = i THEN part
                                    ELSE cpubuff[w][k][z]
  <2>1. CASE IsReducerRoot(c)
    <3>1. PICK w \in Switches : w = Back
      BY <1>4, Geometry
    <3>2. cpubuff' = PartSet(cpubuff, w, j, i, part)
      BY <1>10, <2>1, <3>1
    <3>3. \A x \in Switches, y \in Keys :
             /\ y # j => cpubuff'[x][y] = cpubuff[x][y]
             /\ \A z \in Slices :
                   cpubuff'[x][y][z] = IF x = w /\ y = j /\ z = i THEN part ELSE cpubuff[x][y][z]
      BY <1>4, <3>2, PartWritten
    <3> QED BY <2>1, <3>1, <3>3
  <2>2. CASE ~IsReducerRoot(c)
    BY <1>2, <2>2
  <2> QED BY <2>1, <2>2
<1>12. \A d \in Devices : HostOf(d, j)' = IF d = c /\ IsReducerRoot(c) THEN part ELSE HostOf(d, j)
  BY <1>4, <1>7, <1>11, SamePlaces, OfDevice, OneDevice DEF HostOf
<1>13. ASSUME GrowsBy(j, c, op, j, 1)
       PROVE  DataOf(j)'
  <2>1. \A d \in Devices : \A o : Done(d, o, j) \in Int
    BY <1>4, Numbers
  <2>2. Pulls(j) \in Int /\ Pushes(j) \in Int /\ Decompressions(j) \in Int
    BY <1>7, <2>1 DEF Pulls, Pushes, Decompressions
  <2>3. DataOf(j)
    BY DEF DInv
  <2>4. /\ machine.is_distributed => Pulls(j)' = Pulls(j) /\ Pushes(j)' = Pushes(j)
        /\ HasCompressor(t) => Decompressions(j)' = Decompressions(j)
        /\ \A d \in Devices :
              /\ Done(d, "COPYD2H", j)' = Done(d, "COPYD2H", j)
              /\ Done(d, "COPYH2D", j)' = Done(d, "COPYH2D", j)
              /\ Done(d, "PCIE_REDUCE", j)' = IF d = c THEN n ELSE Done(d, "PCIE_REDUCE", j)
        /\ HasCompressor(t) => machine.is_distributed
    <3>1. UseStage("PUSH", j) # op /\ (HasCompressor(t) => machine.is_distributed)
      BY <1>1 DEF UseStage, HasCompressor
    <3> QED BY <1>1, <1>7, <1>8, <1>13, <1>t, <2>1, <2>2, <3>1 DEF GrowsBy
  <2>5. machine.is_distributed => \A z \in Slices : PushIs(Pushes(j)', pushed'[j][z])
    BY <1>3, <2>3, <2>4 DEF DataOf
  <2>6. ASSUME NEW d \in Devices
        PROVE  /\ SwitchOf(d) # Back =>
                     CopyIs(SwitchOf(d), Done(d, "COPYD2H", j)', HostOf(d, j)')
               /\ SwitchOf(d) = Back =>
                     SumIs(j, Done(d, "COPYD2H", j)', Done(d, "PCIE_REDUCE", j)',
                           Pulls(j)', Decompressions(j)', HostOf(d, j)')
               /\ ~CrossPcie => SliceIs(Done(d, "COPYH2D", j)', slice'[d][j])
    <3>1. IsReducerRoot(d) <=> SwitchOf(d) = Back
      BY <1>4, OneDevice
    <3>2. SwitchOf(d) # Back => CopyIs(SwitchOf(d), Done(d, "COPYD2H", j)', HostOf(d, j)')
      <4>1. SwitchOf(d) # Back => HostOf(d, j)' = HostOf(d, j)
        BY <1>12, <3>1
      <4> QED BY <1>8, <2>3, <2>4, <4>1 DEF DataOf
    <3>3. ASSUME SwitchOf(d) = Back, d # c
          PROVE  SumIs(j, Done(d, "COPYD2H", j)', Done(d, "PCIE_REDUCE", j)',
                       Pulls(j)', Decompressions(j)', HostOf(d, j)')
      <4>1. HostOf(d, j)' = HostOf(d, j) /\ Done(d, "PCIE_REDUCE", j)' = Done(d, "PCIE_REDUCE", j)
        BY <1>12, <2>4, <3>3
      <4>2. SumIs(j, Done(d, "COPYD2H", j), Done(d, "PCIE_REDUCE", j),
                  Pulls(j), Decompressions(j), HostOf(d, j))
        BY <1>8, <2>3, <3>3 DEF DataOf
      <4> QED BY <1>7, <1>t, <2>4, <4>1, <4>2 DEF SumIs
    <3>4. ASSUME SwitchOf(d) = Back, d = c
          PROVE  SumIs(j, Done(d, "COPYD2H", j)', Done(d, "PCIE_REDUCE", j)',
                       Pulls(j)', Decompressions(j)', HostOf(d, j)')
      <4>1. HostOf(d, j)' = part /\ Done(d, "PCIE_REDUCE", j)' = n
            /\ (machine.is_distributed => Pulls(j) < n)
        BY <1>10, <1>12, <2>4, <3>1, <3>4
      <4>2. Done(d, "COPYD2H", j)' = n
        <5>1. "COPYD2H" \in Stages(c, t) /\ Rank("COPYD2H") < Rank("PCIE_REDUCE")
          BY <1>8, HasStage, Ranks
        <5>2. Done(c, "COPYD2H", j) = Done(c, op, j) + 1
          BY <1>1, <1>4, <1>5, <1>6, <1>7, <1>t, <5>1, InOrder
        <5> QED BY <1>7, <1>8, <2>4, <3>4, <5>2
      <4>3. machine.is_distributed => Pulls(j)' # n
        BY <2>2, <2>4, <4>1
      <4> QED BY <1>9, <4>1, <4>2, <4>3 DEF SumIs
    <3> QED BY <1>8, <3>2, <3>3, <3>4
  <2> QED BY <2>5, <2>6, DataAfter
<1>14. \A k \in Keys : k # j =>
          /\ \A w \in Switches : cpubuff'[w][k] = cpubuff[w][k]
          /\ pushed'[k] = pushed[k] /\ \A d \in Devices : slice'[d][k] = slice[d][k]
  BY <1>3, <1>11
<1> QED BY <1>4, <1>6, <1>13, <1>14, OneKey

\* What a device of a machine with one switch finds in the host's buffer.
LEMMA FindsSum ==
    ASSUME IInv, SInv, SInv', DInv, PcieNum <= 2, Chained, machine' = machine, NEW c \in Devices,
           ~CrossPcie, NEW j \in Keys, InStage(c, "COPYH2D", j),
           Holds(sq, c, "COPYH2D", j), Rounds(c, "COPYH2D", j, 1, 1)
    PROVE  cpubuff[Back][j][SliceOf(c)] = Plain(GlobalSum(Step(c, j)))
<1>1. PICK r \in Devices, n \in Nat \ {0} : r = Root /\ n = Step(c, j)
  <2>1. Step(c, j) \in Nat \ {0} /\ Root \in Devices
    BY StepBegun, Geometry DEF IInv, TasksKept, TaskTyped
  <2> QED BY <2>1, Zenon
<1>2. PICK op, t : op = "COPYH2D" /\ t = TensorOf(j)
  OBVIOUS
<1>3. InStage(c, op, j) /\ Holds(sq, c, op, j) /\ Rounds(c, op, j, 1, 1)
  BY <1>2
<1>4. TaskTyped /\ Orders /\ machine \in Machines
  BY DEF IInv, TasksKept, TaskTyped, SInv
<1>5. SwitchOf(c) = Back
  BY <1>4, TwoSwitches, OfDevice
<1>6. /\ Done(c, op, j) = n - 1 /\ Used(c, op, j) = n - 1 /\ op \in Stages(c, t)
      /\ \A f \in Devices : \A o : Done(f, o, j) \in Int
  BY <1>1, <1>2, <1>3, <1>4, Numbers
<1>7. /\ HostCopies /\ "COPYD2H" \in Stages(c, t) /\ op \in Stages(r, t)
      /\ machine.is_distributed => "PULL" \in Stages(r, t)
      /\ HasCompressor(t) => "DECOMPRESS" \in Stages(r, t) /\ machine.is_distributed
      /\ Rank("COPYD2H") < Rank(op) /\ Rank("PULL") < Rank(op) /\ Rank("DECOMPRESS") < Rank(op)
  BY <1>1, <1>2, <1>6, HasStage, Ranks
<1>8. Done(c, "COPYD2H", j) = n
  BY <1>1, <1>2, <1>3, <1>4, <1>6, <1>7, InOrder
<1>9. Chain(c, c, j) /\ Chain(r, c, j)
  BY <1>7 DEF Chained
<1>10. /\ machine.is_distributed => Pulls(j) <= n
       /\ HasCompressor(t) => Decompressions(j) <= Pulls(j)
       /\ Pulls(j) \in Int /\ Decompressions(j) \in Int
  BY <1>2, <1>4, <1>8, <1>9, ChainGives
<1>11. /\ machine.is_distributed => n <= Pulls(j)
       /\ HasCompressor(t) => n <= Decompressions(j)
  <2>1. CASE c = r
    <3>1. /\ machine.is_distributed => Done(r, "PULL", j) = Done(r, op, j) + 1
          /\ HasCompressor(t) => Done(r, "DECOMPRESS", j) = Done(r, op, j) + 1
      BY <1>2, <1>3, <1>4, <1>7, <2>1, InOrder
    <3> QED BY <1>1, <1>6, <2>1, <3>1 DEF Pulls, Decompressions
  <2>2. CASE c # r
    <3>1. r \in Senders(c, op)
      BY <1>1, <1>2, <1>7, <2>2 DEF Senders, Active, HasTable
    <3>2. Used(c, op, j)' <= Done(r, op, j)' - 0
      BY <1>2, <3>1, BehindAfter
    <3>3. Used(c, op, j)' = Used(c, op, j) + 1 /\ Done(r, op, j)' = Done(r, op, j)
      BY <1>2, <1>3, <1>6, <1>7, <2>2 DEF Rounds
    <3>4. Used(c, op, j)' = n /\ Done(r, op, j) \in Int
      BY <1>1, <1>6, <3>3
    <3>5. n <= Done(r, op, j)
      BY <3>2, <3>3, <3>4
    <3>6. /\ machine.is_distributed => Done(r, op, j) <= Pulls(j)
          /\ HasCompressor(t) => Done(r, op, j) <= Decompressions(j)
      BY <1>2, <1>4, <1>9, ChainGives
    <3> QED BY <1>1, <1>10, <3>4, <3>5, <3>6
  <2> QED BY <2>1, <2>2
<1>12. /\ machine.is_distributed => Pulls(j) = n
       /\ ~(HasCompressor(t) /\ Decompressions(j) < n)
  BY <1>1, <1>10, <1>11
<1>13. SumIs(j, n, Done(c, "PCIE_REDUCE", j), Pulls(j), Decompressions(j), HostOf(c, j))
  BY <1>5, <1>7, <1>8 DEF DInv, DataOf
<1>14. ~machine.is_distributed => GlobalSum(n) = LocalSum(n)
  BY DEF GlobalSum
<1>15. HostOf(c, j) = Plain(GlobalSum(n))
  <2>1. CASE machine.is_distributed
    <3>1. HostOf(c, j) = [sum |-> GlobalSum(n),
                          coded |-> HasCompressor(TensorOf(j)) /\ Decompressions(j) < n]
      BY <1>1, <1>12, <1>13, <2>1 DEF SumIs
    <3>2. (HasCompressor(TensorOf(j)) /\ Decompressions(j) < n) = FALSE
      BY <1>2, <1>12
    <3> QED BY <3>1, <3>2 DEF Plain
  <2>2. CASE ~machine.is_distributed
    BY <1>1, <1>13, <1>14, <2>2 DEF SumIs
  <2> QED BY <2>1, <2>2
<1> QED BY <1>1, <1>5, <1>15 DEF HostOf

\* A device copies its part of the host's buffer.
LEMMA SliceWrites ==
    ASSUME IInv, SInv, SInv', DInv, PcieNum <= 2, Chained, machine' = machine, NEW c \in Devices,
           CopyHost2Device(c)
    PROVE  \A k \in Keys : DataOf(k)'
<1>1. PICK op : op = "COPYH2D"
  OBVIOUS
<1>2. PICK j \in Keys :
         /\ GetTask(c, op, j) /\ FinishOrProceed(c, j, Taken(c, op, j))
         /\ slice' = [slice EXCEPT ![c][j] = cpubuff[Back][j][SliceOf(c)]]
  BY <1>1 DEF CopyHost2Device
<1>3. UNCHANGED <<nccl_tasks, nccl_pipeline, calls>> /\ pushed' = pushed /\ cpubuff' = cpubuff
  BY DEF CopyHost2Device, ncclVars
<1>4. TaskTyped /\ DataTyped /\ Orders /\ op \in QueueType /\ 1 \in 0..1 /\ machine \in Machines
  BY <1>1 DEF IInv, TasksKept, TaskTyped, SInv, QueueType
<1>5. InStage(c, op, j) /\ Holds(sq, c, op, j) /\ Move(c, op, j, 1, 1)
  BY <1>2, <1>3, <1>4, GetsTask, MovesFromQueue
<1>6. Rounds(c, op, j, 1, 1)
  BY <1>5 DEF Move
<1>7. PICK n : n = Step(c, j)
  OBVIOUS
<1>8. /\ Done(c, op, j) = n - 1 /\ n \in Nat
      /\ \A d \in Devices : \A o : Done(d, o, j) \in Int
  BY <1>4, <1>5, <1>7, Numbers
<1>9. ~CrossPcie => cpubuff[Back][j][SliceOf(c)] = Plain(GlobalSum(n))
  <2>1. /\ InStage(c, "COPYH2D", j) /\ Holds(sq, c, "COPYH2D", j)
        /\ Rounds(c, "COPYH2D", j, 1, 1)
    BY <1>1, <1>5, <1>6
  <2> QED BY <1>7, <2>1, FindsSum
<1>10. \A d \in Devices, k \in Keys :
          slice'[d][k] = IF d = c /\ k = j THEN cpubuff[Back][j][SliceOf(c)] ELSE slice[d][k]
  BY <1>2, <1>4 DEF DataTyped
<1>11. \A d \in Devices : HostOf(d, j)' = HostOf(d, j)
  BY <1>3, SamePlaces DEF HostOf
<1>12. ASSUME GrowsBy(j, c, op, j, 1)
       PROVE  DataOf(j)'
  <2>1. PICK t : t = TensorOf(j)
    OBVIOUS
  <2>2. Pulls(j) \in Int /\ Pushes(j) \in Int /\ Decompressions(j) \in Int
    <3>1. Root \in Devices
      BY <1>4, Geometry
    <3> QED BY <1>8, <3>1 DEF Pulls, Pushes, Decompressions
  <2>3. DataOf(j)
    BY DEF DInv
  <2>4. HostCopies => \A d \in Devices :
           /\ Done(d, "COPYD2H", j)' = Done(d, "COPYD2H", j)
           /\ CrossPcie => Done(d, "PCIE_REDUCE", j)' = Done(d, "PCIE_REDUCE", j)
           /\ Done(d, "COPYH2D", j)' = IF d = c THEN n ELSE Done(d, "COPYH2D", j)
    BY <1>1, <1>8, <1>12 DEF GrowsBy
  <2>5. /\ machine.is_distributed => Pulls(j)' = Pulls(j) /\ Pushes(j)' = Pushes(j)
        /\ HasCompressor(t) => Decompressions(j)' = Decompressions(j)
        /\ HasCompressor(t) => machine.is_distributed
    <3>1. UseStage("PUSH", j) # op /\ (HasCompressor(t) => machine.is_distributed)
      BY <1>1 DEF UseStage, HasCompressor
    <3> QED BY <1>1, <1>12, <2>1, <2>2, <3>1 DEF GrowsBy
  <2>6. machine.is_distributed => \A i \in Slices : PushIs(Pushes(j)', pushed'[j][i])
    BY <1>3, <2>3, <2>5 DEF DataOf
  <2>7. ASSUME HostCopies, NEW d \in Devices
        PROVE  /\ SwitchOf(d) # Back =>
                     CopyIs(SwitchOf(d), Done(d, "COPYD2H", j)', HostOf(d, j)')
               /\ SwitchOf(d) = Back =>
                     SumIs(j, Done(d, "COPYD2H", j)', Done(d, "PCIE_REDUCE", j)',
                           Pulls(j)', Decompressions(j)', HostOf(d, j)')
               /\ ~CrossPcie => SliceIs(Done(d, "COPYH2D", j)', slice'[d][j])
    <3>1. SwitchOf(d) # Back => CopyIs(SwitchOf(d), Done(d, "COPYD2H", j)', HostOf(d, j)')
      BY <1>11, <2>3, <2>4, <2>7 DEF DataOf
    <3>2. SwitchOf(d) = Back =>
             SumIs(j, Done(d, "COPYD2H", j)', Done(d, "PCIE_REDUCE", j)',
                   Pulls(j)', Decompressions(j)', HostOf(d, j)')
      <4>1. SwitchOf(d) = Back =>
               SumIs(j, Done(d, "COPYD2H", j), Done(d, "PCIE_REDUCE", j),
                     Pulls(j), Decompressions(j), HostOf(d, j))
        BY <2>3, <2>7 DEF DataOf
      <4>2. /\ Done(d, "COPYD2H", j)' = Done(d, "COPYD2H", j) /\ HostOf(d, j)' = HostOf(d, j)
            /\ CrossPcie => Done(d, "PCIE_REDUCE", j)' = Done(d, "PCIE_REDUCE", j)
        BY <1>11, <2>4, <2>7
      <4> QED BY <2>1, <2>5, <4>1, <4>2 DEF SumIs
    <3>3. ~CrossPcie => SliceIs(Done(d, "COPYH2D", j)', slice'[d][j])
      <4>1. ~CrossPcie => SliceIs(Done(d, "COPYH2D", j), slice[d][j])
        BY <2>3, <2>7 DEF DataOf
      <4> QED BY <1>9, <1>10, <2>4, <2>7, <4>1 DEF SliceIs
    <3> QED BY <3>1, <3>2, <3>3
  <2> QED BY <2>6, <2>7, DataAfter
<1>13. \A k \in Keys : k # j =>
          /\ \A w \in Switches : cpubuff'[w][k] = cpubuff[w][k]
          /\ pushed'[k] = pushed[k] /\ \A d \in Devices : slice'[d][k] = slice[d][k]
  BY <1>3, <1>10
<1> QED BY <1>4, <1>6, <1>12, <1>13, OneKey

\* The root compresses or pushes the sum of the switches.
LEMMA PushWrites ==
    ASSUME IInv, SInv, DInv, PcieNum <= 2, Chained, machine' = machine,
           NEW op \in {"COMPRESS", "PUSH"}, NEW j \in Keys, Return(op, j), UNCHANGED ncclVars,
           cpubuff' = cpubuff, slice' = slice,
           pushed' = IF op = UseStage("PUSH", j) THEN [pushed EXCEPT ![j] = HostSum(j)] ELSE pushed
    PROVE  \A k \in Keys : DataOf(k)'
<1>1. PICK r \in Devices : r = Root
  BY Geometry DEF IInv, TasksKept, TaskTyped
<1>2. PICK u, t, n : u = UseStage("PUSH", j) /\ t = TensorOf(j) /\ n = Step(r, j)
  OBVIOUS
<1>3. TaskTyped /\ DataTyped /\ Orders /\ op \in Calls /\ 0 \in 0..1 /\ 1 \in 0..1
  BY DEF IInv, TasksKept, SInv, Calls
<1>4. InStage(r, op, j) /\ Move(r, op, j, 1, 0) /\ Took(r, op, j)
  BY <1>1, <1>3, MovesFromCall
<1>5. Rounds(r, op, j, 1, 0)
  BY <1>4 DEF Move
<1>6. /\ Done(r, op, j) = n - 1 /\ n \in Nat
      /\ \A d \in Devices : \A o : Done(d, o, j) \in Int
  BY <1>2, <1>3, <1>4, Numbers
<1>7. \A i \in Slices : cpubuff[Back][j][i] = Plain(LocalSum(n))
  BY <1>1, <1>2, <1>4, SumAtPush
<1>8. \A k \in Keys : k # j => pushed'[k] = pushed[k]
  BY <1>3 DEF DataTyped
<1>9. op = u => \A i \in Slices : pushed'[j][i] = LocalSum(n)
  <2>1. op = u => pushed'[j] = HostSum(j)
    BY <1>2, <1>3 DEF DataTyped
  <2> QED BY <1>7, <2>1 DEF HostSum, Plain
<1>10. ASSUME GrowsBy(j, r, op, j, 1)
       PROVE  DataOf(j)'
  <2>1. Pulls(j) \in Int /\ Pushes(j) \in Int /\ Decompressions(j) \in Int
    BY <1>1, <1>6 DEF Pulls, Pushes, Decompressions
  <2>2. DataOf(j)
    BY DEF DInv
  <2>3. HostCopies => \A d \in Devices :
           /\ Done(d, "COPYD2H", j)' = Done(d, "COPYD2H", j)
           /\ Done(d, "COPYH2D", j)' = Done(d, "COPYH2D", j)
           /\ CrossPcie => Done(d, "PCIE_REDUCE", j)' = Done(d, "PCIE_REDUCE", j)
    BY <1>6, <1>10 DEF GrowsBy
  <2>4. /\ machine.is_distributed =>
              /\ Pulls(j)' = Pulls(j)
              /\ Pushes(j)' = IF op = u THEN n ELSE Pushes(j)
        /\ HasCompressor(t) => Decompressions(j)' = Decompressions(j)
        /\ HasCompressor(t) => machine.is_distributed
    <3>1. (HasCompressor(t) => machine.is_distributed) /\ (op = u => Pushes(j) = n - 1)
      BY <1>1, <1>2, <1>6 DEF HasCompressor, Pushes
    <3> QED BY <1>1, <1>2, <1>6, <1>10, <2>1, <3>1 DEF GrowsBy
  <2>5. \A d \in Devices : HostOf(d, j)' = HostOf(d, j)
    BY SamePlaces DEF HostOf
  <2>6. machine.is_distributed => \A i \in Slices : PushIs(Pushes(j)', pushed'[j][i])
    <3>1. CASE op = u
      BY <1>9, <2>4, <3>1 DEF PushIs
    <3>2. CASE op # u
      <4>1. pushed' = pushed
        BY <1>2, <3>2
      <4> QED BY <2>2, <2>4, <3>2, <4>1 DEF DataOf
    <3> QED BY <3>1, <3>2
  <2>7. ASSUME HostCopies, NEW d \in Devices
        PROVE  /\ SwitchOf(d) # Back =>
                     CopyIs(SwitchOf(d), Done(d, "COPYD2H", j)', HostOf(d, j)')
               /\ SwitchOf(d) = Back =>
                     SumIs(j, Done(d, "COPYD2H", j)', Done(d, "PCIE_REDUCE", j)',
                           Pulls(j)', Decompressions(j)', HostOf(d, j)')
               /\ ~CrossPcie => SliceIs(Done(d, "COPYH2D", j)', slice'[d][j])
    <3>1. SwitchOf(d) # Back => CopyIs(SwitchOf(d), Done(d, "COPYD2H", j)', HostOf(d, j)')
      BY <2>2, <2>3, <2>5, <2>7 DEF DataOf
    <3>2. SwitchOf(d) = Back =>
             SumIs(j, Done(d, "COPYD2H", j)', Done(d, "PCIE_REDUCE", j)',
                   Pulls(j)', Decompressions(j)', HostOf(d, j)')
      <4>1. SwitchOf(d) = Back =>
               SumIs(j, Done(d, "COPYD2H", j), Done(d, "PCIE_REDUCE", j),
                     Pulls(j), Decompressions(j), HostOf(d, j))
        BY <2>2, <2>7 DEF DataOf
      <4>2. /\ Done(d, "COPYD2H", j)' = Done(d, "COPYD2H", j) /\ HostOf(d, j)' = HostOf(d, j)
            /\ CrossPcie => Done(d, "PCIE_REDUCE", j)' = Done(d, "PCIE_REDUCE", j)
        BY <2>3, <2>5, <2>7
      <4> QED BY <1>2, <2>4, <4>1, <4>2 DEF SumIs
    <3>3. ~CrossPcie => SliceIs(Done(d, "COPYH2D", j)', slice'[d][j])
      BY <2>2, <2>3, <2>7 DEF DataOf
    <3> QED BY <3>1, <3>2, <3>3
  <2> QED BY <2>6, <2>7, DataAfter
<1>11. \A k \in Keys : k # j =>
          /\ \A w \in Switches : cpubuff'[w][k] = cpubuff[w][k]
          /\ pushed'[k] = pushed[k] /\ \A d \in Devices : slice'[d][k] = slice[d][k]
  BY <1>8
<1> QED BY <1>3, <1>5, <1>10, <1>11, OneKey

\* The compressor and the push.
LEMMA PushesWrite ==
    ASSUME IInv, SInv, DInv, PcieNum <= 2, Chained, machine' = machine, NEW j \in Keys,
           (CompressJob(j) /\ machine.reset_returns) \/ PushDone(j)
    PROVE  \A k \in Keys : DataOf(k)'
<1>1. CASE CompressJob(j) /\ machine.reset_returns
  <2>1. /\ Return("COMPRESS", j) /\ UNCHANGED ncclVars /\ cpubuff' = cpubuff /\ slice' = slice
        /\ pushed' = [pushed EXCEPT ![j] = HostSum(j)]
    BY <1>1 DEF CompressJob
  <2>2. "COMPRESS" = UseStage("PUSH", j)
    <3>1. "COMPRESS" \in Calls /\ Root \in Devices
      BY Geometry DEF Calls, IInv, TasksKept, TaskTyped
    <3>2. PICK r \in Devices : r = Root
      BY <3>1
    <3>3. "COMPRESS" \in Stages(r, TensorOf(j))
      BY <2>1, <3>1, <3>2, MovesFromCall DEF SInv, Move
    <3> QED BY <3>3, HasStage DEF UseStage
  <2>3. pushed' = IF "COMPRESS" = UseStage("PUSH", j)
                  THEN [pushed EXCEPT ![j] = HostSum(j)] ELSE pushed
    BY <2>1, <2>2
  <2> QED BY <2>1, <2>3, PushWrites
<1>2. CASE PushDone(j)
  <2>1. /\ Return("PUSH", j) /\ UNCHANGED ncclVars /\ cpubuff' = cpubuff /\ slice' = slice
        /\ pushed' = IF HasCompressor(TensorOf(j)) THEN pushed
                     ELSE [pushed EXCEPT ![j] = HostSum(j)]
    BY <1>2 DEF PushDone
  <2>2. pushed' = IF "PUSH" = UseStage("PUSH", j)
                  THEN [pushed EXCEPT ![j] = HostSum(j)] ELSE pushed
    BY <2>1 DEF UseStage
  <2> QED BY <2>1, <2>2, PushWrites
<1> QED BY <1>1, <1>2

\* One key of the back buffer is written.
LEMMA BackRow ==
    ASSUME machine' = machine, machine \in Machines, DataTyped, NEW j \in Keys, NEW row,
           cpubuff' = RowSet(cpubuff, Back, j, row)
    PROVE  /\ \A k \in Keys : k # j => \A w \in Switches : cpubuff'[w][k] = cpubuff[w][k]
           /\ \A d \in Devices :
                 HostOf(d, j)' = IF SwitchOf(d) = Back THEN row[SliceOf(d)] ELSE HostOf(d, j)
<1>1. PICK w \in Switches : w = Back
  BY Geometry
<1>2. cpubuff' = RowSet(cpubuff, w, j, row)
  BY <1>1
<1>3. \A x \in Switches, y \in Keys :
         cpubuff'[x][y] = IF x = w /\ y = j THEN row ELSE cpubuff[x][y]
  BY <1>2, RowWritten
<1>4. \A d \in Devices : SwitchOf(d) \in Switches
  BY OfDevice
<1>5. \A d \in Devices :
         HostOf(d, j)' = IF SwitchOf(d) = Back THEN row[SliceOf(d)] ELSE HostOf(d, j)
  BY <1>1, <1>3, <1>4, SamePlaces DEF HostOf
<1> QED BY <1>1, <1>3, <1>5

\* While the root pulls or decompresses a task, every device has copied and
\* reduced this step of it, and has not copied the answer.
LEMMA AtPull ==
    ASSUME IInv, SInv, Chained, NEW r, r = Root, NEW op \in {"PULL", "DECOMPRESS"},
           NEW j \in Keys, InStage(r, op, j)
    PROVE  /\ machine.is_distributed /\ HostCopies
           /\ op = "DECOMPRESS" => HasCompressor(TensorOf(j)) /\ Pulls(j) = Step(r, j)
                                   /\ Decompressions(j) = Step(r, j) - 1
           /\ op = "PULL" => /\ Pulls(j) = Step(r, j) - 1 /\ Pushes(j) = Step(r, j)
                             /\ HasCompressor(TensorOf(j)) => Decompressions(j) = Step(r, j) - 1
           /\ \A e \in Devices : /\ Done(e, "COPYD2H", j) = Step(r, j)
                                 /\ Done(e, "COPYH2D", j) <= Step(r, j) - 1
<1>1. PICK n, t, u : n = Step(r, j) /\ t = TensorOf(j) /\ u = UseStage("PUSH", j)
  OBVIOUS
<1>2. r \in Devices /\ TaskTyped /\ Orders /\ machine \in Machines
  BY Geometry DEF IInv, TasksKept, TaskTyped, SInv
<1>3. /\ n \in Nat /\ Done(r, op, j) = n - 1 /\ op \in Stages(r, t)
      /\ \A e \in Devices : \A o : Done(e, o, j) \in Int
  BY <1>1, <1>2, Numbers
<1>4. /\ machine.is_distributed /\ HostCopies /\ "PULL" \in Stages(r, t) /\ u \in Stages(r, t)
      /\ "COPYH2D" \in Stages(r, t) /\ u \in {"COMPRESS", "PUSH"}
      /\ op = "DECOMPRESS" => HasCompressor(t)
      /\ HasCompressor(t) => "DECOMPRESS" \in Stages(r, t)
  BY <1>1, <1>2, <1>3, HasStage DEF UseStage
<1>5. /\ Rank(u) < Rank("PULL") /\ Rank("PULL") < Rank("DECOMPRESS")
      /\ Rank("PULL") < Rank("COPYH2D") /\ Rank("DECOMPRESS") < Rank("COPYH2D")
      /\ Rank(u) < Rank("DECOMPRESS")
  BY <1>4, Ranks
<1>6. Done(r, "COPYH2D", j) = n - 1 /\ Done(r, u, j) = n
  <2>1. \A b \in Stages(r, t) : Rank(op) < Rank(b) => Done(r, op, j) = Done(r, b, j)
    BY <1>1, <1>2, <1>3, InOrder
  <2>2. \A b \in Stages(r, t) : Rank(b) < Rank(op) => Done(r, b, j) = Done(r, op, j) + 1
    BY <1>1, <1>2, <1>3, InOrder
  <2>3. Rank(op) < Rank("COPYH2D") /\ Rank(u) < Rank(op)
    BY <1>5
  <2> QED BY <1>3, <1>4, <2>1, <2>2, <2>3
<1>7. op = "DECOMPRESS" => Done(r, "PULL", j) = n
  BY <1>1, <1>2, <1>3, <1>4, <1>5, InOrder
<1>8. op = "PULL" => (HasCompressor(t) => Done(r, "DECOMPRESS", j) = n - 1)
  BY <1>1, <1>2, <1>3, <1>4, <1>5, InOrder
<1>9. /\ Pushes(j) = n /\ Pulls(j) = Done(r, "PULL", j)
      /\ Decompressions(j) = Done(r, "DECOMPRESS", j)
  BY <1>1, <1>6 DEF Pushes, Pulls, Decompressions
<1>10. ASSUME NEW e \in Devices
       PROVE  Done(e, "COPYD2H", j) = n /\ Done(e, "COPYH2D", j) <= n - 1
  <2>1. Chain(e, e, j)
    BY <1>4 DEF Chained
  <2>2. Pushes(j) <= Done(e, "COPYD2H", j)
    BY <1>2, <2>1, ChainGives
  <2>3. /\ Done(e, "COPYH2D", j) <= Done(r, "COPYH2D", j)
        /\ Done(e, "COPYD2H", j) <= Done(e, "COPYH2D", j) + 1
    BY <2>1 DEF Chain
  <2>4. Done(e, "COPYH2D", j) \in Int /\ Done(e, "COPYD2H", j) \in Int
    BY <1>3
  <2> QED BY <1>3, <1>6, <1>9, <2>2, <2>3, <2>4
<1> QED BY <1>1, <1>3, <1>4, <1>7, <1>8, <1>9, <1>10

\* The root's pull and its decompressor: the back buffer has the answer.
LEMMA AnswerWrites ==
    ASSUME IInv, SInv, DInv, PcieNum <= 2, Chained, machine' = machine,
           NEW op \in {"PULL", "DECOMPRESS"}, NEW j \in Keys, Return(op, j), UNCHANGED ncclVars,
           pushed' = pushed, slice' = slice, NEW row, cpubuff' = RowSet(cpubuff, Back, j, row),
           \A i \in Slices :
              row[i] = [sum |-> GlobalSum(Step(Root, j)),
                        coded |-> HasCompressor(TensorOf(j)) /\ op = "PULL"]
    PROVE  \A k \in Keys : DataOf(k)'
<1>1. PICK r \in Devices : r = Root
  BY Geometry DEF IInv, TasksKept, TaskTyped
<1>2. PICK t, n : t = TensorOf(j) /\ n = Step(r, j)
  OBVIOUS
<1>3. TaskTyped /\ DataTyped /\ Orders /\ op \in Calls /\ machine \in Machines
  BY DEF IInv, TasksKept, TaskTyped, SInv, Calls
<1>4. InStage(r, op, j) /\ Move(r, op, j, 1, 0)
  BY <1>1, <1>3, MovesFromCall
<1>5. Rounds(r, op, j, 1, 0) /\ 0 \in 0..1 /\ 1 \in 0..1
  BY <1>4 DEF Move
<1>6. n \in Nat \ {0} /\ \A d \in Devices : \A o : Done(d, o, j) \in Int
  BY <1>2, <1>3, <1>4, StepBegun, Numbers
<1>7. /\ machine.is_distributed /\ HostCopies
      /\ op = "DECOMPRESS" => HasCompressor(t) /\ Pulls(j) = n /\ Decompressions(j) = n - 1
      /\ op = "PULL" => Pulls(j) = n - 1 /\ (HasCompressor(t) => Decompressions(j) = n - 1)
      /\ \A e \in Devices : Done(e, "COPYD2H", j) = n
  BY <1>1, <1>2, <1>4, AtPull
<1>8. /\ \A k \in Keys : k # j => \A w \in Switches : cpubuff'[w][k] = cpubuff[w][k]
      /\ \A d \in Devices :
            HostOf(d, j)' = IF SwitchOf(d) = Back THEN row[SliceOf(d)] ELSE HostOf(d, j)
  BY <1>3, BackRow
<1>9. \A i \in Slices : row[i] = [sum |-> GlobalSum(n), coded |-> HasCompressor(t) /\ op = "PULL"]
  BY <1>1, <1>2
<1>10. ASSUME GrowsBy(j, r, op, j, 1)
       PROVE  DataOf(j)'
  <2>1. Pulls(j) \in Int /\ Pushes(j) \in Int /\ Decompressions(j) \in Int
    BY <1>1, <1>6 DEF Pulls, Pushes, Decompressions
  <2>2. DataOf(j)
    BY DEF DInv
  <2>3. \A d \in Devices :
           /\ Done(d, "COPYD2H", j)' = Done(d, "COPYD2H", j)
           /\ Done(d, "COPYH2D", j)' = Done(d, "COPYH2D", j)
    BY <1>6, <1>7, <1>10 DEF GrowsBy
  <2>4. /\ Pulls(j)' = n /\ Pushes(j)' = Pushes(j)
        /\ HasCompressor(t) => Decompressions(j)' = IF op = "PULL" THEN n - 1 ELSE n
    <3>1. UseStage("PUSH", j) # op
      BY DEF UseStage
    <3> QED BY <1>1, <1>2, <1>6, <1>7, <1>10, <2>1, <3>1 DEF GrowsBy
  <2>5. machine.is_distributed => \A i \in Slices : PushIs(Pushes(j)', pushed'[j][i])
    BY <2>2, <2>4 DEF DataOf
  <2>6. ASSUME HostCopies, NEW d \in Devices
        PROVE  /\ SwitchOf(d) # Back =>
                     CopyIs(SwitchOf(d), Done(d, "COPYD2H", j)', HostOf(d, j)')
               /\ SwitchOf(d) = Back =>
                     SumIs(j, Done(d, "COPYD2H", j)', Done(d, "PCIE_REDUCE", j)',
                           Pulls(j)', Decompressions(j)', HostOf(d, j)')
               /\ ~CrossPcie => SliceIs(Done(d, "COPYH2D", j)', slice'[d][j])
    <3>1. SwitchOf(d) # Back => CopyIs(SwitchOf(d), Done(d, "COPYD2H", j)', HostOf(d, j)')
      BY <1>8, <2>2, <2>3, <2>6 DEF DataOf
    <3>2. ASSUME SwitchOf(d) = Back
          PROVE  SumIs(j, Done(d, "COPYD2H", j)', Done(d, "PCIE_REDUCE", j)',
                       Pulls(j)', Decompressions(j)', HostOf(d, j)')
      <4>1. SliceOf(d) \in Slices
        BY <1>3, OfDevice
      <4>2. HostOf(d, j)' = [sum |-> GlobalSum(n), coded |-> HasCompressor(t) /\ op = "PULL"]
        BY <1>8, <1>9, <3>2, <4>1
      <4>3. (HasCompressor(t) /\ op = "PULL") = (HasCompressor(t) /\ Decompressions(j)' < n)
        BY <1>6, <2>4
      <4>4. Done(d, "COPYD2H", j)' = n
        BY <1>7, <2>3
      <4> QED BY <1>2, <1>7, <2>4, <4>2, <4>3, <4>4 DEF SumIs
    <3>3. ~CrossPcie => SliceIs(Done(d, "COPYH2D", j)', slice'[d][j])
      BY <2>2, <2>3, <2>6 DEF DataOf
    <3> QED BY <3>1, <3>2, <3>3
  <2> QED BY <2>5, <2>6, DataAfter
<1>11. \A k \in Keys : k # j =>
          /\ \A w \in Switches : cpubuff'[w][k] = cpubuff[w][k]
          /\ pushed'[k] = pushed[k] /\ \A d \in Devices : slice'[d][k] = slice[d][k]
  BY <1>8
<1> QED BY <1>3, <1>5, <1>10, <1>11, OneKey

\* The pull and the decompressor.
LEMMA PullsWrite ==
    ASSUME IInv, SInv, DInv, PcieNum <= 2, Chained, machine' = machine, NEW j \in Keys,
           PullDone(j) \/ DecompressJob(j)
    PROVE  \A k \in Keys : DataOf(k)'
<1>1. PICK r \in Devices : r = Root
  BY Geometry DEF IInv, TasksKept, TaskTyped
<1>2. PICK n, t : n = Step(r, j) /\ t = TensorOf(j)
  OBVIOUS
<1>3. Orders /\ "PULL" \in Calls /\ "DECOMPRESS" \in Calls /\ DataOf(j) /\ machine \in Machines
  BY DEF SInv, Calls, DInv, IInv, TasksKept, TaskTyped
<1>4. CASE PullDone(j)
  <2>1. /\ Return("PULL", j) /\ UNCHANGED ncclVars /\ pushed' = pushed /\ slice' = slice
        /\ cpubuff' = [cpubuff EXCEPT ![Back][j] = [i \in Slices |->
                           [sum |-> pushed[j][i] \cup {<<Servers, Step(Root, j)>>},
                            coded |-> HasCompressor(TensorOf(j))]]]
    BY <1>4 DEF PullDone
  <2> DEFINE row == [i \in Slices |-> [sum |-> pushed[j][i] \cup {<<Servers, n>>},
                                       coded |-> HasCompressor(t)]]
  <2>2. cpubuff' = RowSet(cpubuff, Back, j, row)
    BY <1>1, <1>2, <2>1 DEF RowSet
  <2>3. InStage(r, "PULL", j)
    BY <1>1, <1>3, <2>1, MovesFromCall
  <2>4. machine.is_distributed /\ Pushes(j) = n /\ n \in Nat \ {0}
    BY <1>1, <1>2, <2>3, AtPull, StepBegun
  <2>5. \A i \in Slices : pushed[j][i] \cup {<<Servers, n>>} = GlobalSum(n)
    BY <1>3, <2>4 DEF DataOf, PushIs, GlobalSum
  <2>6. \A i \in Slices : row[i] = [sum |-> GlobalSum(Step(Root, j)),
                                    coded |-> HasCompressor(TensorOf(j)) /\ "PULL" = "PULL"]
    <3>1. PICK f \in BOOLEAN : f = HasCompressor(t)
      BY DEF HasCompressor
    <3>2. (HasCompressor(TensorOf(j)) /\ "PULL" = "PULL") = f
      BY <1>2, <3>1
    <3>3. \A i \in Slices : row[i] = [sum |-> GlobalSum(n), coded |-> f]
      BY <2>5, <3>1
    <3> QED BY <1>1, <1>2, <3>2, <3>3
  <2> QED BY <2>1, <2>2, <2>6, AnswerWrites
<1>5. CASE DecompressJob(j)
  <2>1. /\ Return("DECOMPRESS", j) /\ UNCHANGED ncclVars /\ pushed' = pushed /\ slice' = slice
        /\ cpubuff' = [cpubuff EXCEPT ![Back][j] = [i \in Slices |-> Plain(@[i].sum)]]
    BY <1>5 DEF DecompressJob
  <2> DEFINE row == [i \in Slices |-> Plain(cpubuff[Back][j][i].sum)]
  <2>2. cpubuff' = RowSet(cpubuff, Back, j, row)
    BY <2>1 DEF RowSet
  <2>3. InStage(r, "DECOMPRESS", j)
    BY <1>1, <1>3, <2>1, MovesFromCall
  <2>4. /\ machine.is_distributed /\ HostCopies /\ Pulls(j) = n /\ n \in Nat \ {0}
        /\ \A e \in Devices : Done(e, "COPYD2H", j) = n
    BY <1>1, <1>2, <2>3, AtPull, StepBegun
  <2>5. ASSUME NEW i \in Slices
        PROVE  cpubuff[Back][j][i].sum = GlobalSum(n)
    <3>1. PICK e \in Devices : SwitchOf(e) = Back /\ SliceOf(e) = i
      BY <1>3, Geometry, PlaceOf
    <3>2. SumIs(j, n, Done(e, "PCIE_REDUCE", j), Pulls(j), Decompressions(j), HostOf(e, j))
      BY <1>3, <2>4, <3>1 DEF DataOf
    <3>3. HostOf(e, j).sum = GlobalSum(n)
      BY <2>4, <3>2 DEF SumIs
    <3> QED BY <3>1, <3>3 DEF HostOf
  <2>6. \A i \in Slices : row[i] = [sum |-> GlobalSum(Step(Root, j)),
                                    coded |-> HasCompressor(TensorOf(j)) /\ "DECOMPRESS" = "PULL"]
    <3>1. (HasCompressor(TensorOf(j)) /\ "DECOMPRESS" = "PULL") = FALSE
      OBVIOUS
    <3> QED BY <1>1, <1>2, <2>5, <3>1 DEF Plain
  <2> QED BY <2>1, <2>2, <2>6, AnswerWrites
<1> QED BY <1>4, <1>5

-----------------------------------------------------------------------------
(* The steps that write no buffer, and those of the threads.               *)

\* The events, signals and messages.
LEMMA QuietWrites ==
    ASSUME IInv, IInv', SInv, DInv, PcieNum <= 2, machine' = machine, NEW d \in Devices,
           \/ \E t \in Tensors : EnqueueTensor(d, t) \/ ReadyEvent(d, t)
           \/ \E op \in Coordinates : SendSignal(d, op)
           \/ \E T \in Tables, k \in Keys : AddReadyCount(d, T, k)
           \/ RootNcclNext(d)
           \/ UNCHANGED vars
    PROVE  \A k \in Keys : DataOf(k)'
<1>1. TaskTyped /\ Orders
  BY DEF IInv, TasksKept, SInv
<1>2. CASE \E t \in Tensors : EnqueueTensor(d, t)
  <2>1. PICK t \in Tensors : EnqueueTensor(d, t)
    BY <1>2
  <2>2. UNCHANGED dataVars
    BY <2>1 DEF EnqueueTensor, dataVars
  <2> QED BY <1>1, <2>1, <2>2, EnqueuesRounds, NoMove
<1>3. CASE ~\E t \in Tensors : EnqueueTensor(d, t)
  <2>1. queue_list' = queue_list /\ sq' = sq /\ enqueued' = enqueued /\ UNCHANGED dataVars
    BY <1>3 DEF ReadyEvent, SendSignal, AddReadyCount, Abort, RootNcclNext, vars, taskVars,
                dataVars
  <2> QED BY <1>1, <2>1, NoneMoves, NoMove
<1> QED BY <1>2, <1>3

\* A thread that takes a task, tells the others of one, or gives it back.
LEMMA TakingWrites ==
    ASSUME IInv, SInv, DInv, PcieNum <= 2, machine' = machine, NEW d \in Devices, NEW op \in QueueType,
           NEW j \in Keys, j \in Range(sq[d][op]), sq' = Taken(d, op, j),
           queue_list' = queue_list, enqueued' = enqueued, UNCHANGED dataVars
    PROVE  \A k \in Keys : DataOf(k)'
<1>1. TaskTyped /\ Orders /\ 0 \in 0..1 /\ 1 \in 0..1
  BY DEF IInv, TasksKept, SInv
<1>2. Move(d, op, j, 0, 1)
  BY <1>1, MovesOut
<1>3. Rounds(d, op, j, 0, 1)
  BY <1>2 DEF Move
<1> QED BY <1>1, <1>3, NoBuffer

\* A task that passes a stage at which nobody writes.
LEMMA PassingWrites ==
    ASSUME IInv, SInv, DInv, PcieNum <= 2, machine' = machine, NEW d \in Devices,
           NEW op \in QueueType, NEW j \in Keys, j \in Range(sq[d][op]),
           FinishOrProceed(d, j, Taken(d, op, j)),
           UNCHANGED ncclVars, UNCHANGED calls, UNCHANGED dataVars,
           op \in Coordinates \/ (op = "PUSH" /\ ~machine.is_distributed)
    PROVE  \A k \in Keys : DataOf(k)'
<1>1. TaskTyped /\ Orders /\ 1 \in 0..1
  BY DEF IInv, TasksKept, SInv
<1>2. Move(d, op, j, 1, 1)
  <2>1. UNCHANGED <<nccl_tasks, nccl_pipeline, calls>>
    BY DEF ncclVars
  <2> QED BY <1>1, <2>1, MovesFromQueue
<1>3. Rounds(d, op, j, 1, 1)
  BY <1>2 DEF Move
<1> QED BY <1>1, <1>3, NoBuffer

\* A task of a group is done.
LEMMA GroupWrites ==
    ASSUME IInv, SInv, DInv, PcieNum <= 2, machine' = machine, NEW d \in Devices, SyncNccl(d)
    PROVE  \A k \in Keys : DataOf(k)'
<1>1. TaskTyped /\ Orders /\ 1 \in 0..1 /\ 0 \in 0..1
  BY DEF IInv, TasksKept, SInv
<1>2. PICK op \in {"REDUCE", "BROADCAST"}, j \in Keys : Move(d, op, j, 1, 0)
  BY <1>1, MovesFromGroup
<1>3. Rounds(d, op, j, 1, 0)
  BY <1>2 DEF Move
<1>4. UNCHANGED dataVars
  BY DEF SyncNccl
<1> QED BY <1>1, <1>3, <1>4, NoBuffer

\* The threads of a device.
LEMMA DeviceWrites ==
    ASSUME IInv, IInv', SInv, SInv', DInv, PcieNum <= 2, Chained, machine' = machine,
           NEW d \in Devices, Device(d)
    PROVE  \A k \in Keys : DataOf(k)'
<1>1. CASE \E t \in Tensors : Framework(d, t)
  <2>1. \E t \in Tensors : EnqueueTensor(d, t) \/ ReadyEvent(d, t)
    BY <1>1 DEF Framework, Alive
  <2> QED BY <2>1, QuietWrites
<1>2. CASE \E op \in Coordinates : CoordinateLoop(d, op)
  <2>1. PICK op \in Coordinates : Coordinate(d, op) \/ SendSignal(d, op)
    BY <1>2 DEF CoordinateLoop, Alive
  <2>2. CASE SendSignal(d, op)
    BY <2>2, QuietWrites
  <2>3. CASE Coordinate(d, op)
    <3>1. PICK j \in Keys : GetTask(d, op, j) /\ FinishOrProceed(d, j, Taken(d, op, j))
      BY <2>3 DEF Coordinate
    <3>2. UNCHANGED ncclVars /\ UNCHANGED calls /\ UNCHANGED dataVars
      BY <2>3 DEF Coordinate
    <3>3. op \in QueueType /\ j \in Range(sq[d][op])
      BY <3>1, GetsTask DEF Coordinates, Coordinated, QueueType
    <3> QED BY <3>1, <3>2, <3>3, PassingWrites
  <2> QED BY <2>1, <2>2, <2>3
<1>3. CASE \E table \in Tables, k \in Keys : Listen(d, table, k)
  <2>1. \E T \in Tables, k \in Keys : AddReadyCount(d, T, k)
    BY <1>3 DEF Listen, Alive
  <2> QED BY <2>1, QuietWrites
<1>4. CASE SyncNcclLoop(d)
  BY <1>4, GroupWrites DEF SyncNcclLoop, Alive
<1>5. CASE CopyDevice2HostLoop(d)
  BY <1>5, CopyWrites DEF CopyDevice2HostLoop, Alive
<1>6. CASE PcieReduceLoop(d)
  BY <1>6, ReduceWrites DEF PcieReduceLoop, Alive
<1>7. CASE CopyHost2DeviceLoop(d)
  BY <1>7, SliceWrites DEF CopyHost2DeviceLoop, Alive
<1> QED BY <1>1, <1>2, <1>3, <1>4, <1>5, <1>6, <1>7 DEF Device

\* The NCCL loop of a device.
LEMMA NcclWrites ==
    ASSUME IInv, IInv', SInv, DInv, PcieNum <= 2, machine' = machine, NEW d \in Devices, NcclLoop(d)
    PROVE  \A k \in Keys : DataOf(k)'
<1>1. CASE IsSignalRoot(d) /\ RootNcclNext(d)
  BY <1>1, QuietWrites
<1>2. CASE IsSignalRoot(d) /\ RootNcclTake(d)
  <2>1. PICK op : op = nccl_phase[d]
    OBVIOUS
  <2>2. PICK j \in Keys : GetTask(d, op, j) /\ sq' = Taken(d, op, j)
    BY <1>2, <2>1 DEF RootNcclTake
  <2>3. queue_list' = queue_list /\ enqueued' = enqueued /\ UNCHANGED dataVars
    BY <1>2 DEF RootNcclTake
  <2>4. op \in QueueType /\ j \in Range(sq[d][op])
    BY <2>1, <2>2, GetsTask DEF IInv, NcclTyped, QueueType
  <2> QED BY <2>2, <2>3, <2>4, TakingWrites
<1>3. CASE ~IsSignalRoot(d) /\ NonRootNccl(d)
  <2>1. PICK m : m = NextCall(d)
    OBVIOUS
  <2>2. CASE m # DoGroup /\ FindsTask(d, m.op, m.key)
    <3>1. sq' = Taken(d, m.op, m.key) /\ queue_list' = queue_list /\ enqueued' = enqueued
          /\ UNCHANGED dataVars
      BY <1>3, <2>1, <2>2 DEF NonRootNccl
    <3>2. m.op \in QueueType /\ m.key \in Keys
      <4>1. m \in CallTask
        BY <1>3, <2>1, <2>2 DEF NonRootNccl, NextCall, IInv, NcclTyped
      <4> QED BY <4>1 DEF CallTask, QueueType
    <3>3. m.key \in Range(sq[d][m.op])
      BY <2>2 DEF FindsTask, Range
    <3> QED BY <3>1, <3>2, <3>3, TakingWrites
  <2>3. CASE m = DoGroup \/ ~FindsTask(d, m.op, m.key)
    <3>1. queue_list' = queue_list /\ sq' = sq /\ enqueued' = enqueued /\ UNCHANGED dataVars
      BY <1>3, <2>1, <2>3 DEF NonRootNccl, Abort, taskVars, dataVars
    <3>2. TaskTyped /\ Orders
      BY DEF IInv, TasksKept, SInv
    <3> QED BY <3>1, <3>2, NoneMoves, NoMove
  <2> QED BY <2>2, <2>3
<1> QED BY <1>1, <1>2, <1>3 DEF NcclLoop, Alive

\* The root's calls, and their answers.
LEMMA RootWrites ==
    ASSUME IInv, IInv', SInv, DInv, PcieNum <= 2, Chained, machine' = machine, RootCalls
    PROVE  \A k \in Keys : DataOf(k)'
<1>1. PICK r \in Devices : r = Root
  BY Geometry DEF IInv, TasksKept, TaskTyped
<1>2. ASSUME NEW op \in Calls, CallLoop(op)
      PROVE  \A k \in Keys : DataOf(k)'
  <2>1. CASE op = "PUSH" /\ ~machine.is_distributed
    <3>1. DummyBarrier
      BY <1>2, <2>1 DEF CallLoop, Alive
    <3>2. PICK j \in Keys : GetTask(r, op, j) /\ FinishOrProceed(r, j, Taken(r, op, j))
      BY <1>1, <2>1, <3>1 DEF DummyBarrier
    <3>3. UNCHANGED ncclVars /\ UNCHANGED calls /\ UNCHANGED dataVars
      BY <3>1 DEF DummyBarrier
    <3>4. op \in QueueType /\ j \in Range(sq[r][op])
      BY <2>1, <3>2, GetsTask DEF QueueType
    <3> QED BY <2>1, <3>2, <3>3, <3>4, PassingWrites
  <2>2. CASE ~(op = "PUSH" /\ ~machine.is_distributed)
    <3>1. Call(op)
      BY <1>2, <2>2 DEF CallLoop, Alive
    <3>2. PICK j \in Keys : GetTask(r, op, j) /\ sq' = Taken(r, op, j)
      BY <1>1, <3>1 DEF Call
    <3>3. queue_list' = queue_list /\ enqueued' = enqueued /\ UNCHANGED dataVars
      BY <3>1 DEF Call
    <3>4. op \in QueueType /\ j \in Range(sq[r][op])
      BY <3>2, GetsTask DEF Calls, QueueType
    <3> QED BY <3>2, <3>3, <3>4, TakingWrites
  <2> QED BY <2>1, <2>2
<1>3. ASSUME NEW j \in Keys, CallReturns(j)
      PROVE  \A k \in Keys : DataOf(k)'
  <2>1. CompressJob(j) \/ PushDone(j) \/ PullDone(j) \/ DecompressJob(j)
    BY <1>3 DEF CallReturns, Alive
  <2>2. CASE CompressJob(j) /\ ~machine.reset_returns
    <3>1. queue_list' = queue_list /\ sq' = sq /\ enqueued' = enqueued /\ UNCHANGED dataVars
      BY <2>2 DEF CompressJob, Abort, taskVars
    <3>2. TaskTyped /\ Orders
      BY DEF IInv, TasksKept, SInv
    <3> QED BY <3>1, <3>2, NoneMoves, NoMove
  <2>3. CASE (CompressJob(j) /\ machine.reset_returns) \/ PushDone(j)
    BY <2>3, PushesWrite
  <2>4. CASE PullDone(j) \/ DecompressJob(j)
    BY <2>4, PullsWrite
  <2> QED BY <2>1, <2>2, <2>3, <2>4
<1> QED BY <1>2, <1>3 DEF RootCalls

\* No step of the machine spoils a buffer.
LEMMA NextData ==
    ASSUME IInv, IInv', SInv, SInv', DInv, [Next]_vars
    PROVE  DInv'
<1>1. machine' = machine /\ Chained
  BY NextSignals, ChainsHold
<1>2. PcieNum' = PcieNum /\ Keys' = Keys
  BY <1>1, SameMachine
<1>3. ASSUME PcieNum <= 2
      PROVE  \A k \in Keys : DataOf(k)'
  <2>1. PICK r \in Devices : r = Root
    BY Geometry DEF IInv, TasksKept, TaskTyped
  <2>2. CASE UNCHANGED vars
    BY <1>1, <1>3, <2>1, <2>2, QuietWrites
  <2>3. ASSUME NEW d \in Devices, Device(d)
        PROVE  \A k \in Keys : DataOf(k)'
    BY <1>1, <1>3, <2>3, DeviceWrites
  <2>4. ASSUME NEW d \in Devices, NcclLoop(d)
        PROVE  \A k \in Keys : DataOf(k)'
    BY <1>1, <1>3, <2>4, NcclWrites
  <2>5. CASE RootCalls
    BY <1>1, <1>3, <2>5, RootWrites
  <2> QED BY <2>2, <2>3, <2>4, <2>5 DEF Next
<1> QED BY <1>2, <1>3 DEF DInv

\* No round is done when the loops start.
LEMMA InitData ==
    ASSUME Init
    PROVE  DInv
<1>1. IInv /\ SInv /\ machine \in Machines
  BY InitKeeps, InitSignals DEF IInv, TasksKept, Init
<1>2. TaskTyped /\ Orders
  BY <1>1 DEF IInv, TasksKept, SInv
<1>3. ASSUME NEW d \in Devices, NEW k \in Keys, NEW op
      PROVE  Done(d, op, k) <= 0 /\ Done(d, op, k) \in Int
  <2>1. Step(d, k) = 0
    BY KeyFacts DEF Init, Step
  <2>2. Done(d, op, k) <= Used(d, op, k) /\ Used(d, op, k) <= Step(d, k)
        /\ Done(d, op, k) \in Int /\ Used(d, op, k) \in Int
    BY <1>2, Numbers
  <2> QED BY <2>1, <2>2
<1>4. ASSUME NEW k \in Keys
      PROVE  DataOf(k)
  <2>1. PICK r \in Devices : r = Root
    BY <1>1, Geometry
  <2>2. Pushes(k) <= 0 /\ Pushes(k) \in Int
    BY <1>3, <2>1 DEF Pushes
  <2>3. \A i \in Slices : PushIs(Pushes(k), pushed[k][i])
    BY <2>2 DEF PushIs
  <2>4. \A d \in Devices :
           /\ CopyIs(SwitchOf(d), Done(d, "COPYD2H", k), HostOf(d, k))
           /\ SumIs(k, Done(d, "COPYD2H", k), Done(d, "PCIE_REDUCE", k),
                    Pulls(k), Decompressions(k), HostOf(d, k))
           /\ SliceIs(Done(d, "COPYH2D", k), slice[d][k])
    BY <1>3 DEF CopyIs, SumIs, SliceIs
  <2> QED BY <2>3, <2>4 DEF DataOf
<1> QED BY <1>4 DEF DInv

\* On a machine of one or two switches, in every state: each buffer of the host
\* has what the rounds of its key say, the copy of its switch, the sum of the
\* switches or the answer of the servers, never a part of one and a part of
\* another.
THEOREM DataCorrect == Spec => []DInv
<1>1. Init => DInv
  BY InitData
<1>2. IInv /\ IInv' /\ SInv /\ SInv' /\ DInv /\ [Next]_vars => DInv'
  BY NextData
<1> QED BY <1>1, <1>2, PipelineInvariant, SignalsCorrect, PTL DEF Spec

\* On a machine of one or two switches the buffer that is compressed or pushed
\* has the sum of all switches for its step, and nobody writes it meanwhile
\* (RunCompressLoopOnce, RunPushLoopOnce).
THEOREM PushStableCorrect == Spec => [](PcieNum <= 2 => PushStable)
<1>1. ASSUME IInv, SInv, DInv, PcieNum <= 2
      PROVE  PushStable
  <2>1. PICK r \in Devices : r = Root
    BY <1>1, Geometry DEF IInv, TasksKept, TaskTyped
  <2>2. Chained /\ Once(r)
    BY <1>1, <2>1, ChainsHold DEF IInv, TasksKept, Kept
  <2>3. ASSUME NEW op \in {"COMPRESS", "PUSH"}, NEW k \in calls[op], NEW i \in Slices
        PROVE  cpubuff[Back][k][i] = Plain(LocalSum(Step(Root, k)))
    <3>1. op \in Calls /\ op \in QueueType
      BY DEF Calls, QueueType
    <3>2. k \in Keys
      BY <1>1, <3>1 DEF IInv, TasksKept, TaskTyped
    <3>3. Called(r, op, k)
      BY <2>1, <3>1 DEF Called
    <3>4. Took(r, op, k) /\ InStage(r, op, k)
      BY <2>2, <3>1, <3>2, <3>3, TookIs DEF Took
    <3> QED BY <1>1, <2>1, <2>2, <3>2, <3>4, SumAtPush
  <2> QED BY <2>3 DEF PushStable
<1> QED BY <1>1, DataCorrect, PipelineInvariant, SignalsCorrect, PTL

-----------------------------------------------------------------------------
(* What a tensor's callback finds.                                         *)

\* On a machine of one switch: once a device has passed all stages of a step of
\* a tensor, the slices of its switch hold the global sum of that step.
Outputs ==
    HostCopies /\ ~CrossPcie =>
        \A d \in Devices, t \in Tensors :
            Finished(d, t) = Range(KeyList[t]) /\ enqueued[d][t] > 0 => OutputIsGlobalSum(d, t)

\* Without a second switch the copies are of one switch.
LEMMA OneSwitch ==
    ASSUME machine \in Machines, ~CrossPcie
    PROVE  PcieNum <= 2
<1>1. PICK s \in Nat \ {0}, m \in Nat \ {0} :
         s = PcieSize /\ m = PcieNum /\ machine.local_size = m * s
  BY Geometry
<1>2. m * s <= s
  BY <1>1 DEF CrossPcie
<1>3. ASSUME m > 2
      PROVE  FALSE
  <2>1. PICK x \in Nat : m = 2 + x
    <3>1. m - 2 \in Nat /\ m = 2 + (m - 2)
      BY <1>1, <1>3
    <3> QED BY <3>1
  <2>2. m * s = s + s + x * s /\ x * s \in Nat
    BY <1>1, <2>1
  <2> QED BY <1>1, <1>2, <2>2
<1> QED BY <1>1, <1>3

\* When a device has passed the broadcast of a step, every device of its switch
\* has copied the sum of this step to its memory.
LEMMA AllHaveCopied ==
    ASSUME IInv, SInv, Chained, HostCopies, NEW d \in Devices, NEW k \in Keys, NEW p \in Peers(d),
           Done(d, "BROADCAST", k) = Step(d, k)
    PROVE  p \in Devices /\ Done(p, "COPYH2D", k) = Step(d, k)
<1>1. TaskTyped /\ Orders /\ Lowers /\ Followed /\ machine \in Machines /\ p \in Devices
  BY DEF IInv, TasksKept, TaskTyped, SInv, Peers
<1>2. PICK r \in Devices : r = SignalRoot(d) /\ IsSignalRoot(r) /\ SwitchOf(r) = SwitchOf(d)
  BY <1>1, Places, OfDevice
<1>3. PICK n, t : n = Step(d, k) /\ t = TensorOf(k)
  OBVIOUS
<1>4. /\ n \in Nat /\ \A o : Used(d, o, k) <= n
      /\ \A e \in Devices : \A o : /\ Done(e, o, k) \in Int /\ Used(e, o, k) \in Int
                                   /\ Done(e, o, k) <= Used(e, o, k)
  BY <1>1, <1>3, Numbers
<1>5. n <= Used(r, "BROADCAST", k)
  <2>1. CASE d = r
    BY <1>3, <1>4, <2>1
  <2>2. CASE d # r
    <3>1. d \in Peers(r) \ {r}
      BY <1>2, <2>2 DEF Peers
    <3>2. Follows(r, d)
      BY <1>1, <1>2, <3>1 DEF Followed
    <3>3. Used(r, "BROADCAST", k) >= Used(d, "BROADCAST", k)
      BY <1>4, <3>2 DEF Follows, Bit
    <3> QED BY <1>3, <1>4, <3>3
  <2> QED BY <2>1, <2>2
<1>6. n <= Done(p, "COPYH2D", k)
  <2>1. /\ "COPYH2D" \in Stages(p, t) /\ "BROADCAST" \in Stages(p, t)
        /\ ~IsSignalRoot(p) => "COORDINATE_BROADCAST" \in Stages(p, t)
        /\ Rank("COPYH2D") < Rank("BROADCAST") /\ Rank("COPYH2D") < Rank("COORDINATE_BROADCAST")
    BY HasStage, Ranks
  <2>2. CASE p = r
    <3>1. Used(p, "BROADCAST", k) <= Done(p, "COPYH2D", k)
      BY <1>1, <1>3, <2>1, InOrder
    <3> QED BY <1>1, <1>4, <1>5, <2>2, <3>1
  <2>3. CASE p # r
    <3>1. p \in Peers(r) \ {r} /\ SwitchOf(p) = SwitchOf(r)
      BY <1>1, <1>2, <2>3 DEF Peers
    <3>2. ~IsSignalRoot(p)
      BY <1>2, <2>3, <3>1 DEF IsSignalRoot, SignalRoot
    <3>3. p \in Senders(r, "BROADCAST") /\ "BROADCAST" \in Tables
      BY <1>2, <3>1 DEF Senders, Active, HasTable, Tables
    <3>4. Used(r, "BROADCAST", k) <= Signalled(p, "BROADCAST", k)
      BY <1>1, <3>3 DEF Lowers, Lower, UseStage
    <3>5. /\ Signalled(p, "BROADCAST", k) <= Done(p, "COORDINATE_BROADCAST", k)
          /\ Signalled(p, "BROADCAST", k) \in Int
      BY <1>1, SignalNumbers DEF SignalStage
    <3>6. Done(p, "COORDINATE_BROADCAST", k) <= Done(p, "COPYH2D", k)
      BY <1>1, <1>3, <2>1, <3>2, InOrder
    <3>7. Used(r, "BROADCAST", k) \in Int /\ Done(p, "COORDINATE_BROADCAST", k) \in Int
          /\ Done(p, "COPYH2D", k) \in Int
      BY <1>1, <1>4
    <3> QED BY <1>4, <1>5, <3>4, <3>5, <3>6, <3>7
  <2> QED BY <2>2, <2>3
<1>7. Done(p, "COPYH2D", k) <= n
  <2>1. Chain(p, d, k)
    BY <1>1 DEF Chained
  <2>2. Done(p, "COPYH2D", k) <= Done(d, "COPYD2H", k)
    BY <1>1, <2>1, ChainGives
  <2>3. /\ Done(d, "COPYD2H", k) <= Used(d, "COPYD2H", k) /\ Used(d, "COPYD2H", k) <= n
        /\ Done(d, "COPYD2H", k) \in Int /\ Used(d, "COPYD2H", k) \in Int
        /\ Done(p, "COPYH2D", k) \in Int
    BY <1>1, <1>4
  <2> QED BY <1>4, <2>2, <2>3
<1> QED BY <1>1, <1>3, <1>4, <1>6, <1>7

\* The slices of a switch after a step of a tensor.
LEMMA OutputsHold ==
    ASSUME IInv, SInv, DInv
    PROVE  Outputs
<1> SUFFICES ASSUME HostCopies, ~CrossPcie, NEW d \in Devices, NEW t \in Tensors,
                    Finished(d, t) = Range(KeyList[t]), enqueued[d][t] > 0,
                    NEW k \in Range(KeyList[t]), NEW p \in Peers(d)
             PROVE  slice[p][k] = Plain(GlobalSum(enqueued[d][t]))
  BY DEF Outputs, OutputIsGlobalSum
<1>1. k \in Keys /\ Step(d, k) = enqueued[d][t] /\ machine \in Machines
  BY KeyFacts DEF Step, IInv, TasksKept, TaskTyped
<1>2. Done(d, "BROADCAST", k) = Step(d, k)
  <2>1. queue_list[d][k] = <<>>
    BY DEF Finished
  <2>2. Left(d, k) = {}
    BY <2>1, NothingLeft DEF Left
  <2>3. Step(d, k) \in Nat
    BY <1>1, Numbers DEF IInv, TasksKept, SInv
  <2> QED BY <2>2, <2>3 DEF Done, Bit
<1>3. p \in Devices /\ Done(p, "COPYH2D", k) = Step(d, k)
  BY <1>1, <1>2, ChainsHold, AllHaveCopied
<1>4. SliceIs(Done(p, "COPYH2D", k), slice[p][k])
  BY <1>1, <1>3, OneSwitch DEF DInv, DataOf
<1> QED BY <1>1, <1>3, <1>4 DEF SliceIs

\* The step of a tensor ends when a device passes the last stage of it, and the
\* last stage copies nothing.
Advances ==
    \/ step_cnt' = step_cnt
    \/ /\ enqueued' = enqueued /\ slice' = slice
       /\ \E c \in Devices, u \in Tensors : step_cnt' = [step_cnt EXCEPT ![c][u] = @ + 1]

\* A task that proceeds.
LEMMA ProceedsAdvances ==
    ASSUME NEW c \in Devices, NEW k \in Keys, NEW q, FinishOrProceed(c, k, q), slice' = slice
    PROVE  Advances
<1>1. TensorOf(k) \in Tensors
  BY KeyFacts
<1> QED BY <1>1 DEF FinishOrProceed, Advances

\* The copy to the device is not the last stage.
LEMMA CopyIsNotLast ==
    ASSUME IInv, SInv, machine' = machine, NEW c \in Devices, CopyHost2Device(c)
    PROVE  step_cnt' = step_cnt
<1>1. PICK op, o : op = "COPYH2D" /\ o = "BROADCAST"
  OBVIOUS
<1>2. PICK j \in Keys : GetTask(c, op, j) /\ FinishOrProceed(c, j, Taken(c, op, j))
  BY <1>1 DEF CopyHost2Device
<1>3. UNCHANGED <<nccl_tasks, nccl_pipeline, calls>> /\ Orders /\ op \in QueueType
  BY <1>1 DEF CopyHost2Device, ncclVars, SInv, QueueType
<1>4. InStage(c, op, j)
  BY <1>2, <1>3, GetsTask, MovesFromQueue
<1>5. PICK s, t : s = queue_list[c][j] /\ t = TensorOf(j)
  OBVIOUS
<1>6. EndOfList(s, c, t) /\ s # <<>> /\ Head(s) = op
  BY <1>3, <1>4, <1>5 DEF Orders, Ordered, InStage
<1>7. o \in Stages(c, t) /\ Rank(op) <= Rank(o) /\ o # op
  BY <1>1, HasStage, Ranks
<1>8. o \in Holding(s) \ {op} /\ Holding(Tail(s)) = Holding(s) \ {op}
  BY <1>6, <1>7, EndFacts
<1>9. Tail(s) # <<>>
  BY <1>8, NothingLeft
<1> QED BY <1>2, <1>5, <1>9 DEF FinishOrProceed

\* Every step of the machine.
LEMMA NextAdvances ==
    ASSUME IInv, SInv, [Next]_vars
    PROVE  Advances
<1>1. machine' = machine
  BY NextSignals
<1>2. CASE UNCHANGED vars
  BY <1>2 DEF vars, taskVars, Advances
<1>3. ASSUME NEW d \in Devices, Device(d)
      PROVE  Advances
  <2>1. CASE (\E t \in Tensors : Framework(d, t))
             \/ (\E table \in Tables, k \in Keys : Listen(d, table, k))
    <3>1. step_cnt' = step_cnt
      BY <2>1 DEF Framework, Listen, Alive, EnqueueTensor, ReadyEvent, AddReadyCount, Abort, taskVars
    <3> QED BY <3>1 DEF Advances
  <2>2. CASE \E op \in Coordinates : CoordinateLoop(d, op)
    <3>1. PICK op \in Coordinates : Coordinate(d, op) \/ SendSignal(d, op)
      BY <2>2 DEF CoordinateLoop, Alive
    <3>2. CASE SendSignal(d, op)
      BY <3>2 DEF SendSignal, taskVars, Advances
    <3>3. CASE Coordinate(d, op)
      <4>1. /\ \E k \in Keys : FinishOrProceed(d, k, Taken(d, op, k))
            /\ slice' = slice
        BY <3>3 DEF Coordinate, dataVars
      <4> QED BY <4>1, ProceedsAdvances
    <3> QED BY <3>1, <3>2, <3>3
  <2>3. CASE SyncNcclLoop(d)
    <3>1. SyncNccl(d)
      BY <2>3 DEF SyncNcclLoop, Alive
    <3>2. PICK k : k = Head(nccl_pipeline[d])[1].key
      OBVIOUS
    <3>3. FinishOrProceed(d, k, sq) /\ slice' = slice
      BY <3>1, <3>2 DEF SyncNccl, dataVars
    <3>4. k \in Keys
      <4>1. PICK op \in {"REDUCE", "BROADCAST"}, j \in Keys :
               NcclTask(op, j) = Head(nccl_pipeline[d])[1]
        BY <1>1, <3>1, MovesFromGroup DEF SInv
      <4> QED BY <3>2, <4>1 DEF NcclTask
    <3> QED BY <3>3, <3>4, ProceedsAdvances
  <2>4. CASE CopyDevice2HostLoop(d)
    <3>1. /\ \E k \in Keys : FinishOrProceed(d, k, Taken(d, "COPYD2H", k))
          /\ slice' = slice
      BY <2>4 DEF CopyDevice2HostLoop, Alive, CopyDevice2Host
    <3> QED BY <3>1, ProceedsAdvances
  <2>5. CASE PcieReduceLoop(d)
    <3>1. /\ \E k \in Keys : FinishOrProceed(d, k, Taken(d, "PCIE_REDUCE", k))
          /\ slice' = slice
      BY <2>5 DEF PcieReduceLoop, Alive, PcieReduce
    <3> QED BY <3>1, ProceedsAdvances
  <2>6. CASE CopyHost2DeviceLoop(d)
    <3>1. step_cnt' = step_cnt
      BY <1>1, <2>6, CopyIsNotLast DEF CopyHost2DeviceLoop, Alive
    <3> QED BY <3>1 DEF Advances
  <2> QED BY <1>3, <2>1, <2>2, <2>3, <2>4, <2>5, <2>6 DEF Device
<1>4. ASSUME NEW d \in Devices, NcclLoop(d)
      PROVE  Advances
  <2>1. step_cnt' = step_cnt
    BY <1>4 DEF NcclLoop, Alive, RootNcclTake, RootNcclNext, NonRootNccl, Abort, taskVars
  <2> QED BY <2>1 DEF Advances
<1>5. CASE RootCalls
  <2>1. PICK r \in Devices : r = Root
    BY Geometry DEF IInv, TasksKept, TaskTyped
  <2>2. ASSUME NEW op \in Calls, CallLoop(op)
        PROVE  Advances
    <3>1. CASE Call(op)
      BY <3>1 DEF Call, Advances
    <3>2. CASE DummyBarrier
      <4>1. /\ \E k \in Keys : FinishOrProceed(r, k, Taken(r, "PUSH", k))
            /\ slice' = slice
        BY <2>1, <3>2 DEF DummyBarrier, dataVars
      <4> QED BY <4>1, ProceedsAdvances
    <3> QED BY <2>2, <3>1, <3>2 DEF CallLoop, Alive
  <2>3. ASSUME NEW k \in Keys, CallReturns(k)
        PROVE  Advances
    <3>1. CASE CompressJob(k) /\ ~machine.reset_returns
      BY <3>1 DEF CompressJob, Abort, taskVars, Advances
    <3>2. CASE ~(CompressJob(k) /\ ~machine.reset_returns)
      <4>1. FinishOrProceed(r, k, sq) /\ slice' = slice
        BY <2>1, <2>3, <3>2 DEF CallReturns, Alive, CompressJob, PushDone, PullDone, DecompressJob,
                                Return
      <4> QED BY <4>1, ProceedsAdvances
    <3> QED BY <3>1, <3>2
  <2> QED BY <1>5, <2>2, <2>3 DEF RootCalls
<1> QED BY <1>2, <1>3, <1>4, <1>5 DEF Next

\* The slices that a callback finds.
LEMMA CallbackStep ==
    ASSUME IInv, IInv', SInv, Outputs', [Next]_vars, NEW d \in Devices, NEW t \in Tensors,
           CalledBack(d, t), HostCopies, ~CrossPcie
    PROVE  OutputIsGlobalSum(d, t)
<1>1. machine' = machine /\ Advances
  BY NextSignals, NextAdvances
<1>2. /\ Devices' = Devices /\ Peers(d)' = Peers(d) /\ HostCopies' /\ ~CrossPcie'
      /\ \A n : GlobalSum(n)' = GlobalSum(n)
  <2>1. Devices' = Devices /\ \A p : SwitchOf(p)' = SwitchOf(p)
    BY <1>1, SameMachine, SamePlaces
  <2>2. Peers(d)' = Peers(d)
    BY <2>1 DEF Peers
  <2> QED BY <1>1, <2>1, <2>2, SamePlaces
<1>3. /\ step_cnt \in [Devices -> [Tensors -> Nat]] /\ enqueued[d][t] \in Nat
      /\ Progress(d, t) /\ Progress(d, t)'
  BY <1>2 DEF IInv, TasksKept, TaskTyped, Kept
<1>4. /\ enqueued' = enqueued /\ slice' = slice
      /\ step_cnt'[d][t] = step_cnt[d][t] + 1 /\ step_cnt[d][t] \in Nat
  <2>1. step_cnt' # step_cnt
    BY DEF CalledBack
  <2>2. PICK c \in Devices, u \in Tensors : step_cnt' = [step_cnt EXCEPT ![c][u] = @ + 1]
    BY <1>1, <2>1 DEF Advances
  <2>3. step_cnt'[d][t] = step_cnt[d][t] + 1
    BY <1>3, <2>2 DEF CalledBack
  <2> QED BY <1>1, <1>3, <2>1, <2>3 DEF Advances
<1>5. enqueued[d][t] = step_cnt[d][t] + 1
  BY <1>3, <1>4 DEF Progress
<1>6. Finished(d, t)' = Range(KeyList[t]) /\ enqueued'[d][t] > 0
  BY <1>3, <1>4, <1>5 DEF Progress
<1>7. OutputIsGlobalSum(d, t)'
  BY <1>2, <1>6 DEF Outputs
<1>8. GlobalSum(enqueued[d][t])' = GlobalSum(enqueued[d][t])
  BY <1>2, <1>4 DEF GlobalSum, LocalSum
<1> QED BY <1>2, <1>4, <1>7, <1>8 DEF OutputIsGlobalSum, Plain

\* When a tensor is called back on a machine of one switch, the broadcast of
\* the switch was made of slices that hold the global sum of this step
\* (core_loops.cc:112-128, :741-790).
THEOREM CallbackCorrect == Spec => CallbackIsComplete
<1>1. IInv /\ SInv /\ DInv => Outputs
  BY OutputsHold
<1>2. IInv /\ IInv' /\ SInv /\ Outputs' /\ [Next]_vars =>
         [\A d \in Devices, t \in Tensors :
             CalledBack(d, t) /\ HostCopies /\ ~CrossPcie => OutputIsGlobalSum(d, t)]_vars
  BY CallbackStep
<1> QED BY <1>1, <1>2, PipelineInvariant, SignalsCorrect, DataCorrect, PTL
        DEF Spec, CallbackIsComplete
=============================================================================
