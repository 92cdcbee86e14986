-------------------------- MODULE SeqAccount_proofs --------------------------
(***************************************************************************)
(* The accounting of the controller, for every width of the frame numbers, *)
(* every number of blocks, lost frames, STM32 resets and reinitialisations *)
(* of the bus, as long as the Pi falls behind by less than half a lap.     *)
(***************************************************************************)
EXTENDS SeqAccount, MotorSend_proofs

-----------------------------------------------------------------------------
(* Distances of sequence numbers.                                          *)

\* A step of the accounting is one of the firmware, or leaves it alone.
LEMMA AccountIsFirmwareStep == [AccountNext]_accountVars => [FirmwareStep]_stmVars
BY DEF AccountNext, Block, Firmware, FirmwareReset, FrameAccounted, FrameLost, Reinit, FirmwareStep,
       StmInterrupt, accountVars

\* The remainder of a number less than one lap below 0.
LEMMA LapBelow ==
  ASSUME NEW m \in Nat \ {0}, NEW g \in 0 .. m - 1
  PROVE  g % m = g /\ (g - m) % m = g
<1> DEFINE q == (g - m) \div m
           r == (g - m) % m
<1>1. g - m = m * q + r /\ q \in Int /\ r \in 0 .. m - 1
  BY SMT
<1> HIDE DEF q, r
<1>2. m * q \in Int /\ m * q = g - m - r
  BY <1>1, SMT
<1>3. q = -1
  <2>1. CASE q >= 0
    <3>1. m * q >= 0
      BY <1>1, <2>1, SMT
    <3> QED  BY <1>1, <1>2, <3>1, SMT
  <2>2. CASE q <= -2
    <3>1. PICK j \in Nat : q = -2 - j
      BY <1>1, <2>2, -2 - q \in Nat, SMT
    <3>2. m * q = -m - m - m * j /\ m * j >= 0 /\ m * j \in Int
      BY <3>1, SMT
    <3> QED  BY <1>1, <1>2, <3>2, SMT
  <2> QED  BY <1>1, <2>1, <2>2, SMT
<1>4. r = g
  BY <1>1, <1>2, <1>3, SMT
<1> QED  BY <1>4, SMT DEF r

\* (int32_t)(a - b) is the distance ahead if that is less than half a lap.
LEMMA DistanceAhead ==
  ASSUME NEW a \in 0 .. SeqMod - 1, NEW b \in 0 .. SeqMod - 1, NEW g \in 0 .. MaxBehind,
         a - b = g \/ a - b = g - SeqMod
  PROVE  SignedDiff(a, b) = g
<1>1. SeqMod \in Nat \ {0} /\ g \in 0 .. SeqMod - 1 /\ g < SeqMod \div 2
  BY WireAssumption, AccountAssumption
<1>2. (a - b) % SeqMod = g
  BY <1>1, LapBelow
<1> QED  BY <1>1, <1>2 DEF SignedDiff

\* Whatever the numbers, it is an integer.
LEMMA DistanceType ==
  ASSUME NEW a \in 0 .. SeqMod - 1, NEW b \in 0 .. SeqMod - 1
  PROVE  SignedDiff(a, b) \in Int
<1>1. SeqMod \in Nat \ {0} /\ a - b \in Int
  BY WireAssumption
<1>2. (a - b) % SeqMod \in Int
  BY <1>1, SMT
<1> QED  BY <1>1, <1>2 DEF SignedDiff

-----------------------------------------------------------------------------
(* The place of a frame in the stream.                                     *)

\* seq is the number of block n in the numbering that will call the next one s_seq.
Placed(seq, n) == seq + 1 + (blocks - n) \in {s_seq, s_seq + SeqMod}

CountTypes ==
  /\ have_last \in BOOLEAN
  /\ last_seq \in 0 .. SeqMod - 1
  /\ st \in [duplicates: Nat, seq_drops: Nat, resets: Nat, frames_ok: Nat]
  /\ stm_resets \in Nat /\ reinits \in Nat
  /\ blocks \in 0 .. MaxBlocks
  /\ number \in [0 .. 1 -> 0 .. blocks]
  /\ first \in 0 .. newest
  /\ newest \in 0 .. blocks
  /\ blocks - newest <= MaxBehind

\* The frame in the DMA's hands is no older than the newest one accounted, and the
\* one that waits is the newest of all.
StreamOrder ==
  /\ s_tx_idx >= 0 => /\ number[s_tx_idx] >= 1 /\ number[s_tx_idx] >= newest
                      /\ Placed(s_frame[s_tx_idx].seq, number[s_tx_idx])
  /\ s_pending => /\ number[Other(s_tx_idx)] = blocks
                  /\ number[s_tx_idx] < blocks
                  /\ Placed(s_frame[Other(s_tx_idx)].seq, blocks)

\* The Pi's baseline is of the running numbering once every STM32 reset was seen.
Baseline ==
  /\ st.resets <= stm_resets
  /\ have_last => newest >= 1 /\ (st.resets = stm_resets => Placed(last_seq, newest))
  /\ reinits = 0 /\ ~have_last => newest = 0 /\ st.seq_drops = 0 /\ st.frames_ok = 0

AccountInv == TypeOK /\ Handshake /\ CountTypes /\ StreamOrder /\ Baseline /\ DropsExact

\* Nothing was sent yet.
LEMMA AccountInvInit == AccountInit => AccountInv
<1> SUFFICES ASSUME AccountInit PROVE AccountInv
  OBVIOUS
<1>1. TypeOK /\ Handshake
  BY TypeInit DEF AccountInit, StmInit, SendInit, Handshake
<1>2. s_tx_idx = -1 /\ s_pending = FALSE
  BY DEF AccountInit, StmInit, SendInit
<1>a. 0 \in 0 .. SeqMod - 1 /\ 0 \in 0 .. MaxBlocks /\ 0 <= MaxBehind
  BY WireAssumption, AccountAssumption
<1>3. CountTypes
  <2>1. /\ have_last \in BOOLEAN /\ last_seq \in 0 .. SeqMod - 1
        /\ st \in [duplicates: Nat, seq_drops: Nat, resets: Nat, frames_ok: Nat]
        /\ stm_resets \in Nat /\ reinits \in Nat  /\ blocks \in 0 .. MaxBlocks
    BY <1>a DEF AccountInit
  <2>2. number \in [0 .. 1 -> 0 .. blocks]
    BY DEF AccountInit
  <2>3. first \in 0 .. newest /\ newest \in 0 .. blocks /\ blocks - newest <= MaxBehind
    BY <1>a DEF AccountInit
  <2> QED  BY <2>1, <2>2, <2>3 DEF CountTypes
<1>4. StreamOrder /\ Baseline /\ DropsExact
  BY <1>2 DEF AccountInit, StreamOrder, Baseline, DropsExact
<1> QED  BY <1>1, <1>3, <1>4 DEF AccountInv

\* A new block moves every place one further, and takes the next.
LEMMA BlockKeeps ==
  ASSUME AccountInv, Block
  PROVE  CountTypes' /\ StreamOrder' /\ Baseline' /\ DropsExact'
<1> USE DEF AccountInv
<1>0. /\ SeqMod \in Nat \ {0} /\ MaxBehind \in Nat /\ MaxBehind < SeqMod \div 2
      /\ s_seq \in 0 .. SeqMod - 1 /\ s_frame \in [0 .. 1 -> Frame] /\ s_tx_idx \in {-1, 0, 1}
      /\ blocks \in Nat /\ newest \in Nat /\ newest <= blocks
      /\ blocks - newest < MaxBehind
      /\ blocks' = blocks + 1 /\ s_seq' = Inc(s_seq, SeqMod)
      /\ UNCHANGED <<countVars, boundVars>>
  BY WireAssumption, AccountAssumption DEF Block, BlockReady, TypeOK, SendTypeOK, CountTypes
<1>1. PICK b \in 0 .. 1 : b = Other(s_tx_idx) /\ b # s_tx_idx
  BY OtherBuffer
<1>2. /\ number' = [number EXCEPT ![b] = blocks + 1]
      /\ s_frame'[b].seq = s_seq
      /\ \A i \in 0 .. 1 : i # b => s_frame'[i] = s_frame[i]
  BY <1>0, <1>1 DEF Block, BlockReady, AssembledFrame
<1>3. CountTypes'
  <2>1. blocks' \in 0 .. MaxBlocks /\ number' \in [0 .. 1 -> 0 .. blocks'] /\ newest \in 0 .. blocks'
    BY <1>0, <1>2, AccountAssumption DEF CountTypes, Block
  <2>2. blocks' - newest <= MaxBehind
    BY <1>0
  <2> QED  BY <1>0, <2>1, <2>2 DEF CountTypes, countVars, boundVars
<1>4. ASSUME NEW x \in 0 .. SeqMod - 1, NEW n \in newest .. blocks, Placed(x, n)
      PROVE  x + 1 + (blocks' - n) \in {s_seq', s_seq' + SeqMod}
  BY <1>0, <1>4 DEF Placed, Inc
<1>5. s_seq + 1 + (blocks' - blocks') \in {s_seq', s_seq' + SeqMod}
  BY <1>0 DEF Inc
<1>6. StreamOrder'
  <2>1. CASE s_tx_idx < 0
    <3>1. s_tx_idx' \in {b, -1} /\ ~s_pending'
      BY <1>0, <1>1, <2>1 DEF Block, BlockReady, ArmTx, Handshake
    <3>2. number'[b] = blocks' /\ s_frame'[b].seq = s_seq /\ newest' = newest
      BY <1>0, <1>1, <1>2 DEF CountTypes, countVars
    <3>3. Placed(s_frame[b].seq, number[b])'
      BY <1>5, <3>2 DEF Placed
    <3>4. blocks' >= 1 /\ blocks' >= newest
      BY <1>0
    <3>5. ~s_pending'
      BY <3>1
    <3>6. CASE s_tx_idx' = -1
      BY <3>5, <3>6 DEF StreamOrder
    <3>7. CASE s_tx_idx' = b
      BY <3>2, <3>3, <3>4, <3>5, <3>7 DEF StreamOrder
    <3> QED  BY <3>1, <3>6, <3>7
  <2>2. CASE s_tx_idx >= 0
    <3>1. s_tx_idx' = s_tx_idx /\ s_pending' = TRUE
      BY <1>0, <2>2 DEF Block, BlockReady
    <3>2. /\ s_tx_idx \in 0 .. 1
          /\ number'[s_tx_idx] = number[s_tx_idx] /\ s_frame'[s_tx_idx] = s_frame[s_tx_idx]
          /\ number'[b] = blocks' /\ s_frame'[b].seq = s_seq
          /\ number[s_tx_idx] \in newest .. blocks /\ number[s_tx_idx] >= 1
          /\ s_frame[s_tx_idx].seq \in 0 .. SeqMod - 1
      BY <1>0, <1>1, <1>2, <2>2 DEF CountTypes, StreamOrder, Frame
    <3>3. s_frame'[s_tx_idx].seq + 1 + (blocks' - number'[s_tx_idx]) \in {s_seq', s_seq' + SeqMod}
      BY <1>4, <2>2, <3>2 DEF StreamOrder
    <3>4. newest' = newest /\ Other(s_tx_idx') = b /\ number[s_tx_idx] < blocks'
      BY <1>0, <1>1, <3>1, <3>2 DEF countVars
    <3> QED  BY <1>0, <1>5, <3>1, <3>2, <3>3, <3>4 DEF StreamOrder, Placed
  <2> QED  BY <1>0, <2>1, <2>2
<1>7. Baseline'
  BY <1>0, <1>4 DEF Baseline, CountTypes, Placed, countVars, boundVars
<1>8. DropsExact'
  BY <1>0 DEF DropsExact, countVars, boundVars
<1> QED  BY <1>3, <1>6, <1>7, <1>8

\* The other handlers arm what is in place, and a reset drops it all.
LEMMA FirmwareKeeps ==
  ASSUME AccountInv, Firmware \/ FirmwareReset \/ FrameLost
  PROVE  CountTypes' /\ StreamOrder' /\ Baseline' /\ DropsExact'
<1> USE DEF AccountInv
<1>0. s_tx_idx \in {-1, 0, 1} /\ UNCHANGED <<countVars, blocks, number, reinits>>
  BY DEF Firmware, FirmwareReset, FrameLost, TypeOK, SendTypeOK, boundVars
<1>1. CASE FirmwareReset
  <2>1. s_tx_idx' = -1 /\ ~s_pending' /\ stm_resets' = stm_resets + 1
    BY <1>1 DEF FirmwareReset, StmReset
  <2>2. CountTypes' /\ StreamOrder'
    BY <1>0, <2>1 DEF CountTypes, StreamOrder, countVars
  <2>3. st.resets \in Nat /\ stm_resets \in Nat
    BY DEF CountTypes
  <2>4. Baseline' /\ DropsExact'
    BY <1>0, <2>1, <2>3 DEF Baseline, DropsExact, countVars
  <2> QED  BY <2>2, <2>4
<1>2. CASE Firmware \/ FrameLost
  <2>1. UNCHANGED <<s_seq, s_frame, stm_resets>>
    BY <1>2 DEF Firmware, FrameLost, TxRxCplt, SpiError, SpiTransfer, boundVars
  <2>2. CountTypes' /\ Baseline' /\ DropsExact'
    BY <1>0, <2>1 DEF CountTypes, Baseline, DropsExact, Placed, countVars
  <2>3. StreamOrder'
    <3>1. \/ s_tx_idx' = -1 /\ ~s_pending'
          \/ s_tx_idx' = s_tx_idx /\ s_pending' \in {s_pending, FALSE}
          \/ s_tx_idx' = Other(s_tx_idx) /\ s_pending /\ ~s_pending'
      <4>1. CASE FrameLost
        BY <4>1 DEF FrameLost, SpiTransfer
      <4>2. ASSUME NEW ok \in BOOLEAN, TxRxCplt(ok)
            PROVE  \/ s_tx_idx' = -1 /\ ~s_pending'
                   \/ s_tx_idx' = Other(s_tx_idx) /\ s_pending /\ ~s_pending'
        BY <4>2 DEF TxRxCplt, ArmTx, GoIdle, NextToArm
      <4>3. ASSUME NEW ok \in BOOLEAN, SpiError(ok)
            PROVE  \/ s_tx_idx' = -1 /\ ~s_pending'
                   \/ s_tx_idx' = s_tx_idx /\ ~s_pending'
        BY <4>3 DEF SpiError, ArmTx, Handshake
      <4>4. CASE Firmware
        <5>1. PICK ok \in BOOLEAN : TxRxCplt(ok) \/ SpiError(ok)
          BY <4>4 DEF Firmware
        <5>2. CASE TxRxCplt(ok)
          BY <4>2, <5>2
        <5>3. CASE SpiError(ok)
          <6>1. s_tx_idx' = -1 \/ s_tx_idx' = s_tx_idx
            BY <4>3, <5>3
          <6>2. ~s_pending'
            BY <4>3, <5>3
          <6>3. s_pending' \in {s_pending, FALSE}
            BY <5>3 DEF SpiError
          <6> QED  BY <6>1, <6>2, <6>3
        <5> QED  BY <5>1, <5>2, <5>3
      <4> QED  BY <1>2, <4>1, <4>4
    <3>2. newest' = newest /\ number' = number /\ blocks' = blocks
      BY <1>0 DEF countVars
    <3>3. s_pending => blocks >= 1 /\ blocks >= newest /\ s_tx_idx \in 0 .. 1
      BY <1>0 DEF StreamOrder, Handshake, CountTypes
    <3>5. CASE s_tx_idx' = -1 /\ ~s_pending'
      BY <3>5 DEF StreamOrder
    <3>6. CASE s_tx_idx' = s_tx_idx /\ s_pending' \in {s_pending, FALSE}
      <4>1. s_pending' => s_pending
        BY <3>6
      <4>2. s_tx_idx' = s_tx_idx
        BY <3>6
      <4> QED  BY <2>1, <3>2, <4>1, <4>2 DEF StreamOrder, Placed
    <3>7. CASE s_tx_idx' = Other(s_tx_idx) /\ s_pending /\ ~s_pending'
      BY <2>1, <3>2, <3>3, <3>7 DEF StreamOrder, Placed
    <3> QED  BY <3>1, <3>5, <3>6, <3>7
  <2> QED  BY <2>2, <2>3
<1> QED  BY <1>1, <1>2

\* A reinitialised bus has no baseline.
LEMMA ReinitKeeps ==
  ASSUME AccountInv, Reinit
  PROVE  CountTypes' /\ StreamOrder' /\ Baseline' /\ DropsExact'
<1> USE DEF AccountInv
<1>1. /\ have_last' = FALSE /\ reinits' = reinits + 1
      /\ UNCHANGED <<s_seq, s_frame, s_tx_idx, s_pending, last_seq, st, first, newest, blocks, number, stm_resets>>
  BY DEF Reinit, stmVars, sendVars, txVars
<1>2. reinits \in Nat
  BY DEF CountTypes
<1>a. CountTypes'
  <2>1. have_last' \in BOOLEAN
    BY <1>1
  <2>2. reinits' \in Nat
    BY <1>1, <1>2
  <2> QED  BY <1>1, <2>1, <2>2 DEF CountTypes
<1>3. StreamOrder'
  BY <1>1 DEF StreamOrder, Placed
<1>4. Baseline' /\ DropsExact'
  BY <1>1, <1>2 DEF Baseline, DropsExact
<1> QED  BY <1>a, <1>3, <1>4

\* A frame is accounted: the baseline moves to it.
LEMMA FrameKeeps ==
  ASSUME AccountInv, FrameAccounted
  PROVE  /\ CountTypes' /\ StreamOrder' /\ Baseline' /\ DropsExact'
         /\ stm_resets = 0 /\ reinits = 0 /\ st'.frames_ok # st.frames_ok => newest' > newest
<1> USE DEF AccountInv
<1>1. PICK f \in Frame, n \in 0 .. blocks :
        /\ s_tx_idx \in 0 .. 1 /\ f = s_frame[s_tx_idx] /\ n = number[s_tx_idx]
        /\ n >= 1 /\ n >= newest /\ Placed(f.seq, n)
        /\ Account(f, n)
        /\ UNCHANGED <<s_seq, s_frame, s_tx_idx, s_pending, blocks, number, stm_resets, reinits>>
  <2>1. s_tx_idx \in 0 .. 1
    BY DEF FrameAccounted, SpiTransfer, Handshake, TypeOK, SendTypeOK
  <2>2. s_frame[s_tx_idx] \in Frame /\ number[s_tx_idx] \in 0 .. blocks
    BY <2>1 DEF TypeOK, SendTypeOK, CountTypes
  <2>3. UNCHANGED <<s_seq, s_frame, s_tx_idx, s_pending, blocks, number, stm_resets, reinits>>
    BY DEF FrameAccounted, SpiTransfer, boundVars
  <2>4. /\ number[s_tx_idx] >= 1 /\ number[s_tx_idx] >= newest
        /\ Placed(s_frame[s_tx_idx].seq, number[s_tx_idx])
    BY <2>1 DEF StreamOrder
  <2>5. Account(s_frame[s_tx_idx], number[s_tx_idx])
    BY DEF FrameAccounted
  <2> QED  BY <2>1, <2>2, <2>3, <2>4, <2>5
<1>2. /\ f.seq \in 0 .. SeqMod - 1 /\ SeqMod \in Nat \ {0} /\ s_seq \in 0 .. SeqMod - 1
      /\ blocks \in Nat /\ newest \in Nat /\ newest <= blocks /\ blocks - newest <= MaxBehind
      /\ last_seq \in 0 .. SeqMod - 1 /\ MaxBehind \in Nat
      /\ stm_resets \in Nat
  BY WireAssumption, AccountAssumption DEF Frame, CountTypes, TypeOK, SendTypeOK
<1>3. PICK diff \in Int : diff = SignedDiff(f.seq, last_seq)
  BY <1>2, DistanceType
<1>4. /\ st.seq_drops \in Nat /\ st.duplicates \in Nat /\ st.resets \in Nat /\ st.frames_ok \in Nat
  BY DEF CountTypes
<1>5. /\ have_last' = TRUE /\ last_seq' = f.seq
      /\ newest' = n /\ first' = IF have_last THEN first ELSE n
      /\ st'.seq_drops = st.seq_drops + (IF have_last /\ diff > 1 THEN diff - 1 ELSE 0)
      /\ st'.resets = st.resets + (IF have_last /\ diff < 0 THEN 1 ELSE 0)
      /\ st'.frames_ok = st.frames_ok + (IF ~have_last \/ diff # 0 THEN 1 ELSE 0)
  BY <1>1, <1>3 DEF Account, Drops, Published
<1>6. st' \in [duplicates: Nat, seq_drops: Nat, resets: Nat, frames_ok: Nat]
  <2>1. /\ st.duplicates + (IF have_last /\ diff = 0 THEN 1 ELSE 0) \in Nat
        /\ st.seq_drops + (IF have_last /\ diff > 1 THEN diff - 1 ELSE 0) \in Nat
        /\ st.resets + (IF have_last /\ diff < 0 THEN 1 ELSE 0) \in Nat
        /\ st.frames_ok + (IF ~have_last \/ diff # 0 THEN 1 ELSE 0) \in Nat
    BY <1>3, <1>4
  <2> QED  BY <1>1, <1>3, <2>1 DEF Account, Drops, Published
<1>7. have_last /\ st.resets = stm_resets => diff = n - newest
  <2> SUFFICES ASSUME have_last, st.resets = stm_resets PROVE diff = n - newest
    OBVIOUS
  <2>1. Placed(last_seq, newest)
    BY DEF Baseline
  <2>2. PICK g \in 0 .. MaxBehind : g = n - newest
    BY <1>1, <1>2
  <2>3. f.seq - last_seq = g \/ f.seq - last_seq = g - SeqMod
    BY <1>1, <1>2, <2>1, <2>2 DEF Placed
  <2> QED  BY <1>2, <1>3, <2>2, <2>3, DistanceAhead
<1>8. CountTypes'
  <2>1. have_last' \in BOOLEAN /\ last_seq' \in 0 .. SeqMod - 1
    BY <1>2, <1>5
  <2>2. newest' \in 0 .. blocks /\ blocks - newest' <= MaxBehind
    BY <1>1, <1>2, <1>5
  <2>3. first' \in 0 .. newest'
    BY <1>1, <1>2, <1>5 DEF CountTypes
  <2> QED  BY <1>1, <1>6, <2>1, <2>2, <2>3 DEF CountTypes
<1>9. StreamOrder'
  BY <1>1, <1>5 DEF StreamOrder, Placed
<1>10. Baseline'
  <2>1. st'.resets <= stm_resets
    BY <1>1, <1>2, <1>4, <1>5, <1>7 DEF Baseline
  <2>2. Placed(last_seq, newest)'
    BY <1>1, <1>5 DEF Placed
  <2> QED  BY <1>1, <1>5, <2>1, <2>2 DEF Baseline
<1>11. DropsExact' /\ (stm_resets = 0 /\ reinits = 0 /\ st'.frames_ok # st.frames_ok => newest' > newest)
  <2> SUFFICES ASSUME stm_resets = 0, reinits = 0
               PROVE  /\ st'.seq_drops + st'.frames_ok = newest' - first' + 1
                      /\ st'.frames_ok # st.frames_ok => newest' > newest
    BY <1>1 DEF DropsExact
  <2>1. st.resets = stm_resets
    BY <1>4 DEF Baseline
  <2>2. CASE have_last
    <3>1. diff = n - newest /\ st.seq_drops + st.frames_ok = newest - first + 1 /\ first \in Nat
      BY <1>7, <2>1, <2>2 DEF DropsExact, CountTypes
    <3> QED  BY <1>1, <1>2, <1>4, <1>5, <2>2, <3>1
  <2>3. CASE ~have_last
    <3>1. newest = 0 /\ st.seq_drops = 0 /\ st.frames_ok = 0
      BY <2>3 DEF Baseline
    <3> QED  BY <1>1, <1>2, <1>4, <1>5, <2>3, <3>1
  <2> QED  BY <2>2, <2>3
<1> QED  BY <1>8, <1>9, <1>10, <1>11

-----------------------------------------------------------------------------
(* The properties.                                                          *)

\* The invariant is inductive, and frames are published in order.
LEMMA AccountInvStep ==
  AccountInv /\ [AccountNext]_accountVars
    => /\ AccountInv'
       /\ stm_resets = 0 /\ reinits = 0 /\ st'.frames_ok # st.frames_ok => newest' > newest
<1> SUFFICES ASSUME AccountInv, [AccountNext]_accountVars
             PROVE  /\ AccountInv'
                    /\ stm_resets = 0 /\ reinits = 0 /\ st'.frames_ok # st.frames_ok => newest' > newest
  OBVIOUS
<1>1. TypeOK' /\ Handshake'
  BY AccountIsFirmwareStep, TypeFirmware, HandshakeFirmware DEF AccountInv
<1>2. CASE FrameAccounted
  BY <1>1, <1>2, FrameKeeps DEF AccountInv
<1>3. CASE Block \/ Firmware \/ FirmwareReset \/ FrameLost \/ Reinit
  <2>1. st' = st
    BY <1>3 DEF Block, Firmware, FirmwareReset, FrameLost, Reinit, countVars
  <2> QED  BY <1>1, <1>3, <2>1, BlockKeeps, FirmwareKeeps, ReinitKeeps DEF AccountInv
<1>4. CASE UNCHANGED accountVars
  <2>1. UNCHANGED <<s_seq, s_frame, s_tx_idx, s_pending, have_last, last_seq, st, first, newest, blocks,
                    number, stm_resets, reinits>>
    BY <1>4 DEF accountVars, stmVars, sendVars, txVars, countVars, boundVars
  <2>2. CountTypes'
    BY <2>1 DEF AccountInv, CountTypes
  <2>3. StreamOrder' /\ Baseline' /\ DropsExact'
    BY <2>1 DEF AccountInv, StreamOrder, Baseline, DropsExact, Placed
  <2> QED  BY <1>1, <2>1, <2>2, <2>3 DEF AccountInv
<1> QED  BY <1>2, <1>3, <1>4 DEF AccountNext

\* It holds in every state.
LEMMA AccountInvHolds == AccountSpec => []AccountInv
<1>1. AccountInv /\ [AccountNext]_accountVars => AccountInv'
  BY AccountInvStep
<1> QED  BY <1>1, AccountInvInit, PTL DEF AccountSpec

(* The counters, the baseline and the range of what was published keep      *)
(* their types.                                                             *)
THEOREM AccountTypeCorrect == AccountSpec => []AccountTypeOK
<1>1. AccountInv => AccountTypeOK
  <2> SUFFICES ASSUME AccountInv PROVE AccountTypeOK
    OBVIOUS
  <2>1. blocks \in 0 .. MaxBlocks /\ MaxBlocks \in Nat /\ number \in [0 .. 1 -> 0 .. blocks]
    BY AccountAssumption DEF AccountInv, CountTypes
  <2>2. number \in [0 .. 1 -> 0 .. MaxBlocks]
    BY <2>1
  <2>3. first \in 0 .. MaxBlocks /\ newest \in first .. MaxBlocks
    BY <2>1 DEF AccountInv, CountTypes
  <2> QED  BY <2>1, <2>2, <2>3 DEF AccountInv, CountTypes, AccountTypeOK
<1> QED  BY <1>1, AccountInvHolds, PTL

(* What the Pi reports as dropped is what is missing, across any number of  *)
(* wraps of the 32-bit numbers and whatever lost the frames.                *)
THEOREM DropsAreExact == AccountSpec => []DropsExact
<1>1. AccountInv => DropsExact
  BY DEF AccountInv
<1> QED  BY <1>1, AccountInvHolds, PTL

(* A wrap, a gap or a retransmission is never reported as a reset, and no    *)
(* reset of the STM32 twice.                                                *)
THEOREM ResetsAreReal == AccountSpec => []NoFalseReset
<1>1. AccountInv => NoFalseReset
  BY DEF AccountInv, Baseline, NoFalseReset
<1> QED  BY <1>1, AccountInvHolds, PTL

(* No block is published twice or after a newer one.                        *)
THEOREM PublishesInOrder == AccountSpec => PublishedInOrder
<1>1. AccountInv /\ [AccountNext]_accountVars
        => [stm_resets = 0 /\ reinits = 0 /\ st'.frames_ok # st.frames_ok => newest' > newest]_accountVars
  BY AccountInvStep
<1> QED  BY <1>1, AccountInvHolds, PTL DEF AccountSpec, PublishedInOrder

=============================================================================
