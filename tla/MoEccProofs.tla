----------------------------- MODULE MoEccProofs -----------------------------
(***************************************************************************)
(* Proofs about MoEcc for operations of any length and any number of       *)
(* engine steps between two sectors that is enough for one buffer.         *)
(*                                                                         *)
(* The invariant follows an operation by the sectors that have passed and  *)
(* says for every stage of the engine how many blocks it is ahead, whose   *)
(* block is in which buffer, and how long ago the last sector was: the     *)
(* engine is in time because each stage bounds since.                      *)
(***************************************************************************)
EXTENDS MoEcc, TLAPS

InOrder(s) == \A i \in DOMAIN s : s[i] = i
Sectors == total - sector_count
Odd(n) == n % 2 = 1
Nothing == coded = 0 /\ taken = 0 /\ moved = <<>>

\* With ECC_BLOCKS, of every two blocks the first one repeats.
Repeats(n) == ecc.repeat <=> blocks /\ Odd(n)

-----------------------------------------------------------------------------
\* Which command the engine works on, in any operation and after any reset.
EngineFits ==
  /\ sector_count <= total
  /\ fmt_mode # "IDLE" => sector_count > 0
  /\ ecc.state # "DONE" => ecc.armed
  /\ ecc.state \in {"FILLING", "WAITING"} => ecc.mode = "WRITE"
  /\ ecc.state = "DRAINING" => ecc.mode = "READ"
  /\ fmt_mode \in {"READ", "VERIFY"} /\ ecc.state # "DONE" => ecc.mode = fmt_mode
  /\ fmt_mode \in {"ERASE", "READ_ID"} => ecc.state = "DONE"
  /\ fmt_mode = "WRITE" => IF write_timing THEN ecc.state # "DONE" /\ ecc.mode = "WRITE"
                           ELSE ecc.state = "DONE"

\* What the limits of the buffers say, in any operation and after any reset.
BuffersFit ==
  /\ \A i \in {0, 1} : ecc.buf[i].size = DISK => ecc.buf[i].limit = DISK
  /\ ecc.state = "FILLING" => ecc.buf[In].size = EMPTY
  /\ ecc.state = "ECCING" /\ ecc.mode = "WRITE" => ecc.buf[In].limit = DATA

\* A write before its first buffer is asked for.
Unfilled ==
  fmt_mode = "WRITE" /\ ~write_timing =>
    Nothing /\ dma = total /\ sector_count = total /\ (clean => ~ecc.repeat)

\* The engine fills and codes one block ahead of the sectors written, and is done
\* with that three steps after the last one.
Writing ==
  ecc.state # "DONE" /\ ecc.mode = "WRITE" /\ (clean \/ fmt_mode = "WRITE") =>
    /\ taken + dma = total
    /\ Len(moved) = Sectors /\ InOrder(moved)
    /\ \/ /\ ecc.state = "FILLING" /\ since <= 1 /\ sector_count > 0
          /\ taken = Sectors /\ coded = Sectors
          /\ clean => Repeats(Sectors + 1)
       \/ /\ ecc.state = "ECCING" /\ since <= 2 /\ sector_count > 0
          /\ taken = Sectors + 1 /\ coded = Sectors /\ ecc.buf[In].block = taken
          /\ clean => Repeats(Sectors + 1)
       \/ /\ ecc.state = "WAITING" /\ sector_count > 0
          /\ taken = Sectors + 1 /\ coded = Sectors + 1
          /\ ecc.buf[Out] = Buffer(DISK, DISK, taken)
          /\ clean => Repeats(Sectors + 1)
       \/ /\ ecc.state = "WAITING" /\ since = 0 /\ Sectors > 0
          /\ taken = Sectors /\ coded = Sectors /\ ecc.buf[Out].size = EMPTY
          /\ clean => Repeats(Sectors)

\* The engine decodes the sector that was read last and moves it to memory, and is
\* done with that two steps later.
Reading ==
  clean /\ ecc.state # "DONE" /\ ecc.mode = "READ" =>
    /\ Len(moved) + dma = total /\ Sectors > 0 /\ taken = 0
    /\ \/ /\ ecc.state = "ECCING" /\ since = 0
          /\ ecc.buf[In] = Buffer(DISK, DISK, Sectors) /\ ecc.buf[Out].size # DISK
          /\ coded = Sectors - 1 /\ Len(moved) = Sectors - 1 /\ Repeats(Sectors)
       \/ /\ ecc.state = "DRAINING" /\ since <= 1
          /\ ecc.buf[Out] = Buffer(DATA, DATA, Sectors) /\ ecc.buf[In].size # DISK
          /\ coded = Sectors /\ Len(moved) = Sectors - 1 /\ Repeats(Sectors)
       \/ /\ ecc.state = "ECCING" /\ ecc.buf[In].size # DISK /\ ecc.buf[Out].size # DISK
          /\ coded = Sectors /\ Len(moved) = Sectors
          /\ ~ecc.repeat /\ blocks /\ Odd(Sectors)

Verifying ==
  clean /\ ecc.state # "DONE" /\ ecc.mode = "VERIFY" =>
    /\ ecc.state = "ECCING" /\ since = 0 /\ ~ecc.repeat
    /\ Sectors > 0 /\ taken = 0 /\ coded = Sectors - 1 /\ Len(moved) = Sectors - 1
    /\ ecc.buf[In] = Buffer(DISK, DISK, Sectors) /\ ecc.buf[Out].size # DISK

\* At rest the engine has done what was asked for.
Resting ==
  clean /\ ecc.state = "DONE" =>
    /\ Nothing \/ Len(moved) = Sectors
    /\ fmt_mode \in {"ERASE", "READ_ID"} => Nothing
    /\ fmt_mode \in {"READ", "VERIFY"} =>
         /\ taken = 0 /\ coded = Sectors /\ Len(moved) = Sectors /\ ~ecc.repeat
         /\ \A i \in {0, 1} : ecc.buf[i].size # DISK
         /\ fmt_mode = "READ" => Len(moved) + dma = total /\ ~(blocks /\ Odd(Sectors))

\* Conditions of an operation that lasts: an even number of blocks with ECC_BLOCKS,
\* whatever was moved was next, and no end of the operation is told before it.
Lasting ==
  clean =>
    /\ fmt_mode # "IDLE" \/ ecc.state # "DONE" => ~(blocks /\ Odd(total))
    /\ InOrder(moved)
    /\ "OPER_COMPL" \in events =>
         \/ sector_count = 0
         \/ Nothing /\ ecc.state = "DONE" /\ fmt_mode \in {"IDLE", "READ_ID"}

IInv == /\ TypeOK /\ EngineFits /\ BuffersFit
        /\ Unfilled /\ Writing /\ Reading /\ Verifying /\ Resting
        /\ Lasting /\ EventsTrue

-----------------------------------------------------------------------------
(***************************************************************************)
(* What the commands of the engine do, field by field.                     *)
(***************************************************************************)

\* A step that replaces one buffer.
LEMMA BufferSet ==
  ASSUME NEW e \in Engine, NEW i \in {0, 1}, NEW b \in Buffers, NEW s \in States
  PROVE  /\ [e EXCEPT !.buf[i] = b, !.state = s] \in Engine
         /\ [e EXCEPT !.buf[i] = b, !.state = s].state = s
         /\ [e EXCEPT !.buf[i] = b, !.state = s].mode = e.mode
         /\ [e EXCEPT !.buf[i] = b, !.state = s].repeat = e.repeat
         /\ [e EXCEPT !.buf[i] = b, !.state = s].armed = e.armed
         /\ [e EXCEPT !.buf[i] = b, !.state = s].in = e.in
         /\ [e EXCEPT !.buf[i] = b, !.state = s].buf = [e.buf EXCEPT ![i] = b]
         /\ [e EXCEPT !.buf[i] = b, !.state = s].buf[i] = b
BY DEF Engine

LEMMA Other == In \in {0, 1} => Out \in {0, 1} /\ Out # In
BY DEF In, Out

\* ecc_write, for an engine at rest and for a busy one.
LEMMA EccWriteDoes ==
  ASSUME NEW e \in Engine, blocks \in BOOLEAN
  PROVE  /\ EccWrite(e) \in Engine
         /\ e.state # "DONE" => EccWrite(e) = e
         /\ e.state = "DONE" =>
              /\ EccWrite(e).state = "FILLING" /\ EccWrite(e).mode = "WRITE"
              /\ EccWrite(e).armed /\ EccWrite(e).in = e.in
              /\ EccWrite(e).repeat <=> e.repeat \/ blocks
              /\ EccWrite(e).buf = [e.buf EXCEPT ![e.in] = Buffer(EMPTY, DATA, 0)]
BY DEF EccWrite, Engine, States, Buffers, Buffer, EMPTY, DATA, DISK

\* ecc_read, ecc_verify.
LEMMA EccReadDoes ==
  ASSUME NEW e \in Engine, blocks \in BOOLEAN
  PROVE  /\ EccRead(e) \in Engine
         /\ e.state # "DONE" => EccRead(e) = e
         /\ e.state = "DONE" =>
              /\ EccRead(e).state = "ECCING" /\ EccRead(e).mode = "READ"
              /\ EccRead(e).armed /\ EccRead(e).in = e.in
              /\ EccRead(e).repeat <=> e.repeat \/ blocks
              /\ EccRead(e).buf = e.buf
BY DEF EccRead, Engine, States

LEMMA EccVerifyDoes ==
  ASSUME NEW e \in Engine
  PROVE  /\ EccVerify(e) \in Engine
         /\ e.state # "DONE" => EccVerify(e) = e
         /\ e.state = "DONE" =>
              /\ EccVerify(e).state = "ECCING" /\ EccVerify(e).mode = "VERIFY"
              /\ EccVerify(e).armed /\ EccVerify(e).in = e.in
              /\ EccVerify(e).repeat <=> e.repeat
              /\ EccVerify(e).buf = e.buf
BY DEF EccVerify, Engine, States

\* ecc_sequence_done.
LEMMA SequenceDoneDoes ==
  ASSUME NEW e \in Engine
  PROVE  /\ SequenceDone(e) \in Engine
         /\ SequenceDone(e).mode = e.mode /\ SequenceDone(e).in = e.in
         /\ ~SequenceDone(e).repeat
         /\ ~e.repeat => /\ SequenceDone(e).state = "DONE"
                         /\ SequenceDone(e).buf = e.buf
         /\ e.repeat => SequenceDone(e).armed
         /\ e.repeat /\ e.mode # "WRITE" => /\ SequenceDone(e).state = "ECCING"
                                            /\ SequenceDone(e).buf = e.buf
         /\ e.repeat /\ e.mode = "WRITE" =>
              /\ SequenceDone(e).state = "FILLING"
              /\ SequenceDone(e).buf = [e.buf EXCEPT ![e.in].size = EMPTY]
<1>1. CASE ~e.repeat
  BY <1>1 DEF SequenceDone, Engine, States
<1>2. CASE e.repeat /\ e.mode # "WRITE"
  BY <1>2 DEF SequenceDone, Engine, States
<1>3. CASE e.repeat /\ e.mode = "WRITE"
  <2> DEFINE b == [e.buf EXCEPT ![e.in].size = EMPTY]
             r == [e EXCEPT !.repeat = FALSE, !.armed = TRUE, !.state = "FILLING",
                            !.buf = b]
  <2>1. SequenceDone(e) = r
    BY <1>3 DEF SequenceDone, Engine, States
  <2>2. b \in [{0, 1} -> Buffers]
    BY DEF Engine, Buffers, EMPTY, DATA, DISK
  <2> HIDE DEF b
  <2>3. r \in Engine
    BY <2>2 DEF Engine, States
  <2>4. /\ r.mode = e.mode /\ r.in = e.in /\ ~r.repeat /\ r.armed
        /\ r.state = "FILLING" /\ r.buf = b
    BY DEF Engine
  <2> QED BY <1>3, <2>1, <2>3, <2>4 DEF b
<1> QED BY <1>1, <1>2, <1>3

LEMMA SteppedIs == TypeOK => /\ Stepped \in Engine /\ ~Stepped.armed
                             /\ Stepped.state = ecc.state /\ Stepped.mode = ecc.mode
                             /\ Stepped.repeat = ecc.repeat /\ Stepped.in = ecc.in
                             /\ Stepped.buf = ecc.buf
BY DEF Stepped, TypeOK, Engine

LEMMA AppendInOrder ==
  ASSUME NEW s \in Seq(Nat), InOrder(s)
  PROVE  /\ InOrder(Append(s, Len(s) + 1))
         /\ Len(Append(s, Len(s) + 1)) = Len(s) + 1
         /\ Append(s, Len(s) + 1) \in Seq(Nat)
BY DEF InOrder

LEMMA NextIsOdd == ASSUME NEW n \in Nat PROVE Odd(n + 1) <=> ~Odd(n)
BY DEF Odd

-----------------------------------------------------------------------------
(***************************************************************************)
(* The steps of the engine keep the invariant.                             *)
(***************************************************************************)

LEMMA HandlerKeeps ==
  ASSUME TypeOK, ECC_IO_Handler
  PROVE  /\ ecc.armed /\ since' \in 0..Steps /\ since' <= since + 1
         /\ UNCHANGED <<fmt_mode, sector_count, write_timing, gap, blocks, total, clean>>
BY StepAssumption DEF ECC_IO_Handler, TypeOK, fmt, op

LEMMA FillingKeeps ==
  ASSUME IInv, ECC_IO_Handler, Filling
  PROVE  IInv'
<1>1. /\ TypeOK /\ EngineFits /\ BuffersFit /\ Writing /\ Lasting /\ Unfilled /\ EventsTrue
      /\ ecc.armed /\ since' \in 0..Steps /\ since' <= since + 1
      /\ UNCHANGED <<fmt_mode, sector_count, write_timing, gap, blocks, total, clean>>
  BY HandlerKeeps DEF IInv
<1>2. /\ ecc.state = "FILLING" /\ ecc.mode = "WRITE" /\ UNCHANGED <<coded, moved>>
  BY <1>1 DEF Filling, EngineFits
<1>3. fmt_mode = "WRITE" => write_timing
  BY <1>1, <1>2 DEF EngineFits
<1>4. CASE dma > 0
  <2>1. /\ ecc' = [ecc EXCEPT !.buf[In] = Buffer(DATA, DATA, taken + 1), !.state = "ECCING"]
        /\ dma' = dma - 1 /\ taken' = taken + 1 /\ UNCHANGED events
    BY <1>1, <1>4 DEF Filling, Signal, TypeOK
  <2> DEFINE b == Buffer(DATA, DATA, taken + 1)
  <2>b. b \in Buffers /\ b.size = DATA /\ b.limit = DATA /\ b.block = taken + 1
    BY <1>1 DEF TypeOK, Buffers, Buffer, EMPTY, DATA, DISK
  <2>c. ecc \in Engine /\ ecc.in \in {0, 1} /\ "ECCING" \in States
    BY <1>1 DEF TypeOK, Engine, States
  <2>2. /\ ecc' \in Engine /\ ecc'.state = "ECCING" /\ ecc'.mode = "WRITE"
        /\ ecc'.repeat = ecc.repeat /\ ecc'.armed /\ ecc'.in = ecc.in
        /\ ecc'.buf = [ecc.buf EXCEPT ![ecc.in] = b]
        /\ ecc'.buf[ecc.in] = b
    <3> HIDE DEF b
    <3>1. ecc' = [ecc EXCEPT !.buf[ecc.in] = b, !.state = "ECCING"]
      BY <2>1 DEF In, b
    <3> DEFINE r == [ecc EXCEPT !.buf[ecc.in] = b, !.state = "ECCING"]
    <3>2. /\ r \in Engine /\ r.state = "ECCING" /\ r.mode = ecc.mode
          /\ r.repeat = ecc.repeat /\ r.armed = ecc.armed /\ r.in = ecc.in
          /\ r.buf = [ecc.buf EXCEPT ![ecc.in] = b] /\ r.buf[ecc.in] = b
      BY <2>b, <2>c DEF Engine
    <3> QED BY <3>1, <3>2, <1>1, <1>2
  <2> HIDE DEF b
  <2>3. TypeOK'
    BY <2>1, <2>2, <1>1, <1>2, <1>4 DEF TypeOK
  <2>4. EngineFits'
    BY <2>1, <2>2, <1>1, <1>2 DEF EngineFits
  <2>5. BuffersFit'
    BY <2>2, <2>b, <1>1 DEF BuffersFit, TypeOK, Engine, In, DATA, DISK
  <2>6. Unfilled'
    BY <1>1, <1>3 DEF Unfilled
  <2>7. Writing'
    <3>1. SUFFICES ASSUME clean \/ fmt_mode = "WRITE"
                   PROVE  Writing'
      BY <1>1 DEF Writing
    <3>2. /\ taken + dma = total /\ Len(moved) = Sectors /\ InOrder(moved)
          /\ since <= 1 /\ sector_count > 0 /\ taken = Sectors /\ coded = Sectors
          /\ clean => Repeats(Sectors + 1)
      BY <3>1, <1>1, <1>2 DEF Writing
    <3>3. Sectors' = Sectors /\ (Repeats(Sectors + 1) => Repeats(Sectors + 1)')
      BY <1>1, <2>2 DEF Sectors, Repeats
    <3>4. /\ taken' + dma' = total' /\ taken' = Sectors' + 1 /\ coded' = Sectors'
          /\ since' <= 2 /\ ecc'.buf[ecc'.in].block = taken'
      BY <1>1, <1>2, <2>1, <2>2, <2>b, <3>2, <3>3 DEF TypeOK
    <3> QED BY <1>1, <1>2, <2>2, <3>2, <3>3, <3>4 DEF Writing, In
  <2>8. Reading' /\ Verifying' /\ Resting'
    BY <2>2 DEF Reading, Verifying, Resting
  <2>9. Lasting' /\ EventsTrue'
    BY <2>1, <2>2, <1>1, <1>2 DEF Lasting, EventsTrue, Nothing
  <2> QED BY <2>3, <2>4, <2>5, <2>6, <2>7, <2>8, <2>9 DEF IInv
<1>5. CASE dma = 0
  <2>1. /\ ecc' = [ecc EXCEPT !.buf[In].limit = DATA]
        /\ events' = events \cup {"STARVE"} /\ UNCHANGED <<dma, taken>>
    BY <1>5 DEF Filling, Signal
  <2>2. ~clean /\ fmt_mode # "WRITE"
    BY <1>1, <1>2, <1>5 DEF Writing, TypeOK, Sectors
  <2>3. /\ ecc' \in Engine /\ ecc'.state = "FILLING" /\ ecc'.mode = "WRITE"
        /\ ecc'.armed /\ ecc'.in = ecc.in
        /\ ecc'.buf = [ecc.buf EXCEPT ![ecc.in] = [@ EXCEPT !.limit = DATA]]
    BY <2>1, <1>1, <1>2 DEF TypeOK, Engine, Buffers, In, DATA, DISK
  <2>4. TypeOK'
    BY <2>1, <2>3, <1>1, <1>2 DEF TypeOK
  <2>5. EngineFits'
    BY <2>1, <2>3, <1>1, <1>2 DEF EngineFits
  <2>6. BuffersFit'
    BY <2>3, <1>1, <1>2 DEF BuffersFit, TypeOK, Engine, Buffers, In, EMPTY, DATA, DISK
  <2>7. /\ Unfilled' /\ Writing' /\ Reading' /\ Verifying' /\ Resting'
        /\ Lasting' /\ EventsTrue'
    BY <2>2, <1>1 DEF Unfilled, Writing, Reading, Verifying, Resting, Lasting, EventsTrue
  <2> QED BY <2>4, <2>5, <2>6, <2>7 DEF IInv
<1> QED BY <1>1, <1>4, <1>5 DEF TypeOK

LEMMA EncodingKeeps ==
  ASSUME IInv, ECC_IO_Handler, Encoding
  PROVE  IInv'
<1>1. /\ TypeOK /\ EngineFits /\ BuffersFit /\ Writing /\ Lasting /\ Unfilled /\ EventsTrue
      /\ ecc.armed /\ since' \in 0..Steps /\ since' <= since + 1
      /\ UNCHANGED <<fmt_mode, sector_count, write_timing, gap, blocks, total, clean>>
  BY HandlerKeeps DEF IInv
<1>2. /\ ecc.state = "ECCING" /\ ecc.mode = "WRITE" /\ ecc.buf[In].limit = DATA
      /\ UNCHANGED <<dma, taken, moved>> /\ coded' = coded + 1
      /\ events' = events \cup (IF sector_count = 1 THEN {"ECC_DONE"} ELSE {})
  BY DEF Encoding, Signal
<1>3. fmt_mode = "WRITE" => write_timing
  BY <1>1, <1>2 DEF EngineFits
<1> DEFINE b == Buffer(DISK, DISK, ecc.buf[In].block)
<1>4. /\ ecc' \in Engine /\ ecc'.state = "WAITING" /\ ecc'.mode = "WRITE"
      /\ ecc'.repeat = ecc.repeat /\ ecc'.armed /\ ecc'.in = Out
      /\ ecc'.buf = [ecc.buf EXCEPT ![ecc.in] = b]
      /\ ecc'.buf[ecc.in] = b /\ b.size = DISK /\ b.limit = DISK
  BY <1>1, <1>2 DEF Encoding, TypeOK, Engine, Buffers, States, In, Out, Buffer, EMPTY, DATA, DISK
<1> HIDE DEF b
<1>5. TypeOK'
  BY <1>1, <1>2, <1>4 DEF TypeOK
<1>6. EngineFits'
  BY <1>1, <1>2, <1>4 DEF EngineFits
<1>7. BuffersFit'
  BY <1>1, <1>4 DEF BuffersFit, TypeOK, Engine
<1>8. Unfilled'
  BY <1>1, <1>3 DEF Unfilled
<1>9. Writing'
  BY <1>1, <1>2, <1>4 DEF Writing, TypeOK, Engine, In, Out, Sectors, Repeats, b
<1>10. Reading' /\ Verifying' /\ Resting'
  BY <1>4 DEF Reading, Verifying, Resting
<1>11. Lasting'
  BY <1>1, <1>2, <1>4 DEF Lasting, Nothing
<1>12. EventsTrue'
  BY <1>1, <1>2 DEF EventsTrue, Writing, TypeOK, Sectors
<1> QED BY <1>5, <1>6, <1>7, <1>8, <1>9, <1>10, <1>11, <1>12 DEF IInv

LEMMA WaitingForReadKeeps ==
  ASSUME IInv, ECC_IO_Handler, WaitingForRead
  PROVE  IInv'
<1>1. /\ TypeOK /\ EngineFits /\ BuffersFit /\ Reading /\ Verifying /\ Lasting
      /\ Unfilled /\ EventsTrue
      /\ ecc.armed /\ since' \in 0..Steps /\ since' <= since + 1
      /\ UNCHANGED <<fmt_mode, sector_count, write_timing, gap, blocks, total, clean>>
  BY HandlerKeeps DEF IInv
<1>2. /\ ecc.state = "ECCING" /\ ecc.mode # "WRITE" /\ ecc.buf[In].size # DISK
      /\ UNCHANGED <<ecc, dma, events, taken, coded, moved>>
  BY DEF WaitingForRead, data
<1>3. TypeOK'
  BY <1>1, <1>2 DEF TypeOK
<1>4. EngineFits' /\ BuffersFit'
  BY <1>1, <1>2 DEF EngineFits, BuffersFit, In
<1>5. Unfilled' /\ Writing' /\ Resting'
  BY <1>1, <1>2 DEF Unfilled, Writing, Resting, Nothing
<1>6. Reading' /\ Verifying'
  <2>1. Buffer(DISK, DISK, Sectors).size = DISK
    BY DEF Buffer
  <2>2. Sectors' = Sectors /\ In' = In /\ Out' = Out
    BY <1>1, <1>2 DEF Sectors, In, Out
  <2> QED BY <1>1, <1>2, <2>1, <2>2 DEF Reading, Verifying
<1>7. Lasting' /\ EventsTrue'
  BY <1>1, <1>2 DEF Lasting, EventsTrue, Nothing
<1> QED BY <1>3, <1>4, <1>5, <1>6, <1>7 DEF IInv

LEMMA DecodingKeeps ==
  ASSUME IInv, ECC_IO_Handler, Decoding
  PROVE  IInv'
<1>1. /\ TypeOK /\ EngineFits /\ BuffersFit /\ Reading /\ Verifying /\ Lasting
      /\ Unfilled /\ EventsTrue
      /\ ecc.armed /\ since' \in 0..Steps /\ since' <= since + 1
      /\ UNCHANGED <<fmt_mode, sector_count, write_timing, gap, blocks, total, clean>>
  BY HandlerKeeps DEF IInv
<1>2. /\ ecc.state = "ECCING" /\ ecc.mode # "WRITE" /\ ecc.buf[In].size = DISK
      /\ UNCHANGED <<dma, taken>> /\ coded' = coded + 1
      /\ events' = events \cup (IF sector_count = 0 THEN {"ECC_DONE"} ELSE {})
  BY DEF Decoding, Signal
<1>3. fmt_mode # "WRITE" /\ fmt_mode \notin {"ERASE", "READ_ID"}
  BY <1>1, <1>2 DEF EngineFits
<1>4. Sectors' = Sectors /\ Sectors \in 0..total /\ (sector_count = 0 <=> Sectors = total)
  BY <1>1 DEF Sectors, TypeOK, EngineFits
<1>5. /\ ecc.in \in {0, 1} /\ Out \in {0, 1} /\ Out # ecc.in /\ ecc.buf[In] \in Buffers
      /\ ecc.buf \in [{0, 1} -> Buffers] /\ ecc \in Engine
  BY <1>1 DEF TypeOK, Engine, In, Out
<1>6. CASE ecc.mode = "VERIFY"
  <2> DEFINE e == [Stepped EXCEPT !.in = Out, !.buf = Cleared]
  <2>1. ecc' = SequenceDone(e) /\ moved' = Append(moved, ecc.buf[In].block)
    BY <1>2, <1>6 DEF Decoding
  <2>2. /\ e \in Engine /\ e.mode = "VERIFY" /\ e.repeat = ecc.repeat /\ e.in = Out
        /\ e.buf = Cleared
    <3>1. Cleared \in [{0, 1} -> Buffers]
      BY DEF Cleared, Buffer, Buffers, EMPTY, DATA, DISK
    <3> QED BY <1>1, <1>5, <1>6, <3>1, SteppedIs DEF Engine
  <2> HIDE DEF e
  <2>3. /\ ecc' \in Engine /\ ecc'.mode = "VERIFY" /\ ~ecc'.repeat /\ ecc'.buf = Cleared
        /\ ~ecc.repeat => ecc'.state = "DONE"
        /\ ecc.repeat => ecc'.state = "ECCING" /\ ecc'.armed
    BY <2>1, <2>2, SequenceDoneDoes
  <2>4. \A i \in {0, 1} : ecc'.buf[i].size # DISK
    BY <2>3 DEF Cleared, Buffer, EMPTY, DISK
  <2>5. moved' \in Seq(Nat)
    BY <2>1, <1>1, <1>5 DEF TypeOK, Buffers
  <2>6. TypeOK'
    BY <1>1, <1>2, <2>3, <2>5 DEF TypeOK
  <2>7. EngineFits' /\ BuffersFit'
    BY <1>1, <1>2, <1>3, <1>6, <2>3, <2>4 DEF EngineFits, BuffersFit
  <2>8. Unfilled' /\ Writing' /\ Reading'
    BY <1>1, <1>3, <2>3 DEF Unfilled, Writing, Reading
  <2>9. clean => /\ ~ecc.repeat /\ Sectors > 0 /\ taken = 0 /\ coded = Sectors - 1
                 /\ Len(moved) = Sectors - 1 /\ ecc.buf[In].block = Sectors
    BY <1>1, <1>2, <1>6 DEF Verifying, Buffer
  <2>10. clean => /\ ecc'.state = "DONE" /\ coded' = Sectors /\ InOrder(moved')
                  /\ Len(moved') = Sectors
    BY <1>1, <1>2, <1>4, <2>1, <2>3, <2>9, AppendInOrder DEF TypeOK, Lasting
  <2>11. Verifying'
    BY <1>1, <2>10 DEF Verifying
  <2>12. Resting'
    BY <1>1, <1>2, <1>4, <1>6, <2>3, <2>4, <2>9, <2>10 DEF Resting, EngineFits
  <2>13. Lasting'
    BY <1>1, <1>2, <2>10 DEF Lasting
  <2>14. EventsTrue'
    BY <1>1, <1>2, <1>4, <2>9, <2>10 DEF EventsTrue, TypeOK
  <2> QED BY <2>6, <2>7, <2>8, <2>11, <2>12, <2>13, <2>14 DEF IInv
<1>7. CASE ecc.mode = "READ"
  <2> DEFINE b == Buffer(DATA, DATA, ecc.buf[In].block)
  <2>1. /\ ecc' = [ecc EXCEPT !.buf[In].size = DATA, !.buf[In].limit = DATA,
                              !.in = Out, !.state = "DRAINING"]
        /\ UNCHANGED moved
    BY <1>2, <1>7 DEF Decoding
  <2>2. b \in Buffers /\ b.size = DATA /\ b.limit = DATA /\ b.block = ecc.buf[In].block
    BY <1>5 DEF Buffers, Buffer, EMPTY, DATA, DISK
  <2>3. [[ecc.buf EXCEPT ![In].size = DATA] EXCEPT ![In].limit = DATA]
          = [ecc.buf EXCEPT ![In] = b]
    BY <1>5 DEF Buffers, Buffer, In
  <2>4. /\ ecc' \in Engine /\ ecc'.state = "DRAINING" /\ ecc'.mode = "READ"
        /\ ecc'.repeat = ecc.repeat /\ ecc'.armed /\ ecc'.in = Out
        /\ ecc'.buf = [ecc.buf EXCEPT ![In] = b]
    <3> HIDE DEF b
    <3>1. ecc' = [ecc EXCEPT !.buf = [ecc.buf EXCEPT ![In] = b], !.in = Out,
                             !.state = "DRAINING"]
      BY <2>1, <2>3, <1>5 DEF Engine
    <3>2. [ecc.buf EXCEPT ![In] = b] \in [{0, 1} -> Buffers]
      BY <1>5, <2>2 DEF In
    <3> QED BY <3>1, <3>2, <1>1, <1>5, <1>7 DEF Engine, States
  <2> HIDE DEF b
  <2>5. /\ ecc'.buf[ecc.in] = b /\ ecc'.buf[Out] = ecc.buf[Out] /\ In' = Out /\ Out' = In
    BY <1>5, <2>4 DEF In, Out
  <2>6. TypeOK'
    BY <1>1, <1>2, <2>1, <2>4 DEF TypeOK
  <2>7. EngineFits'
    BY <1>1, <1>2, <1>3, <1>7, <2>4 DEF EngineFits
  <2>8. BuffersFit'
    BY <1>1, <1>5, <2>2, <2>4, <2>5 DEF BuffersFit, In, DATA, DISK
  <2>9. Unfilled' /\ Writing' /\ Verifying' /\ Resting'
    BY <1>1, <1>3, <2>4 DEF Unfilled, Writing, Verifying, Resting
  <2>10. clean => /\ Len(moved) + dma = total /\ Sectors > 0 /\ taken = 0 /\ since = 0
                  /\ ecc.buf[In].block = Sectors /\ ecc.buf[Out].size # DISK
                  /\ coded = Sectors - 1 /\ Len(moved) = Sectors - 1 /\ Repeats(Sectors)
    BY <1>1, <1>2, <1>7 DEF Reading, Buffer
  <2>11. Reading'
    <3>1. clean => /\ coded' = Sectors /\ since' <= 1 /\ Repeats(Sectors)'
                   /\ ecc'.buf[Out'] = Buffer(DATA, DATA, Sectors')
      BY <1>1, <1>2, <1>4, <2>4, <2>5, <2>10 DEF TypeOK, Repeats, In, b
    <3> QED BY <1>1, <1>2, <1>4, <2>1, <2>4, <2>5, <2>10, <3>1 DEF Reading
  <2>12. Lasting'
    BY <1>1, <1>2, <2>1, <2>4 DEF Lasting
  <2>13. EventsTrue'
    BY <1>1, <1>2, <1>4, <2>10 DEF EventsTrue, TypeOK
  <2> QED BY <2>6, <2>7, <2>8, <2>9, <2>11, <2>12, <2>13 DEF IInv
<1> QED BY <1>1, <1>2, <1>6, <1>7 DEF TypeOK, Engine

LEMMA DrainingKeeps ==
  ASSUME IInv, ECC_IO_Handler, Draining
  PROVE  IInv'
<1>1. /\ TypeOK /\ EngineFits /\ BuffersFit /\ Reading /\ Lasting
      /\ Unfilled /\ EventsTrue
      /\ ecc.armed /\ since' \in 0..Steps /\ since' <= since + 1
      /\ UNCHANGED <<fmt_mode, sector_count, write_timing, gap, blocks, total, clean>>
  BY HandlerKeeps DEF IInv
<1>2. /\ ecc.state = "DRAINING" /\ ecc.mode = "READ"
      /\ UNCHANGED <<taken, coded, events>>
  BY <1>1 DEF Draining, EngineFits
<1>3. fmt_mode \notin {"WRITE", "VERIFY", "ERASE", "READ_ID"}
  BY <1>1, <1>2 DEF EngineFits
<1>4. Sectors' = Sectors /\ Sectors \in 0..total /\ In' = ecc'.in
  BY <1>1 DEF Sectors, TypeOK, EngineFits, In
<1>5. /\ ecc.in \in {0, 1} /\ Out \in {0, 1} /\ Out # ecc.in /\ ecc.buf[Out] \in Buffers
      /\ ecc.buf \in [{0, 1} -> Buffers] /\ ecc \in Engine
  BY <1>1 DEF TypeOK, Engine, In, Out
<1>6. clean => /\ Len(moved) + dma = total /\ Sectors > 0 /\ taken = 0
               /\ ecc.buf[Out].block = Sectors /\ ecc.buf[In].size # DISK
               /\ coded = Sectors /\ Len(moved) = Sectors - 1 /\ Repeats(Sectors)
  BY <1>1, <1>2 DEF Reading, Buffer
<1>7. CASE dma > 0
  <2> DEFINE e == [Stepped EXCEPT !.buf[Out].size = EMPTY]
             b == [ecc.buf EXCEPT ![Out].size = EMPTY]
  <2>1. ecc' = SequenceDone(e) /\ moved' = Append(moved, ecc.buf[Out].block)
        /\ dma' = dma - 1
    BY <1>1, <1>7 DEF Draining, TypeOK
  <2>2. /\ b \in [{0, 1} -> Buffers] /\ b[Out].size = EMPTY
        /\ b[ecc.in] = ecc.buf[ecc.in]
        /\ b[Out].limit = ecc.buf[Out].limit
    BY <1>5 DEF Buffers, EMPTY
  <2>3. /\ e \in Engine /\ e.mode = "READ" /\ e.repeat = ecc.repeat /\ e.in = ecc.in
        /\ e.buf = b
    <3> HIDE DEF b
    <3>1. e = [Stepped EXCEPT !.buf = b]
      BY <1>1, <1>5, SteppedIs DEF Engine, b
    <3> QED BY <1>1, <1>2, <2>2, <3>1, SteppedIs DEF Engine
  <2> HIDE DEF e, b
  <2>4. /\ ecc' \in Engine /\ ecc'.mode = "READ" /\ ~ecc'.repeat /\ ecc'.buf = b
        /\ ecc'.in = ecc.in
        /\ ~ecc.repeat => ecc'.state = "DONE"
        /\ ecc.repeat => ecc'.state = "ECCING" /\ ecc'.armed
    BY <2>1, <2>3, SequenceDoneDoes
  <2>5. \A i \in {0, 1} : ecc'.buf[i].size = DISK => i = ecc.in /\ ecc.buf[i].size = DISK
    BY <1>5, <2>2, <2>4 DEF EMPTY, DISK
  <2>6. moved' \in Seq(Nat)
    BY <2>1, <1>1, <1>5 DEF TypeOK, Buffers
  <2>7. TypeOK'
    BY <1>1, <1>2, <1>7, <2>1, <2>4, <2>6 DEF TypeOK
  <2>8. EngineFits'
    BY <1>1, <1>3, <2>4 DEF EngineFits
  <2>9. BuffersFit'
    BY <1>1, <1>5, <2>2, <2>4, <2>5 DEF BuffersFit
  <2>10. Unfilled' /\ Writing' /\ Verifying'
    BY <1>3, <1>1, <2>4 DEF Unfilled, Writing, Verifying
  <2>11. clean => /\ InOrder(moved') /\ Len(moved') = Sectors /\ Len(moved') + dma' = total
                  /\ \A i \in {0, 1} : ecc'.buf[i].size # DISK
    <3>1. clean => InOrder(moved') /\ Len(moved') = Len(moved) + 1
      BY <1>1, <1>6, <2>1, AppendInOrder DEF Lasting, TypeOK
    <3>2. clean => \A i \in {0, 1} : ecc'.buf[i].size # DISK
      BY <1>6, <2>5 DEF In
    <3>3. Len(moved) \in Nat /\ dma \in Nat
      BY <1>1 DEF TypeOK
    <3> QED BY <3>1, <3>2, <3>3, <1>4, <1>6, <1>7, <2>1
  <2>12. Reading'
    <3>1. In' \in {0, 1} /\ Out' \in {0, 1}
      BY <1>4, <2>4 DEF Engine, In, Out
    <3> QED BY <1>1, <1>2, <1>4, <1>6, <2>4, <2>11, <3>1 DEF Reading, Repeats
  <2>13. Resting'
    BY <1>1, <1>2, <1>3, <1>4, <1>6, <2>4, <2>11 DEF Resting, Repeats
  <2>14. Lasting' /\ EventsTrue'
    BY <1>1, <1>2, <2>4, <2>11 DEF Lasting, EventsTrue
  <2> QED BY <2>7, <2>8, <2>9, <2>10, <2>12, <2>13, <2>14 DEF IInv
<1>8. CASE dma = 0
  <2>1. ecc' = SequenceDone(Stepped) /\ UNCHANGED <<moved, dma>>
    BY <1>8 DEF Draining
  <2>2. ~clean
    BY <1>1, <1>4, <1>6, <1>8 DEF TypeOK
  <2>3. /\ ecc' \in Engine /\ ecc'.mode = "READ" /\ ~ecc'.repeat /\ ecc'.buf = ecc.buf
        /\ ecc'.in = ecc.in
        /\ ~ecc.repeat => ecc'.state = "DONE"
        /\ ecc.repeat => ecc'.state = "ECCING" /\ ecc'.armed
    BY <1>1, <1>2, <2>1, SequenceDoneDoes, SteppedIs
  <2>4. TypeOK'
    BY <1>1, <1>2, <2>1, <2>3 DEF TypeOK
  <2>5. EngineFits' /\ BuffersFit'
    BY <1>1, <1>3, <2>3 DEF EngineFits, BuffersFit
  <2>6. /\ Unfilled' /\ Writing' /\ Reading' /\ Verifying' /\ Resting'
        /\ Lasting' /\ EventsTrue'
    BY <1>1, <1>3, <2>2 DEF Unfilled, Writing, Reading, Verifying, Resting, Lasting, EventsTrue
  <2> QED BY <2>4, <2>5, <2>6 DEF IInv
<1> QED BY <1>1, <1>7, <1>8 DEF TypeOK

\* The block is not written yet: the engine waits on.
\* It is written: the engine goes on with the next, if one is to come.
LEMMA WaitingKeeps ==
  ASSUME IInv, ECC_IO_Handler, Waiting
  PROVE  IInv'
<1>1. /\ TypeOK /\ EngineFits /\ BuffersFit /\ Writing /\ Lasting
      /\ Unfilled /\ EventsTrue
      /\ ecc.armed /\ since' \in 0..Steps /\ since' <= since + 1
      /\ UNCHANGED <<fmt_mode, sector_count, write_timing, gap, blocks, total, clean>>
  BY HandlerKeeps DEF IInv
<1>2. /\ ecc.state = "WAITING" /\ ecc.mode = "WRITE"
      /\ UNCHANGED <<dma, events, taken, coded, moved>>
  BY <1>1 DEF Waiting, EngineFits, data
<1>3. /\ fmt_mode \notin {"READ", "VERIFY", "ERASE", "READ_ID"}
      /\ fmt_mode = "WRITE" => write_timing
  BY <1>1, <1>2 DEF EngineFits
<1>4. Sectors' = Sectors /\ Sectors \in 0..total /\ (sector_count = 0 <=> Sectors = total)
  BY <1>1 DEF Sectors, TypeOK, EngineFits
<1>5. CASE ecc.buf[Out].size # EMPTY
  <2>1. UNCHANGED ecc
    BY <1>5 DEF Waiting
  <2>2. TypeOK' /\ EngineFits' /\ BuffersFit'
    BY <1>1, <1>2, <2>1 DEF TypeOK, EngineFits, BuffersFit, In
  <2>3. Unfilled' /\ Reading' /\ Verifying' /\ Resting' /\ Lasting' /\ EventsTrue'
    BY <1>1, <1>2, <1>3, <2>1
       DEF Unfilled, Reading, Verifying, Resting, Lasting, EventsTrue, Nothing
  <2>4. Writing'
    BY <1>1, <1>2, <1>4, <1>5, <2>1 DEF Writing, Out, Repeats
  <2> QED BY <2>2, <2>3, <2>4 DEF IInv
<1>6. CASE ecc.buf[Out].size = EMPTY
  <2> DEFINE e == SequenceDone(Stepped)
  <2>1. ecc' = IF sector_count > 0 THEN EccWrite(e) ELSE e
    BY <1>6 DEF Waiting
  <2>2. /\ e \in Engine /\ e.mode = "WRITE" /\ e.in = ecc.in /\ ~e.repeat
        /\ ~ecc.repeat => e.state = "DONE" /\ e.buf = ecc.buf
        /\ ecc.repeat => /\ e.state = "FILLING" /\ e.armed
                         /\ e.buf = [ecc.buf EXCEPT ![ecc.in].size = EMPTY]
    BY <1>1, <1>2, SequenceDoneDoes, SteppedIs
  <2> HIDE DEF e
  <2>3. /\ ecc' \in Engine /\ ecc'.mode = "WRITE" /\ ecc'.in = ecc.in
        /\ ecc'.state \in {"DONE", "FILLING"}
        /\ ecc'.state # "DONE" => ecc'.armed
        /\ sector_count > 0 => /\ ecc'.state = "FILLING"
                               /\ ecc'.repeat <=> ~ecc.repeat /\ blocks
        /\ sector_count = 0 => (ecc'.state = "DONE" <=> ~ecc.repeat)
        /\ \/ ecc'.buf = ecc.buf /\ ecc'.state = "DONE"
           \/ ecc'.buf = [ecc.buf EXCEPT ![ecc.in].size = EMPTY]
           \/ ecc'.buf = [ecc.buf EXCEPT ![ecc.in] = Buffer(EMPTY, DATA, 0)]
    <3>1. sector_count \in Nat /\ blocks \in BOOLEAN /\ ecc.repeat \in BOOLEAN
      BY <1>1 DEF TypeOK, Engine
    <3>2. CASE sector_count = 0
      BY <2>1, <2>2, <3>1, <3>2
    <3>3. CASE sector_count > 0 /\ ecc.repeat
      BY <2>1, <2>2, <3>1, <3>3, EccWriteDoes
    <3>4. CASE sector_count > 0 /\ ~ecc.repeat
      BY <2>1, <2>2, <3>1, <3>4, EccWriteDoes
    <3> QED BY <3>1, <3>2, <3>3, <3>4
  <2>4. clean \/ fmt_mode = "WRITE" =>
          /\ taken + dma = total /\ Len(moved) = Sectors /\ InOrder(moved) /\ Sectors > 0
          /\ taken = Sectors /\ coded = Sectors /\ since = 0 /\ (clean => Repeats(Sectors))
    BY <1>1, <1>2, <1>6 DEF Writing, Buffer, EMPTY, DISK
  <2>5. TypeOK'
    BY <1>1, <1>2, <2>3 DEF TypeOK
  <2>6. EngineFits'
    BY <1>1, <1>2, <1>3, <2>3 DEF EngineFits, TypeOK
  <2>7. BuffersFit'
    <3>1. ecc \in Engine /\ ecc.in \in {0, 1} /\ ecc.buf \in [{0, 1} -> Buffers]
      BY <1>1 DEF TypeOK, Engine
    <3> QED BY <1>1, <2>3, <3>1 DEF BuffersFit, Buffers, Buffer, In, EMPTY, DATA, DISK
  <2>8. Unfilled' /\ Reading' /\ Verifying'
    BY <1>1, <1>3, <2>3 DEF Unfilled, Reading, Verifying
  <2>9. Writing'
    <3>1. SUFFICES ASSUME ecc'.state # "DONE", clean \/ fmt_mode = "WRITE"
                   PROVE  Writing'
      BY <1>1 DEF Writing
    <3>2. Odd(Sectors + 1) <=> ~Odd(Sectors)
      <4>1. Sectors \in Nat
        BY <1>1, <1>4 DEF TypeOK
      <4> HIDE DEF Sectors
      <4> QED BY <4>1, NextIsOdd
    <3>3. sector_count > 0
      <4>1. CASE fmt_mode = "WRITE"
        BY <4>1, <1>1 DEF EngineFits
      <4>2. CASE clean
        <5>1. ~(blocks /\ Odd(total))
          BY <4>2, <1>1, <1>2 DEF Lasting
        <5>2. sector_count = 0 => ~ecc.repeat
          BY <4>2, <5>1, <2>4, <1>4 DEF Repeats
        <5> QED BY <5>2, <2>3, <3>1, <1>1 DEF TypeOK
      <4> QED BY <3>1, <4>1, <4>2
    <3>4. clean => Repeats(Sectors + 1)'
      BY <1>1, <1>4, <2>3, <2>4, <3>2, <3>3 DEF Repeats, TypeOK, Engine
    <3> QED BY <1>1, <1>2, <1>4, <2>3, <2>4, <3>1, <3>3, <3>4 DEF Writing, TypeOK
  <2>10. Resting'
    BY <1>1, <1>2, <1>3, <1>4, <2>4 DEF Resting
  <2>11. Lasting' /\ EventsTrue'
    <3>1. clean /\ "OPER_COMPL" \in events => sector_count = 0
      BY <1>1, <1>2 DEF Lasting
    <3> QED BY <1>1, <1>2, <2>3, <3>1 DEF Lasting, EventsTrue
  <2> QED BY <2>5, <2>6, <2>7, <2>8, <2>9, <2>10, <2>11 DEF IInv
<1> QED BY <1>5, <1>6

LEMMA LateKeeps ==
  ASSUME IInv, ECC_IO_Handler, Late
  PROVE  IInv'
<1>1. /\ IInv /\ TypeOK
      /\ since' \in 0..Steps
      /\ UNCHANGED <<fmt_mode, sector_count, write_timing, gap, blocks, total, clean>>
  BY HandlerKeeps DEF IInv
<1>2. /\ ecc.state = "DONE" /\ ecc' = Stepped
      /\ UNCHANGED <<dma, events, taken, coded, moved>>
  BY DEF Late, data
<1>3. /\ ecc' \in Engine /\ ecc'.state = "DONE" /\ ecc'.mode = ecc.mode
      /\ ecc'.repeat = ecc.repeat /\ ecc'.in = ecc.in /\ ecc'.buf = ecc.buf
  BY <1>1, <1>2, SteppedIs
<1>4. TypeOK'
  BY <1>1, <1>2, <1>3 DEF TypeOK
<1>5. EngineFits' /\ BuffersFit'
  BY <1>1, <1>2, <1>3 DEF IInv, EngineFits, BuffersFit
<1>6. Unfilled' /\ Writing' /\ Reading' /\ Verifying'
  BY <1>1, <1>2, <1>3 DEF IInv, Unfilled, Writing, Reading, Verifying, Nothing
<1>7. Resting' /\ Lasting' /\ EventsTrue'
  BY <1>1, <1>2, <1>3 DEF IInv, Resting, Lasting, EventsTrue, Nothing, Sectors
<1> QED BY <1>4, <1>5, <1>6, <1>7 DEF IInv

-----------------------------------------------------------------------------
(***************************************************************************)
(* A sector under the head keeps the invariant.                            *)
(***************************************************************************)

\* The engine has had its time when a sector comes.
LEMMA SectorKeeps ==
  ASSUME IInv, Sector
  PROVE  /\ since' = 0 /\ fmt_mode # "IDLE" /\ sector_count > 0
         /\ ecc.state # "DONE" => since >= 3
         /\ Sectors \in 0..total
         /\ UNCHANGED <<blocks, dma, taken, coded, total, clean>>
BY StepAssumption DEF IInv, TypeOK, EngineFits, Sector, SectorDue, op, Sectors

LEMMA SectorDoneKeeps ==
  ASSUME IInv, Sector, SectorDone
  PROVE  /\ sector_count' = sector_count - 1 /\ sector_count' \in Nat /\ Sectors' = Sectors + 1
         /\ fmt_mode' = IF sector_count' = 0 THEN "IDLE" ELSE fmt_mode
         /\ events' = events \cup (IF sector_count' = 0 THEN {"OPER_COMPL"} ELSE {})
         /\ UNCHANGED gap
BY SectorKeeps DEF IInv, TypeOK, SectorDone, Signal, Sectors

\* What the end of a sector changes is kept by the parts that are about it.
LEMMA TellsTheEnd ==
  ASSUME IInv, Sector, SectorDone, fmt_mode # "READ_ID", InOrder(moved) => InOrder(moved')
  PROVE  Lasting' /\ EventsTrue'
<1>1. Lasting /\ EventsTrue /\ fmt_mode # "IDLE" /\ sector_count > 0
      /\ UNCHANGED <<blocks, coded, total, clean>>
  BY SectorKeeps DEF IInv
<1>2. events' = events \cup (IF sector_count' = 0 THEN {"OPER_COMPL"} ELSE {})
  BY SectorDoneKeeps
<1>3. clean => "OPER_COMPL" \notin events
  BY <1>1 DEF Lasting
<1> QED BY <1>1, <1>2, <1>3 DEF Lasting, EventsTrue

LEMMA FetchedIs ==
  ASSUME TypeOK, Sectors \in Nat
  PROVE  /\ Fetched \in Engine /\ Fetched.state = ecc.state /\ Fetched.mode = ecc.mode
         /\ Fetched.repeat = ecc.repeat /\ Fetched.armed = ecc.armed /\ Fetched.in = ecc.in
         /\ Fetched.buf[ecc.in] = Buffer(DISK, DISK, Sectors + 1)
         /\ Fetched.buf[Out] = ecc.buf[Out]
<1> DEFINE b == Buffer(DISK, DISK, Sectors + 1)
<1>1. b \in Buffers
  BY DEF Buffers, Buffer, EMPTY, DATA, DISK
<1>2. ThisSector = Sectors + 1
  BY DEF TypeOK, ThisSector, Sectors
<1> HIDE DEF b
<1>3. Fetched = [ecc EXCEPT !.buf[ecc.in] = b]
  BY <1>2 DEF Fetched, In, b
<1>4. ecc \in Engine /\ ecc.in \in {0, 1} /\ Out \in {0, 1} /\ Out # ecc.in
  BY DEF TypeOK, Engine, In, Out
<1>5. /\ Fetched \in Engine /\ Fetched.state = ecc.state /\ Fetched.mode = ecc.mode
      /\ Fetched.repeat = ecc.repeat /\ Fetched.armed = ecc.armed /\ Fetched.in = ecc.in
      /\ Fetched.buf = [ecc.buf EXCEPT ![ecc.in] = b]
  BY <1>1, <1>3, <1>4 DEF Engine
<1>6. Fetched.buf[ecc.in] = b /\ Fetched.buf[Out] = ecc.buf[Out]
  BY <1>4, <1>5 DEF Engine
<1> QED BY <1>5, <1>6 DEF b

LEMMA ReadKeeps ==
  ASSUME IInv, Sector, SectorDone, fmt_mode = "READ", ecc' = EccRead(Fetched),
         UNCHANGED <<write_timing, moved>>
  PROVE  IInv'
<1>1. /\ TypeOK /\ EngineFits /\ BuffersFit /\ Reading /\ Resting /\ Lasting
      /\ since' = 0 /\ sector_count > 0 /\ (ecc.state # "DONE" => since >= 3)
      /\ Sectors \in 0..total
      /\ UNCHANGED <<blocks, dma, taken, coded, total, clean>>
  BY SectorKeeps DEF IInv
<1>2. /\ sector_count' = sector_count - 1 /\ sector_count' \in Nat /\ Sectors' = Sectors + 1
      /\ fmt_mode' = IF sector_count' = 0 THEN "IDLE" ELSE fmt_mode
      /\ events' = events \cup (IF sector_count' = 0 THEN {"OPER_COMPL"} ELSE {})
      /\ UNCHANGED gap
  BY SectorDoneKeeps
<1>3. Sectors \in Nat /\ blocks \in BOOLEAN /\ since \in Nat /\ ecc.in \in {0, 1}
      /\ Out \in {0, 1} /\ Out # ecc.in
  BY <1>1 DEF TypeOK, Engine, In, Out
<1> DEFINE f == Fetched
<1>4. /\ f \in Engine /\ f.state = ecc.state /\ f.mode = ecc.mode
      /\ f.repeat = ecc.repeat /\ f.armed = ecc.armed /\ f.in = ecc.in
      /\ f.buf[ecc.in] = Buffer(DISK, DISK, Sectors + 1) /\ f.buf[Out] = ecc.buf[Out]
  BY <1>1, <1>3, FetchedIs
<1> HIDE DEF f
<1>5. /\ ecc' \in Engine /\ ecc'.mode = "READ" /\ ecc'.in = ecc.in /\ ecc'.buf = f.buf
      /\ ecc'.state # "DONE" /\ ecc'.armed
      /\ ecc.state = "DONE" => /\ ecc'.state = "ECCING"
                               /\ ecc'.repeat <=> ecc.repeat \/ blocks
      /\ ecc.state # "DONE" => ecc'.state = ecc.state /\ ecc'.repeat = ecc.repeat
  <2>1. ecc.state # "DONE" => ecc.mode = "READ" /\ ecc.armed
    BY <1>1 DEF EngineFits
  <2>2. ecc' = EccRead(f)
    BY DEF f
  <2>3. CASE ecc.state = "DONE"
    BY <2>2, <2>3, <1>3, <1>4, EccReadDoes
  <2>4. CASE ecc.state # "DONE"
    BY <2>1, <2>2, <2>4, <1>3, <1>4, EccReadDoes
  <2> QED BY <2>3, <2>4
<1>6. /\ ecc'.buf[ecc.in] = Buffer(DISK, DISK, Sectors + 1) /\ ecc'.buf[Out] = ecc.buf[Out]
      /\ In' = ecc.in /\ Out' = Out
  BY <1>4, <1>5 DEF In, Out
<1>7. TypeOK'
  BY <1>1, <1>2, <1>5, StepAssumption DEF TypeOK
<1>8. EngineFits'
  BY <1>1, <1>2, <1>5 DEF EngineFits, TypeOK
<1>9. BuffersFit'
  BY <1>1, <1>3, <1>5, <1>6 DEF BuffersFit, EngineFits, Buffer, DISK
<1>10. Unfilled' /\ Writing' /\ Verifying' /\ Resting'
  BY <1>2, <1>5 DEF Unfilled, Writing, Verifying, Resting
<1>11. Reading'
  <2>1. SUFFICES ASSUME clean
                 PROVE  Reading'
    BY <1>1 DEF Reading
  <2>2. Odd(Sectors + 1) <=> ~Odd(Sectors)
    <3> HIDE DEF Sectors
    <3> QED BY <1>3, NextIsOdd
  <2>3. /\ Len(moved) + dma = total /\ taken = 0 /\ coded = Sectors /\ Len(moved) = Sectors
        /\ ecc'.state = "ECCING" /\ ecc.buf[Out].size # DISK
        /\ ecc'.repeat <=> blocks /\ Odd(Sectors + 1)
    <3>1. CASE ecc.state = "DONE"
      BY <2>1, <2>2, <3>1, <1>1, <1>3, <1>5 DEF Resting
    <3>2. CASE ecc.state # "DONE"
      <4>1. ecc.mode = "READ" /\ since # 0 /\ ~(since <= 1)
        BY <3>2, <1>1, <1>3 DEF EngineFits
      <4> QED BY <2>1, <2>2, <3>2, <4>1, <1>1, <1>3, <1>5 DEF Reading
    <3> QED BY <3>1, <3>2
  <2>4. Repeats(Sectors)'
    BY <2>3, <1>1, <1>2 DEF Repeats
  <2> QED BY <2>3, <2>4, <1>1, <1>2, <1>3, <1>5, <1>6 DEF Reading
<1>12. Lasting' /\ EventsTrue'
  BY TellsTheEnd
<1> QED BY <1>7, <1>8, <1>9, <1>10, <1>11, <1>12 DEF IInv

LEMMA VerifyKeeps ==
  ASSUME IInv, Sector, SectorDone, fmt_mode = "VERIFY", ecc' = EccVerify(Fetched),
         UNCHANGED <<write_timing, moved>>
  PROVE  IInv'
<1>1. /\ TypeOK /\ EngineFits /\ BuffersFit /\ Verifying /\ Resting /\ Lasting
      /\ since' = 0 /\ sector_count > 0 /\ (ecc.state # "DONE" => since >= 3)
      /\ Sectors \in 0..total
      /\ UNCHANGED <<blocks, dma, taken, coded, total, clean>>
  BY SectorKeeps DEF IInv
<1>2. /\ sector_count' = sector_count - 1 /\ sector_count' \in Nat /\ Sectors' = Sectors + 1
      /\ fmt_mode' = IF sector_count' = 0 THEN "IDLE" ELSE fmt_mode
      /\ events' = events \cup (IF sector_count' = 0 THEN {"OPER_COMPL"} ELSE {})
      /\ UNCHANGED gap
  BY SectorDoneKeeps
<1>3. Sectors \in Nat /\ since \in Nat /\ ecc.in \in {0, 1} /\ Out \in {0, 1} /\ Out # ecc.in
  BY <1>1 DEF TypeOK, Engine, In, Out
<1> DEFINE f == Fetched
<1>4. /\ f \in Engine /\ f.state = ecc.state /\ f.mode = ecc.mode
      /\ f.repeat = ecc.repeat /\ f.armed = ecc.armed /\ f.in = ecc.in
      /\ f.buf[ecc.in] = Buffer(DISK, DISK, Sectors + 1) /\ f.buf[Out] = ecc.buf[Out]
  BY <1>1, <1>3, FetchedIs
<1> HIDE DEF f
<1>5. /\ ecc' \in Engine /\ ecc'.mode = "VERIFY" /\ ecc'.in = ecc.in /\ ecc'.buf = f.buf
      /\ ecc'.state # "DONE" /\ ecc'.armed
      /\ ecc.state = "DONE" => /\ ecc'.state = "ECCING"
                               /\ ecc'.repeat <=> ecc.repeat
      /\ ecc.state # "DONE" => ecc'.state = ecc.state /\ ecc'.repeat = ecc.repeat
  <2>1. ecc.state # "DONE" => ecc.mode = "VERIFY" /\ ecc.armed
    BY <1>1 DEF EngineFits
  <2>2. ecc' = EccVerify(f)
    BY DEF f
  <2>3. CASE ecc.state = "DONE"
    BY <2>2, <2>3, <1>3, <1>4, EccVerifyDoes
  <2>4. CASE ecc.state # "DONE"
    BY <2>1, <2>2, <2>4, <1>3, <1>4, EccVerifyDoes
  <2> QED BY <2>3, <2>4
<1>6. /\ ecc'.buf[ecc.in] = Buffer(DISK, DISK, Sectors + 1) /\ ecc'.buf[Out] = ecc.buf[Out]
      /\ In' = ecc.in /\ Out' = Out
  BY <1>4, <1>5 DEF In, Out
<1>7. TypeOK'
  BY <1>1, <1>2, <1>5, StepAssumption DEF TypeOK
<1>8. EngineFits'
  BY <1>1, <1>2, <1>5 DEF EngineFits, TypeOK
<1>9. BuffersFit'
  BY <1>1, <1>3, <1>5, <1>6 DEF BuffersFit, EngineFits, Buffer, DISK
<1>10. Unfilled' /\ Writing' /\ Reading' /\ Resting'
  BY <1>2, <1>5 DEF Unfilled, Writing, Reading, Resting
<1>11. Verifying'
  <2>1. SUFFICES ASSUME clean
                 PROVE  Verifying'
    BY <1>1 DEF Verifying
  <2>2. ecc.state = "DONE"
    BY <2>1, <1>1, <1>3 DEF Verifying, EngineFits
  <2> QED BY <2>1, <2>2, <1>1, <1>2, <1>3, <1>5, <1>6 DEF Verifying, Resting
<1>12. Lasting' /\ EventsTrue'
  BY TellsTheEnd
<1> QED BY <1>7, <1>8, <1>9, <1>10, <1>11, <1>12 DEF IInv

LEMMA EraseKeeps ==
  ASSUME IInv, Sector, SectorDone, fmt_mode = "ERASE", UNCHANGED <<write_timing, ecc, moved>>
  PROVE  IInv'
<1>1. /\ TypeOK /\ EngineFits /\ BuffersFit /\ Resting
      /\ since' = 0 /\ sector_count > 0 /\ ecc.state = "DONE"
      /\ UNCHANGED <<blocks, dma, taken, coded, total, clean>>
  BY SectorKeeps DEF IInv, EngineFits
<1>2. /\ sector_count' = sector_count - 1 /\ sector_count' \in Nat
      /\ fmt_mode' = IF sector_count' = 0 THEN "IDLE" ELSE fmt_mode
      /\ events' = events \cup (IF sector_count' = 0 THEN {"OPER_COMPL"} ELSE {})
      /\ UNCHANGED gap
  BY SectorDoneKeeps
<1>3. TypeOK' /\ EngineFits' /\ BuffersFit'
  BY <1>1, <1>2, StepAssumption DEF TypeOK, EngineFits, BuffersFit, In
<1>4. Unfilled' /\ Writing' /\ Reading' /\ Verifying'
  BY <1>1, <1>2 DEF Unfilled, Writing, Reading, Verifying
<1>5. Resting'
  BY <1>1, <1>2 DEF Resting, Nothing
<1> QED BY <1>3, <1>4, <1>5, TellsTheEnd DEF IInv

LEMMA ReadSectorKeeps ==
  ASSUME IInv, Sector, ReadSector
  PROVE  IInv'
<1>1. /\ SectorDone /\ UNCHANGED <<write_timing, moved>>
      /\ \/ fmt_mode = "READ" /\ ecc' = EccRead(Fetched)
         \/ fmt_mode = "VERIFY" /\ ecc' = EccVerify(Fetched)
         \/ fmt_mode = "ERASE" /\ UNCHANGED ecc
  BY DEF ReadSector
<1>2. CASE fmt_mode = "READ" /\ ecc' = EccRead(Fetched)
  BY <1>1, <1>2, ReadKeeps
<1>3. CASE fmt_mode = "VERIFY" /\ ecc' = EccVerify(Fetched)
  BY <1>1, <1>3, VerifyKeeps
<1>4. CASE fmt_mode = "ERASE" /\ UNCHANGED ecc
  BY <1>1, <1>4, EraseKeeps
<1> QED BY <1>1, <1>2, <1>3, <1>4

\* In a write whose buffer was asked for, the block is there when a sector comes.
LEMMA InTime ==
  ASSUME IInv, Sector, fmt_mode = "WRITE", write_timing
  PROVE  /\ ecc.state = "WAITING" /\ ecc.mode = "WRITE" /\ taken + dma = total
         /\ Len(moved) = Sectors /\ InOrder(moved)
         /\ taken = Sectors + 1 /\ coded = Sectors + 1
         /\ ecc.buf[Out] = Buffer(DISK, DISK, taken)
         /\ clean => Repeats(Sectors + 1)
<1>1. /\ ecc.state # "DONE" /\ ecc.mode = "WRITE" /\ since >= 3 /\ since \in Nat /\ Writing
  BY SectorKeeps DEF IInv, EngineFits, TypeOK
<1>2. ~(since <= 1) /\ ~(since <= 2) /\ since # 0
  BY <1>1
<1> QED BY <1>1, <1>2 DEF Writing

LEMMA WriteSectorKeeps ==
  ASSUME IInv, Sector, WriteSector
  PROVE  IInv'
<1>1. /\ fmt_mode = "WRITE" /\ write_timing /\ SectorDone
      /\ moved' = Append(moved, ecc.buf[Out].block) /\ UNCHANGED write_timing
      /\ ecc' = EccWrite([ecc EXCEPT !.buf[Out].size = EMPTY, !.buf[Out].limit = DATA])
  BY DEF WriteSector
<1>2. /\ TypeOK /\ EngineFits /\ BuffersFit
      /\ since' = 0 /\ sector_count > 0 /\ Sectors \in 0..total
      /\ UNCHANGED <<blocks, dma, taken, coded, total, clean>>
  BY SectorKeeps DEF IInv
<1>3. /\ sector_count' = sector_count - 1 /\ sector_count' \in Nat /\ Sectors' = Sectors + 1
      /\ fmt_mode' = IF sector_count' = 0 THEN "IDLE" ELSE fmt_mode
      /\ events' = events \cup (IF sector_count' = 0 THEN {"OPER_COMPL"} ELSE {})
      /\ UNCHANGED gap
  BY <1>1, SectorDoneKeeps
<1>4. /\ ecc.state = "WAITING" /\ ecc.mode = "WRITE" /\ taken + dma = total
      /\ Len(moved) = Sectors /\ InOrder(moved)
      /\ taken = Sectors + 1 /\ coded = Sectors + 1
      /\ ecc.buf[Out] = Buffer(DISK, DISK, taken) /\ ecc.buf[Out].block = Sectors + 1
      /\ clean => Repeats(Sectors + 1)
  BY <1>1, InTime DEF Buffer
<1>5. /\ ecc.in \in {0, 1} /\ Out \in {0, 1} /\ Out # ecc.in /\ ecc \in Engine /\ ecc.armed
      /\ ecc.buf \in [{0, 1} -> Buffers] /\ blocks \in BOOLEAN /\ Sectors \in Nat
      /\ moved \in Seq(Nat)
  BY <1>2, <1>4 DEF TypeOK, EngineFits, Engine, In, Out
<1> DEFINE b == [[ecc.buf EXCEPT ![Out].size = EMPTY] EXCEPT ![Out].limit = DATA]
           e == [ecc EXCEPT !.buf = b]
<1>6. /\ b \in [{0, 1} -> Buffers] /\ b[Out].size = EMPTY /\ b[Out].limit = DATA
      /\ b[ecc.in] = ecc.buf[ecc.in]
  BY <1>5 DEF Buffers, EMPTY, DATA
<1>7. [ecc EXCEPT !.buf[Out].size = EMPTY, !.buf[Out].limit = DATA] = e
  BY <1>5 DEF Engine
<1> HIDE DEF b
<1>8. /\ e \in Engine /\ e.state = "WAITING" /\ e.mode = "WRITE" /\ e.armed
      /\ e.repeat = ecc.repeat /\ e.in = ecc.in /\ e.buf = b
  BY <1>4, <1>5, <1>6 DEF Engine
<1> HIDE DEF e
<1>9. /\ ecc' \in Engine /\ ecc'.state = "WAITING" /\ ecc'.mode = "WRITE" /\ ecc'.armed
      /\ ecc'.repeat = ecc.repeat /\ ecc'.in = ecc.in /\ ecc'.buf = b /\ Out' = Out
  <2>1. ecc' = EccWrite(e)
    BY <1>1, <1>7
  <2>2. ecc' = e
    BY <2>1, <1>5, <1>8, EccWriteDoes
  <2> QED BY <2>2, <1>8 DEF Out, In
<1>10. InOrder(moved') /\ Len(moved') = Sectors + 1 /\ moved' \in Seq(Nat)
  BY <1>1, <1>4, <1>5, AppendInOrder
<1>11. TypeOK'
  BY <1>1, <1>2, <1>3, <1>9, <1>10, StepAssumption DEF TypeOK
<1>12. EngineFits'
  BY <1>1, <1>2, <1>3, <1>9 DEF EngineFits, TypeOK
<1>13. BuffersFit'
  BY <1>2, <1>5, <1>6, <1>9 DEF BuffersFit, EMPTY, DISK
<1>14. Unfilled' /\ Reading' /\ Verifying' /\ Resting'
  BY <1>1, <1>9 DEF Unfilled, Reading, Verifying, Resting
<1>15. Writing'
  <2>1. clean => Repeats(Sectors)'
    BY <1>2, <1>3, <1>4, <1>9 DEF Repeats
  <2> QED BY <1>2, <1>3, <1>4, <1>5, <1>6, <1>9, <1>10, <2>1 DEF Writing
<1>16. Lasting' /\ EventsTrue'
  BY <1>1, <1>10, TellsTheEnd
<1> QED BY <1>11, <1>12, <1>13, <1>14, <1>15, <1>16 DEF IInv

\* The sector wanted is not there yet, has passed, or is the one before which a
\* write asks for its first buffer.
LEMMA OtherSectorKeeps ==
  ASSUME IInv, Sector, OtherSector
  PROVE  IInv'
<1>1. /\ TypeOK /\ EngineFits /\ BuffersFit /\ Unfilled /\ Resting /\ Lasting /\ EventsTrue
      /\ since' = 0 /\ sector_count > 0 /\ Sectors \in 0..total
      /\ fmt_mode \notin {"IDLE", "READ_ID"} /\ (ecc.state # "DONE" => since >= 3)
      /\ UNCHANGED <<blocks, dma, taken, coded, total, clean>>
  BY SectorKeeps DEF IInv, OtherSector
<1>2. /\ gap' \in {Passed, 0, 1} /\ fmt_mode' \in {"IDLE", fmt_mode}
      /\ events' \subseteq events \cup {"TIMEOUT"} /\ events \subseteq events'
      /\ UNCHANGED <<sector_count, moved>> /\ Sectors' = Sectors
  BY <1>1 DEF OtherSector, Signal, TypeOK, Passed, Sectors
<1>3. clean => "OPER_COMPL" \notin events
  BY <1>1 DEF Lasting
<1>4. EventsTrue'
  BY <1>1, <1>2 DEF EventsTrue
<1>5. CASE fmt_mode = "WRITE" /\ ~write_timing
  <2>1. write_timing' = TRUE /\ ecc' = EccWrite(ecc)
    BY <1>5 DEF OtherSector
  <2>2. ecc \in Engine /\ blocks \in BOOLEAN /\ ecc.state = "DONE"
    BY <1>1, <1>5 DEF TypeOK, EngineFits
  <2>3. /\ ecc' \in Engine /\ ecc'.state = "FILLING" /\ ecc'.mode = "WRITE"
        /\ ecc'.armed /\ ecc'.in = ecc.in /\ (ecc'.repeat <=> ecc.repeat \/ blocks)
        /\ ecc'.buf = [ecc.buf EXCEPT ![ecc.in] = Buffer(EMPTY, DATA, 0)]
    BY <2>1, <2>2, EccWriteDoes
  <2>4. /\ Nothing /\ dma = total /\ sector_count = total /\ (clean => ~ecc.repeat)
        /\ Sectors = 0
    BY <1>1, <1>5 DEF Unfilled, Sectors, TypeOK
  <2>5. TypeOK'
    BY <1>1, <1>2, <2>1, <2>3, StepAssumption DEF TypeOK
  <2>6. EngineFits'
    BY <1>1, <1>2, <1>5, <2>1, <2>3 DEF EngineFits
  <2>7. BuffersFit'
    BY <1>1, <2>2, <2>3 DEF BuffersFit, Engine, In, Buffer, EMPTY, DATA, DISK
  <2>8. Unfilled' /\ Reading' /\ Verifying' /\ Resting'
    BY <2>1, <2>3 DEF Unfilled, Reading, Verifying, Resting
  <2>9. Writing'
    <3>1. moved = <<>> /\ taken = 0 /\ coded = 0
      BY <2>4 DEF Nothing
    <3>2. Len(moved') = 0 /\ InOrder(moved') /\ Odd(0 + 1)
      BY <1>2, <3>1 DEF InOrder, Odd
    <3>3. clean => Repeats(Sectors + 1)'
      BY <1>1, <1>2, <2>3, <2>4, <3>2 DEF Repeats
    <3> QED BY <1>1, <1>2, <2>3, <2>4, <3>1, <3>2, <3>3 DEF Writing, TypeOK
  <2>10. Lasting'
    BY <1>1, <1>2, <1>3 DEF Lasting
  <2> QED BY <1>4, <2>5, <2>6, <2>7, <2>8, <2>9, <2>10 DEF IInv
<1>6. CASE fmt_mode = "WRITE" /\ write_timing
  <2>1. write_timing' = TRUE /\ ecc' = EccWrite(ecc)
    BY <1>6 DEF OtherSector
  <2>2. ecc.state = "WAITING" /\ ecc' = ecc
    <3>1. ecc \in Engine /\ blocks \in BOOLEAN /\ ecc.state = "WAITING"
      BY <1>1, <1>6, InTime DEF TypeOK
    <3> QED BY <2>1, <3>1, EccWriteDoes
  <2>3. TypeOK'
    BY <1>1, <1>2, <2>1, <2>2, StepAssumption DEF TypeOK
  <2>4. EngineFits' /\ BuffersFit'
    BY <1>1, <1>2, <1>6, <2>1, <2>2 DEF EngineFits, BuffersFit, In
  <2>5. Unfilled' /\ Reading' /\ Verifying' /\ Resting'
    BY <1>1, <1>6, <2>1, <2>2 DEF Unfilled, Reading, Verifying, Resting, EngineFits
  <2>6. Writing'
    <3>1. Out' = Out /\ (Repeats(Sectors + 1) => Repeats(Sectors + 1)')
      BY <1>1, <1>2, <2>2 DEF Out, In, Repeats
    <3> QED BY <1>1, <1>2, <1>6, <2>2, <3>1, InTime DEF Writing
  <2>7. Lasting'
    BY <1>1, <1>2, <1>3 DEF Lasting
  <2> QED BY <1>4, <2>3, <2>4, <2>5, <2>6, <2>7 DEF IInv
<1>7. CASE fmt_mode # "WRITE"
  <2>1. UNCHANGED <<write_timing, ecc>>
    BY <1>7 DEF OtherSector
  <2>2. TypeOK'
    BY <1>1, <1>2, <2>1, StepAssumption DEF TypeOK
  <2>3. EngineFits' /\ BuffersFit'
    BY <1>1, <1>2, <1>7, <2>1 DEF EngineFits, BuffersFit, In
  <2>4. Unfilled' /\ Resting'
    BY <1>1, <1>2, <1>7, <2>1 DEF Unfilled, Resting, Nothing
  <2>5. ecc.state # "DONE" => ecc.mode # "WRITE"
    BY <1>1, <1>7 DEF EngineFits, TypeOK
  <2>6. Writing' /\ Verifying'
    BY <1>1, <1>2, <2>1, <2>5 DEF IInv, Writing, Verifying, In, Out
  <2>7. Reading'
    <3>1. In' = In /\ Out' = Out
      BY <2>1 DEF In, Out
    <3>2. since \in Nat
      BY <1>1 DEF TypeOK
    <3> QED BY <1>1, <1>2, <2>1, <3>1, <3>2 DEF IInv, Reading, Repeats
  <2>8. Lasting'
    BY <1>1, <1>2, <1>3, <2>1 DEF Lasting
  <2> QED BY <1>4, <2>2, <2>3, <2>4, <2>6, <2>7, <2>8 DEF IInv
<1> QED BY <1>1, <1>5, <1>6, <1>7 DEF TypeOK

LEMMA ReadIdKeeps ==
  ASSUME IInv, Sector, ReadId
  PROVE  IInv'
<1>1. /\ IInv /\ fmt_mode = "READ_ID" /\ ecc.state = "DONE" /\ since' = 0
      /\ events' = events \cup {"OPER_COMPL"}
      /\ UNCHANGED <<fmt_mode, sector_count, write_timing, gap, ecc, moved>>
      /\ UNCHANGED <<blocks, dma, taken, coded, total, clean>>
  BY SectorKeeps DEF IInv, ReadId, Signal, fmt, EngineFits
<1>2. TypeOK' /\ EngineFits' /\ BuffersFit'
  BY <1>1, StepAssumption DEF IInv, TypeOK, EngineFits, BuffersFit, In
<1>3. Unfilled' /\ Writing' /\ Reading' /\ Verifying'
  BY <1>1 DEF Unfilled, Writing, Reading, Verifying
<1>4. Resting'
  BY <1>1 DEF IInv, Resting, Nothing, Sectors
<1>5. Lasting' /\ EventsTrue'
  BY <1>1 DEF IInv, Lasting, EventsTrue, Resting, Nothing
<1> QED BY <1>2, <1>3, <1>4, <1>5 DEF IInv

-----------------------------------------------------------------------------
(***************************************************************************)
(* The guest keeps the invariant, with its resets at any time.             *)
(***************************************************************************)

LEMMA BeginKeeps ==
  ASSUME IInv,
         NEW mode \in {"READ", "WRITE", "VERIFY", "ERASE", "READ_ID"}, NEW n \in Counts,
         NEW g \in {0, 1, Passed}, Begin(mode, n, g)
  PROVE  IInv'
<1>1. /\ TypeOK /\ EngineFits /\ BuffersFit /\ fmt_mode = "IDLE" /\ ecc.state = "DONE"
      /\ fmt_mode' = mode /\ sector_count' = n /\ gap' = g /\ events' = {}
      /\ write_timing' = IF mode = "WRITE" THEN FALSE ELSE write_timing
      /\ dma' = IF mode \in {"READ", "WRITE"} THEN n ELSE 0
      /\ total' = n /\ taken' = 0 /\ coded' = 0 /\ moved' = <<>>
      /\ UNCHANGED <<ecc, blocks, since>>
  BY DEF Begin, IInv
<1>2. n \in Nat /\ n > 0
  BY CountAssumption
<1> DEFINE c == /\ ~ecc.repeat /\ \A i \in {0, 1} : ecc.buf[i].limit = DATA
                /\ blocks => n % 2 = 0
<1>c. /\ clean' \in BOOLEAN
      /\ clean' => /\ ~ecc.repeat /\ \A i \in {0, 1} : ecc.buf[i].limit = DATA
                   /\ blocks => n % 2 = 0
  <2>1. clean' = c /\ c \in BOOLEAN
    BY DEF Begin
  <2> QED BY <2>1
<1>3. TypeOK'
  <2>1. dma' \in Nat /\ write_timing' \in BOOLEAN /\ since' \in 0..Steps
    BY <1>1, <1>2 DEF TypeOK
  <2>2. /\ fmt_mode' \in {"IDLE", "READ", "WRITE", "VERIFY", "ERASE", "READ_ID"}
        /\ gap' \in {Passed, 0, 1} /\ events' \subseteq events
        /\ moved' \in Seq(Nat) /\ ecc' \in Engine /\ blocks' \in BOOLEAN
    BY <1>1 DEF TypeOK
  <2>3. sector_count' \in Nat /\ total' \in Nat /\ taken' \in Nat /\ coded' \in Nat
    BY <1>1, <1>2
  <2>4. events \subseteq {"ECC_DONE", "STARVE", "OPER_COMPL", "TIMEOUT"}
    BY <1>1 DEF TypeOK
  <2> HIDE DEF c
  <2> QED BY <2>1, <2>2, <2>3, <2>4, <1>c DEF TypeOK
<1>4. EngineFits' /\ BuffersFit'
  BY <1>1, <1>2 DEF EngineFits, BuffersFit, In
<1>5. Unfilled' /\ Writing' /\ Reading' /\ Verifying'
  BY <1>1, <1>c DEF Unfilled, Writing, Reading, Verifying, Nothing
<1>6. Resting'
  <2>1. Nothing' /\ Sectors' = 0 /\ Len(moved') = 0 /\ ~Odd(0)
    BY <1>1, <1>2 DEF Nothing, Sectors, Odd
  <2>2. clean' => ~ecc'.repeat /\ \A i \in {0, 1} : ecc'.buf[i].size # DISK
    BY <1>1, <1>c DEF BuffersFit, DATA, DISK
  <2> QED BY <1>1, <1>2, <2>1, <2>2 DEF Resting
<1>7. Lasting' /\ EventsTrue'
  <2>1. clean' => ~(blocks' /\ Odd(total'))
    BY <1>1, <1>2, <1>c DEF Odd
  <2> QED BY <1>1, <2>1 DEF Lasting, EventsTrue, InOrder
<1> QED BY <1>3, <1>4, <1>5, <1>6, <1>7 DEF IInv

\* Both resets stop the formatter and the engine.
LEMMA ResetKeeps ==
  ASSUME IInv, FormatterReset \/ MachineReset
  PROVE  IInv'
<1>1. /\ TypeOK /\ EngineFits /\ BuffersFit
      /\ fmt_mode' = "IDLE" /\ clean' = (clean /\ ecc.state = "DONE")
      /\ UNCHANGED <<sector_count, write_timing, gap, blocks, dma, events, since,
                     taken, coded, moved, total>>
  BY DEF IInv, FormatterReset, MachineReset, data
<1>2. /\ ecc' \in Engine /\ ecc'.state = "DONE" /\ ecc'.mode = ecc.mode
      /\ ecc'.repeat = ecc.repeat /\ ecc'.in = ecc.in /\ ecc'.buf = ecc.buf
  <2>1. ecc \in Engine
    BY <1>1 DEF TypeOK
  <2>2. CASE FormatterReset
    BY <2>1, <2>2 DEF FormatterReset, Engine, States
  <2>3. CASE MachineReset
    BY <2>1, <2>3 DEF MachineReset, Engine, States
  <2> QED BY <2>2, <2>3
<1>3. TypeOK'
  BY <1>1, <1>2 DEF TypeOK
<1>4. EngineFits' /\ BuffersFit'
  BY <1>1, <1>2 DEF EngineFits, BuffersFit
<1>5. Unfilled' /\ Writing' /\ Reading' /\ Verifying'
  BY <1>1, <1>2 DEF Unfilled, Writing, Reading, Verifying
<1>6. Resting'
  BY <1>1, <1>2 DEF IInv, Resting, Nothing, Sectors
<1>7. Lasting' /\ EventsTrue'
  BY <1>1, <1>2 DEF IInv, Lasting, EventsTrue, Nothing
<1> QED BY <1>3, <1>4, <1>5, <1>6, <1>7 DEF IInv

LEMMA ControlKeeps ==
  ASSUME IInv, NEW b \in BOOLEAN, NEW clear \in BOOLEAN, Control(b, clear)
  PROVE  IInv'
<1>1. /\ TypeOK /\ EngineFits /\ BuffersFit /\ fmt_mode = "IDLE" /\ ecc.state = "DONE"
      /\ blocks' = b
      /\ ecc' = [ecc EXCEPT !.buf = IF clear THEN Cleared ELSE @]
      /\ UNCHANGED <<fmt_mode, sector_count, write_timing, gap, dma, events, since,
                     taken, coded, moved, total, clean>>
  BY DEF Control, IInv, fmt, data, op
<1>2. /\ Cleared \in [{0, 1} -> Buffers]
      /\ \A i \in {0, 1} : Cleared[i].size # DISK
  BY DEF Cleared, Buffers, Buffer, EMPTY, DATA, DISK
<1>3. /\ ecc' \in Engine /\ ecc'.state = "DONE"
      /\ ecc'.buf = Cleared \/ ecc'.buf = ecc.buf
  BY <1>1, <1>2 DEF TypeOK, Engine
<1>4. TypeOK'
  BY <1>1, <1>3 DEF TypeOK
<1>5. EngineFits'
  BY <1>1, <1>3 DEF EngineFits
<1>6. BuffersFit'
  BY <1>1, <1>2, <1>3 DEF BuffersFit
<1>7. Unfilled' /\ Writing' /\ Reading' /\ Verifying'
  BY <1>1, <1>3 DEF Unfilled, Writing, Reading, Verifying
<1>8. Resting' /\ Lasting' /\ EventsTrue'
  BY <1>1, <1>3 DEF IInv, Resting, Lasting, EventsTrue, Nothing, Sectors
<1> QED BY <1>4, <1>5, <1>6, <1>7, <1>8 DEF IInv

-----------------------------------------------------------------------------
(***************************************************************************)
(* The theorems.                                                           *)
(***************************************************************************)

LEMMA InitInvariant == Init => IInv
<1> SUFFICES ASSUME Init PROVE IInv
  OBVIOUS
<1>1. Cleared \in [{0, 1} -> Buffers] /\ \A i \in {0, 1} : Cleared[i].size # DISK
  BY DEF Cleared, Buffers, Buffer, EMPTY, DATA, DISK
<1>2. TypeOK
  BY <1>1, StepAssumption DEF Init, TypeOK, Engine, States
<1>3. EngineFits /\ BuffersFit
  BY <1>1 DEF Init, EngineFits, BuffersFit
<1>4. Unfilled /\ Writing /\ Reading /\ Verifying
  BY DEF Init, Unfilled, Writing, Reading, Verifying
<1>5. Resting /\ Lasting /\ EventsTrue
  BY DEF Init, Resting, Lasting, EventsTrue, Nothing, InOrder
<1> QED BY <1>2, <1>3, <1>4, <1>5 DEF IInv

LEMMA NextInvariant == IInv /\ [Next]_vars => IInv'
<1> SUFFICES ASSUME IInv, [Next]_vars PROVE IInv'
  OBVIOUS
<1>1. CASE ECC_IO_Handler
  <2>1. Filling \/ Encoding \/ WaitingForRead \/ Decoding \/ Draining \/ Waiting \/ Late
    BY <1>1 DEF ECC_IO_Handler
  <2> QED BY <1>1, <2>1, FillingKeeps, EncodingKeeps, WaitingForReadKeeps, DecodingKeeps,
             DrainingKeeps, WaitingKeeps, LateKeeps
<1>2. CASE Sector
  <2>1. ReadSector \/ WriteSector \/ OtherSector \/ ReadId
    BY <1>2 DEF Sector
  <2> QED BY <1>2, <2>1, ReadSectorKeeps, WriteSectorKeeps, OtherSectorKeeps, ReadIdKeeps
<1>3. CASE Guest
  BY <1>3, BeginKeeps, ResetKeeps, ControlKeeps DEF Guest
<1>4. CASE UNCHANGED vars
  <2>1. /\ UNCHANGED <<fmt_mode, sector_count, write_timing, gap, ecc, blocks, dma, events,
                       since, taken, coded, moved, total, clean>>
        /\ In' = In /\ Out' = Out /\ Sectors' = Sectors /\ Nothing' = Nothing
    BY <1>4 DEF vars, fmt, data, op, In, Out, Sectors, Nothing
  <2>2. TypeOK' /\ EngineFits' /\ BuffersFit' /\ Unfilled'
    BY <2>1 DEF IInv, TypeOK, EngineFits, BuffersFit, Unfilled
  <2>3. Writing' /\ Reading' /\ Verifying'
    BY <2>1 DEF IInv, Writing, Reading, Verifying, Repeats
  <2>4. Resting' /\ Lasting' /\ EventsTrue'
    BY <2>1 DEF IInv, Resting, Lasting, EventsTrue
  <2> QED BY <2>2, <2>3, <2>4 DEF IInv
<1> QED BY <1>1, <1>2, <1>3, <1>4 DEF Next

\* The invariant of the pipeline holds always, with resets of the formatter and of
\* the machine at any time.
THEOREM PipelineInvariant == Spec => []IInv
BY InitInvariant, NextInvariant, PTL DEF Spec

\* The formatter, the engine and the history of the operation keep their types.
THEOREM TypeCorrect == Spec => []TypeOK
<1>1. IInv => TypeOK
  BY DEF IInv
<1> QED BY <1>1, PipelineInvariant, PTL

\* Neither the disk nor the memory gets a block out of its turn or twice, and an
\* operation that has ended has moved all of them (mo.c:916-997).
THEOREM MovesAllInOrder == Spec => []BlocksInOrder
<1>1. IInv => BlocksInOrder
  <2> SUFFICES ASSUME IInv, clean
               PROVE  /\ \A i \in DOMAIN moved : moved[i] = i
                      /\ Ended /\ total > 0 /\ coded + taken > 0 => Len(moved) = total
    BY DEF BlocksInOrder
  <2>1. \A i \in DOMAIN moved : moved[i] = i
    BY DEF IInv, Lasting, InOrder
  <2>2. ASSUME Ended, coded + taken > 0
        PROVE  Len(moved) = total
    <3>1. ~Nothing
      BY <2>2 DEF Nothing
    <3>2. sector_count = 0 /\ Len(moved) = Sectors
      BY <2>2, <3>1 DEF IInv, Lasting, Resting, Ended
    <3> QED BY <3>2 DEF IInv, TypeOK, Sectors
  <2> QED BY <2>1, <2>2
<1> QED BY <1>1, PipelineInvariant, PTL

\* The emulator never stops at the assertions of ecc_encode and mo_write_sector,
\* also in operations that begin in the middle of what a reset left.
THEOREM NeverAborts == Spec => []NoAbort
<1>1. IInv => NoAbort
  <2> SUFFICES ASSUME IInv PROVE NoAbort
    OBVIOUS
  <2>1. ecc.armed /\ ecc.state = "ECCING" /\ ecc.mode = "WRITE" => ecc.buf[In].limit = DATA
    BY DEF IInv, BuffersFit
  <2>2. ASSUME SectorDue, fmt_mode = "WRITE", write_timing
        PROVE  ecc.buf[Out].limit = DISK
    <3>1. /\ ecc.state # "DONE" /\ ecc.mode = "WRITE" /\ since = Steps /\ Writing
      BY <2>2 DEF IInv, EngineFits, SectorDue
    <3>2. ~(since <= 1) /\ ~(since <= 2) /\ since # 0
      BY <3>1, StepAssumption
    <3>3. ecc.buf[Out] = Buffer(DISK, DISK, taken)
      BY <2>2, <3>1, <3>2 DEF Writing
    <3> QED BY <3>3 DEF Buffer
  <2> QED BY <2>1, <2>2 DEF NoAbort
<1> QED BY <1>1, PipelineInvariant, PTL

\* The engine tells the guest that it is done with the last block only when it is,
\* and never that it starves when the channel was set up in time.
THEOREM TellsTheTruth == Spec => []EventsTrue
<1>1. IInv => EventsTrue
  BY DEF IInv
<1> QED BY <1>1, PipelineInvariant, PTL
=============================================================================
