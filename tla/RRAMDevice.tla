----------------------------- MODULE RRAMDevice -----------------------------
(***************************************************************************)
(* TeraSMemoryDevice: per channel and bank two data latches between the    *)
(* ONFI channel and the pages, and the processes that move code words      *)
(* through them.                                                           *)
(*                                                                         *)
(*   write:  channel -> DL2 (command received) -> DL1 -> page              *)
(*           (program time later) -> response                              *)
(*   read:   page -> DL1 (read time after the command) -> DL2 ->           *)
(*           channel (bank select) -> response                             *)
(*                                                                         *)
(* A payload is [addr, bank, data]: the command queue address and the bank *)
(* of a code word and the name of the data it carries.  The pages of one   *)
(* code word are one page here, there is one die, and what a page holds is *)
(* named after the code word that reads it.                                *)
(***************************************************************************)
EXTENDS SystemC

CONSTANTS
  NumChans,   \* mChanNum
  NumBanks    \* mCodeWordNum: code word banks of a channel

ASSUME DeviceAssumption ==
  NumChans \in Nat \ {0} /\ NumBanks \in Nat \ {0}

Chan == 0 .. NumChans - 1
Bank == 0 .. NumBanks - 1

Free == <<>>    \* an empty latch; otherwise it holds the name of its data

VARIABLES
  dl1, dl2,          \* mDataLatch1Status/mPhysicalDataLatch1, and 2
  emulation,         \* mEmulationDataCache
  readBankQ,         \* mReadBankIndexQueue: one for all channels
  writeBankQ,        \* mWriteBankIndexQueue: one for all channels
  phyBank,           \* bankIndex of phyDl2WriteThread, or -1
  readData           \* mReadData of the controller, filled through the payload

deviceVars ==
  <<dl1, dl2, emulation, readBankQ, writeBankQ, phyBank, readData>>

DeviceProcs == {"ackWrite", "ackRead", "memRead", "accRead", "accWrite"}

\* Each method waits for the queue of the same name; phyDl2WriteThread is
\* sensitive to mPhyDL2WriteEvent.
DeviceThreads == (DeviceProcs \cup {"phyDl2Write"}) \X Chan

DeviceInit ==
  /\ dl1 = [c \in Chan |-> [b \in Bank |-> Free]]
  /\ dl2 = [c \in Chan |-> [b \in Bank |-> Free]]
  /\ emulation = [c \in Chan |-> Free]
  /\ readBankQ = <<>> /\ writeBankQ = <<>>
  /\ phyBank = [c \in Chan |-> -1]
  /\ readData = [c \in Chan |-> Free]

\* nb_transport_fw(BEGIN_REQ): the queue of the operation code.
QueueOfCode(code, c) ==
  CASE code = "ONFI_WRITE_COMMAND" -> <<"ackWrite", c>>
    [] code = "ONFI_READ_COMMAND" -> <<"ackRead", c>>
    [] code = "ONFI_BANK_SELECT_COMMAND" -> <<"memRead", c>>

nb_transport_fw(pq, code, c, payload) == Post(pq, QueueOfCode(code, c), payload)

\* A method ends when no expired entry of its queue q is left in pq.
EndOfLoop(p, pq) == IF pq[p].due = <<>> THEN Wait(p, {p}) ELSE GoOn(p)

copyDataFromEmulationCache(latch, data) == IF latch = Free THEN data ELSE latch

sendBackWriteACKMethod(c) ==
  LET p == <<"ackWrite", c>>
      w == Head(peq[p].due) IN
  /\ Turn(p)
  /\ emulation' = [emulation EXCEPT ![c] = w.data]
  /\ dl2' = [dl2 EXCEPT ![c][w.bank] = copyDataFromEmulationCache(@, w.data)]
  /\ writeBankQ' = Append(writeBankQ, w.bank)
  /\ peq' = Post(Take(peq, p), <<"accWrite", c>>, w)
  /\ Notify({<<"mEndReq", c>>})
  /\ EndOfLoop(p, peq')
  /\ UNCHANGED <<dl1, readBankQ, phyBank, readData>>

sendBackReadACKMethod(c) ==
  LET p == <<"ackRead", c>>
      r == Head(peq[p].due) IN
  /\ Turn(p)
  /\ peq' = Post(Take(peq, p), <<"accRead", c>>, r)
  /\ Notify({<<"mEndReq", c>>})
  /\ EndOfLoop(p, peq')
  /\ UNCHANGED deviceVars

\* Mutant: DL2 is not loaded into the cache.
EmulationCacheAsIs(c, b) == emulation[c]

\* Bank select: whatever DL2 holds goes out over the channel; if it is free
\* the cache is sent as it is.
copyDataToEmulationCache(c, b) == IF dl2[c][b] = Free THEN emulation[c] ELSE dl2[c][b]

memReadMethod(c) ==
  LET p == <<"memRead", c>>
      r == Head(peq[p].due) IN
  /\ Turn(p)
  /\ emulation' = [emulation EXCEPT ![c] = copyDataToEmulationCache(c, r.bank)]
  /\ dl2' = [dl2 EXCEPT ![c][r.bank] = Free]
  /\ readData' = [readData EXCEPT ![c] = emulation'[c]]
  /\ peq' = Post(Take(peq, p), <<"checkResp", c>>, "READ")
  /\ Notify({<<"mPhyDL2Free", c>>})
  /\ EndOfLoop(p, peq')
  /\ UNCHANGED <<dl1, readBankQ, writeBankQ, phyBank>>

copyDataToDataLatch1(latch, data) == IF latch = Free THEN data ELSE latch

memAccessReadMethod(c) ==
  LET p == <<"accRead", c>>
      r == Head(peq[p].due) IN
  /\ Turn(p)
  /\ dl1' = [dl1 EXCEPT ![c][r.bank] = copyDataToDataLatch1(@, r.data)]
  /\ readBankQ' = Append(readBankQ, r.bank)
  /\ peq' = Take(peq, p)
  /\ Notify({<<"mPhyDL2Write", c>>})
  /\ EndOfLoop(p, peq')
  /\ UNCHANGED <<dl2, emulation, writeBankQ, phyBank, readData>>

\* phyDl2WriteThread: takes the next bank of the shared queue ...
PhyDl2Takes(c) ==
  LET p == <<"phyDl2Write", c>> IN
  /\ Turn(p) /\ phyBank[c] = -1 /\ readBankQ # <<>>
  /\ phyBank' = [phyBank EXCEPT ![c] = Head(readBankQ)]
  /\ readBankQ' = Tail(readBankQ)
  /\ IF dl2[c][Head(readBankQ)] # Free
     THEN Wait(p, {<<"mPhyDL2Free", c>>}) ELSE GoOn(p)
  /\ UNCHANGED <<dl1, dl2, emulation, writeBankQ, readData, pending, peq>>

\* ... and moves DL1 to DL2 if it can, without looking a second time.
PhyDl2Moves(c) ==
  LET p == <<"phyDl2Write", c>>
      b == phyBank[c] IN
  /\ Turn(p) /\ b # -1
  /\ IF dl2[c][b] = Free /\ dl1[c][b] # Free
     THEN /\ dl2' = [dl2 EXCEPT ![c][b] = dl1[c][b]]
          /\ dl1' = [dl1 EXCEPT ![c][b] = Free]
     ELSE UNCHANGED <<dl1, dl2>>
  /\ phyBank' = [phyBank EXCEPT ![c] = -1]
  /\ GoOn(p)
  /\ UNCHANGED <<emulation, readBankQ, writeBankQ, readData, pending, peq>>

PhyDl2Sleeps(c) ==
  LET p == <<"phyDl2Write", c>> IN
  /\ Turn(p) /\ phyBank[c] = -1 /\ readBankQ = <<>>
  /\ Wait(p, {<<"mPhyDL2Write", c>>})
  /\ UNCHANGED <<deviceVars, pending, peq>>

\* The page is written from DL1, which is loaded from DL2 and freed at once;
\* the response is sent without delay.
memAccessWriteMethod(c) ==
  LET p == <<"accWrite", c>>
      b == Head(writeBankQ) IN
  /\ Turn(p)
  /\ writeBankQ' = Tail(writeBankQ)
  /\ dl1' = [dl1 EXCEPT ![c][b] = Free]
  /\ dl2' = [dl2 EXCEPT ![c][b] = Free]
  /\ peq' = PostNow(Take(peq, p), <<"checkResp", c>>, "WRITE")
  /\ Notify({<<"checkResp", c>>})
  /\ EndOfLoop(p, peq')
  /\ UNCHANGED <<emulation, readBankQ, phyBank, readData>>

DeviceStep(c) ==
  \/ sendBackWriteACKMethod(c) \/ sendBackReadACKMethod(c)
  \/ memReadMethod(c) \/ memAccessReadMethod(c) \/ memAccessWriteMethod(c)
  \/ PhyDl2Takes(c) \/ PhyDl2Moves(c) \/ PhyDl2Sleeps(c)
=============================================================================
