--------------------------- MODULE MCPCIeDataPath ---------------------------
(***************************************************************************)
(* Loads for the data path.  Two channels share the buffers and the link.  *)
(***************************************************************************)
EXTENDS PCIeDataPath

Cmd(cmd, chan, bank) == [cmd |-> cmd, chan |-> chan, bank |-> bank]

\* Writes of one bank, or of two banks, beside a read of the other channel;
\* reads of one bank and its neighbour; reads of both channels, which compete
\* for the read buffer; writes of one bank and a read of the other.
PassLoads ==
  {<<Cmd("WRITE", 0, 0), Cmd("READ", 1, 0), Cmd("WRITE", 0, 0)>>,
   <<Cmd("WRITE", 0, 0), Cmd("WRITE", 0, 1), Cmd("READ", 1, 0)>>,
   <<Cmd("READ", 0, 0), Cmd("READ", 0, 1), Cmd("READ", 0, 0)>>,
   <<Cmd("READ", 0, 0), Cmd("READ", 1, 0)>>,
   <<Cmd("WRITE", 0, 0), Cmd("READ", 0, 1), Cmd("WRITE", 0, 0)>>}

\* A write followed by a read of the same bank.
SameBank == {<<Cmd("WRITE", 0, 0), Cmd("READ", 0, 0)>>}

\* Entries from the last one of the submission queue on.
Wrapping == {[first |-> 2, len |-> 2]}
=============================================================================
