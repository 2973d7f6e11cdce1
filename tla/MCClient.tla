------------------------------ MODULE MCClient ------------------------------
(* What autousi's client and the server say to each other: the download with   *)
(* its files on the client's disk, over connections that are taken for whole,   *)
(* and the upload with one short download, byte by byte. They are checked side  *)
(* by side: a behaviour is one of the two (`side').                             *)
(*                                                                              *)
(* The first weight has fewer blocks than the second, the third has more than   *)
(* either. Of the records to upload one fits into the server's buffer together  *)
(* with its header exactly and one is too long; a weight of five parts is sent  *)
(* in pieces of two.                                                            *)
EXTENDS WghtFetch, Sequences

CONSTANTS None_, Conns, MaxAccept, MaxRecv, MaxSend, LenBlock, LenWght, NRec, LenRec,
          SndMaxRetry, Resets, Works
VARIABLES conn, peer, wght, taken, ignored, snd, nsend, ndiscard, has_conn, stop, via, ld,
          side

MCNBlock  == [w \in 0 .. MaxWght |-> IF w = 1 THEN 1 ELSE 2 + (w \div 2)]
MCConns   == 0 .. 3
MCLenWght == <<5, 2>>
MCLenRec  == <<1, 2>>
MCWorks   == {[games |-> 2, load |-> FALSE], [games |-> 0, load |-> TRUE]}

\* Connections are numbered from that of the download; a record, a weight and a
\* block have a length; and handle_send() has room for the number in front of a
\* block and for a part of it (listen.cpp:429 asserts that 4 bytes fit).
ASSUME UploadAssumption ==
  /\ Conns \subseteq Nat /\ 0 \in Conns /\ None_ \notin Nat
  /\ MaxAccept \in Nat /\ MaxRecv \in Nat /\ MaxSend \in Nat /\ MaxSend >= 2
  /\ LenBlock \in Nat \ {0}
  /\ LenWght \in Seq(Nat \ {0}) /\ LenWght # <<>>
  /\ NRec \in Nat /\ LenRec \in [1 .. NRec -> Nat \ {0}]
  /\ Works \subseteq [games : 0 .. NRec, load : BOOLEAN]

U == INSTANCE Upload WITH None <- None_, MaxRetry <- SndMaxRetry
upload == <<conn, peer, wght, taken, ignored, snd, nsend, ndiscard, has_conn, stop, via, ld>>

MCInit == /\ side \in {"download", "upload"}
          /\ Init
          /\ U!Init /\ (side = "download" => ld.pc = "loaded")
MCNext == \/ side = "download" /\ Next   /\ UNCHANGED <<upload, side>>
          \/ side = "upload"   /\ U!Next /\ UNCHANGED <<vars, side>>
MCFairness == /\ WF_vars(side = "download" /\ Step)
              /\ WF_upload(side = "upload" /\ U!Client)
              /\ WF_upload(side = "upload" /\ U!End)
MCSpec == MCInit /\ [][MCNext]_<<vars, upload, side>> /\ MCFairness

\* WghtFetch's liveness, for the behaviours of the download.
DownloadCatchesUp == side = "download" => CatchesUp
\* Upload's properties; its liveness for the behaviours of the upload.
RecordedOnceAndWhole == U!RecordedOnceAndWhole
SentArrives          == U!SentArrives
AnswersAsAsked       == U!AnswersAsAsked
SenderEnds           == side = "upload" => U!SenderGoesOn /\ U!QuitEndsSenderUnlessBlocking
=============================================================================
