----------------------------- MODULE CatalogProofs -----------------------------
(***************************************************************************)
(* Lemmas about the steps of IcebergCatalog that the proofs about its      *)
(* clients share: types, the metadata-pointer log, what is under way and   *)
(* what is awaited.                                                        *)
(***************************************************************************)
EXTENDS IcebergCatalog, FiniteSetTheorems, TLAPS

-----------------------------------------------------------------------------
(* Types.                                                                  *)

\* Sending and receiving keep the types of the catalog's state.
LEMMA SendType ==
  ASSUME NEW Ids, NEW Keys, CatalogTypeOK(Ids, Keys), NEW c \in Ids, NEW key \in SUBSET Keys,
         Send(c, key)
  PROVE  CatalogTypeOK(Ids, Keys)'
  <1>1. [id |-> c, key |-> key] \in [id : Ids, key : SUBSET Keys]
    OBVIOUS
  <1>. QED
    BY <1>1 DEF CatalogTypeOK, Send

\* Receiving an answer keeps the types of the catalog.
LEMMA ReceiveType ==
  ASSUME NEW Ids, NEW Keys, CatalogTypeOK(Ids, Keys), NEW c, NEW s, Receive(c, s)
  PROVE  CatalogTypeOK(Ids, Keys)'
  BY DEF CatalogTypeOK, Receive

\* Answering keeps the types of the connections and of the answers.
LEMMA RespondType ==
  ASSUME NEW Ids, NEW Keys, CatalogTypeOK(Ids, Keys), NEW c \in Ids, NEW s \in Statuses,
         Respond(c, s)
  PROVE  /\ open' \in SUBSET Ids
         /\ answers' \in SUBSET [id : Ids, status : Statuses]
  BY DEF CatalogTypeOK, Respond

\* So does every step of the catalog.
LEMMA CatalogType ==
  ASSUME NEW Ids, NEW Keys, CatalogTypeOK(Ids, Keys), CatalogNext
  PROVE  CatalogTypeOK(Ids, Keys)'
  <1>s. Statuses = {"2xx", "409", "error"}
    BY DEF Statuses
  <1>r. ASSUME NEW r \in requests \cup reading
        PROVE  r.id \in Ids /\ r.key \in SUBSET Keys
    BY DEF CatalogTypeOK
  <1>1. ASSUME NEW r \in requests, ReadVersion(r) PROVE CatalogTypeOK(Ids, Keys)'
    <2>1. Version \in Nat
      BY DEF CatalogTypeOK, Version
    <2>. QED
      BY <1>1, <1>r, <2>1 DEF CatalogTypeOK, ReadVersion
  <1>2. ASSUME NEW r \in requests, Replay(r) PROVE CatalogTypeOK(Ids, Keys)'
    <2>1. open' \in SUBSET Ids /\ answers' \in SUBSET [id : Ids, status : Statuses]
      BY <1>2, <1>s, <1>r, RespondType DEF Replay
    <2>. QED
      BY <1>2, <2>1 DEF CatalogTypeOK, Replay
  <1>3. ASSUME NEW r \in reading, Land(r) PROVE CatalogTypeOK(Ids, Keys)'
    <2>1. open' \in SUBSET Ids /\ answers' \in SUBSET [id : Ids, status : Statuses]
      BY <1>3, <1>s, <1>r, RespondType DEF Land
    <2>2. log' \in Seq(Ids \cup {RivalCall})
      BY <1>3, <1>r DEF CatalogTypeOK, Land
    <2>. QED
      BY <1>3, <1>r, <2>1, <2>2 DEF CatalogTypeOK, Land
  <1>4. ASSUME NEW r \in reading, Conflict(r) PROVE CatalogTypeOK(Ids, Keys)'
    <2>1. open' \in SUBSET Ids /\ answers' \in SUBSET [id : Ids, status : Statuses]
      BY <1>4, <1>s, <1>r, RespondType DEF Conflict
    <2>. QED
      BY <1>4, <2>1 DEF CatalogTypeOK, Conflict
  <1>5. ASSUME NEW r \in reading, ServerError(r) PROVE CatalogTypeOK(Ids, Keys)'
    <2>1. open' \in SUBSET Ids /\ answers' \in SUBSET [id : Ids, status : Statuses]
      BY <1>5, <1>s, <1>r, RespondType DEF ServerError
    <2>. QED
      BY <1>5, <2>1 DEF CatalogTypeOK, ServerError
  <1>6. ASSUME NEW c \in open, Disconnect(c) PROVE CatalogTypeOK(Ids, Keys)'
    BY <1>6 DEF CatalogTypeOK, Disconnect, Statuses
  <1>7. ASSUME RivalCommit PROVE CatalogTypeOK(Ids, Keys)'
    BY <1>7 DEF CatalogTypeOK, RivalCommit
  <1>. QED
    BY <1>1, <1>2, <1>3, <1>4, <1>5, <1>6, <1>7 DEF CatalogNext, Progress, Trouble

-----------------------------------------------------------------------------
(* The log.                                                                *)

\* The calls that the catalog works on, and those of the program that have
\* landed.
UnderWay == {r.id : r \in requests \cup reading}
OwnLanded == Landed \ {RivalCall}

\* Landing one more call adds it to the landed ones.
LEMMA LandedGrows ==
  ASSUME NEW Ids, NEW Keys, CatalogTypeOK(Ids, Keys), NEW c, log' = Append(log, c)
  PROVE  /\ Landed' = Landed \cup {c} /\ OwnLanded' = OwnLanded \cup ({c} \ {RivalCall})
         /\ DOMAIN log' = DOMAIN log \cup {Len(log) + 1} /\ Len(log) + 1 \notin DOMAIN log
         /\ \A j \in DOMAIN log : log'[j] = log[j]
         /\ log'[Len(log) + 1] = c /\ Len(log') = Len(log) + 1
  <1>1. log \in Seq(Ids \cup {RivalCall}) /\ Len(log) \in Nat /\ DOMAIN log = 1..Len(log)
    BY DEF CatalogTypeOK
  <1>2. /\ DOMAIN log' = DOMAIN log \cup {Len(log) + 1} /\ Len(log) + 1 \notin DOMAIN log
        /\ \A j \in DOMAIN log : log'[j] = log[j]
        /\ log'[Len(log) + 1] = c /\ Len(log') = Len(log) + 1
    BY <1>1
  <1>3. Landed' = Landed \cup {c}
    BY <1>2 DEF Landed
  <1>. QED
    BY <1>2, <1>3 DEF OwnLanded, RivalCall

\* Nothing lands while the log stays as it is.
LEMMA LandedStays ==
  ASSUME log' = log
  PROVE  Landed' = Landed /\ OwnLanded' = OwnLanded /\ Version' = Version
  BY DEF Landed, OwnLanded, RivalCall, Version

\* The landed calls are finitely many.
LEMMA CatalogLandedFinite ==
  ASSUME NEW Ids, NEW Keys, CatalogTypeOK(Ids, Keys)
  PROVE  IsFiniteSet(Landed)
  <1>1. /\ DOMAIN log = 1..Len(log) /\ Len(log) \in Nat
        /\ log \in [DOMAIN log -> Landed]
        /\ \A c \in Landed : \E m \in DOMAIN log : log[m] = c
    BY DEF CatalogTypeOK, Landed
  <1>2. IsFiniteSet(DOMAIN log)
    BY <1>1, FS_Interval
  <1>3. log \in Surjection(DOMAIN log, Landed)
    BY <1>1 DEF Surjection
  <1>. QED
    BY <1>2, <1>3, FS_Surjection

-----------------------------------------------------------------------------
(* What is under way.                                                      *)

\* Sending adds one call under way.
LEMMA SendCalls ==
  ASSUME NEW c, NEW key, Send(c, key)
  PROVE  UnderWay' = UnderWay \cup {c} /\ Landed' = Landed /\ OwnLanded' = OwnLanded
  <1>. DEFINE q == [id |-> c, key |-> key]
  <1>1. q.id = c /\ requests' = requests \cup {q} /\ UNCHANGED <<reading, log>>
    BY DEF Send
  <1>2. Landed' = Landed /\ OwnLanded' = OwnLanded
    BY <1>1, LandedStays
  <1>. HIDE DEF q
  <1>. QED
    BY <1>1, <1>2 DEF UnderWay

\* The catalog makes up no calls: what is under way or has landed was sent.
LEMMA CatalogCalls ==
  ASSUME NEW Ids, NEW Keys, CatalogTypeOK(Ids, Keys), CatalogNext
  PROVE  /\ UnderWay' \subseteq UnderWay
         /\ OwnLanded \subseteq OwnLanded' /\ OwnLanded' \subseteq OwnLanded \cup UnderWay
         /\ Landed \subseteq Landed' /\ Landed' \subseteq Landed \cup UnderWay \cup {RivalCall}
  <1>. DEFINE P == /\ UnderWay' \subseteq UnderWay
                   /\ OwnLanded \subseteq OwnLanded' /\ OwnLanded' \subseteq OwnLanded \cup UnderWay
                   /\ Landed \subseteq Landed' /\ Landed' \subseteq Landed \cup UnderWay \cup {RivalCall}
  <1>1. ASSUME NEW r \in requests, ReadVersion(r) PROVE P
    <2>. DEFINE q == [id |-> r.id, key |-> r.key, base |-> Version]
    <2>1. q.id = r.id /\ requests' \subseteq requests /\ reading' = reading \cup {q} /\ log' = log
      BY <1>1 DEF ReadVersion
    <2>. HIDE DEF q
    <2>. QED
      BY <2>1, LandedStays DEF UnderWay
  <1>2. ASSUME NEW r \in reading, Land(r) PROVE P
    <2>1. log' = Append(log, r.id) /\ requests' = requests /\ reading' \subseteq reading
      BY <1>2 DEF Land
    <2>2. Landed' = Landed \cup {r.id} /\ OwnLanded' = OwnLanded \cup ({r.id} \ {RivalCall})
      BY <2>1, LandedGrows
    <2>. QED
      BY <2>1, <2>2 DEF UnderWay
  <1>3. CASE RivalCommit
    <2>1. log' = Append(log, RivalCall) /\ requests' = requests /\ reading' = reading
      BY <1>3 DEF RivalCommit
    <2>2. Landed' = Landed \cup {RivalCall} /\ OwnLanded' = OwnLanded
      BY <2>1, LandedGrows
    <2>. QED
      BY <2>1, <2>2 DEF UnderWay
  <1>4. CASE log' = log /\ requests' \subseteq requests /\ reading' \subseteq reading
    BY <1>4, LandedStays DEF UnderWay
  <1>. QED
    BY <1>1, <1>2, <1>3, <1>4 DEF CatalogNext, Progress, Trouble, Replay, Conflict, ServerError,
      Disconnect

-----------------------------------------------------------------------------
(* What is awaited.                                                        *)

\* The calls whose answer the program still waits for.
Awaited == open \cup {a.id : a \in answers}

\* A call gets one answer.
OneAnswer ==
  /\ \A a \in answers : a.id \notin open
  /\ \A a, b \in answers : a.id = b.id => a = b

\* Sending a call adds it to the awaited ones.
LEMMA SendAwaits ==
  ASSUME NEW c, NEW key, Send(c, key)
  PROVE  open' = open \cup {c} /\ answers' = answers /\ Awaited' = Awaited \cup {c}
  BY DEF Send, Awaited

\* Receiving the answer to a call takes the call from the awaited ones.
LEMMA ReceiveAwaits ==
  ASSUME OneAnswer, NEW c, NEW s, Receive(c, s)
  PROVE  /\ c \in Awaited /\ Awaited' = Awaited \ {c} /\ OneAnswer'
         /\ open' = open /\ answers' = answers \ {[id |-> c, status |-> s]}
         /\ \A a \in answers' : a.id # c
  <1>. DEFINE b == [id |-> c, status |-> s]
  <1>1. b \in answers /\ b.id = c /\ answers' = answers \ {b} /\ open' = open
    BY DEF Receive
  <1>2. c \notin open /\ \A a \in answers : a.id = c => a = b
    BY <1>1 DEF OneAnswer
  <1>3. answers' = answers \ {[id |-> c, status |-> s]}
    BY <1>1
  <1>. HIDE DEF b
  <1>. QED
    BY <1>1, <1>2, <1>3 DEF Awaited, OneAnswer

\* The catalog answers and disconnects, and leaves what is awaited as it is.
LEMMA CatalogAwaits ==
  ASSUME OneAnswer, CatalogNext
  PROVE  Awaited' = Awaited /\ OneAnswer'
  <1>. DEFINE P == Awaited' = Awaited /\ OneAnswer'
  <1>1. CASE UNCHANGED <<open, answers>>
    BY <1>1 DEF OneAnswer, Awaited
  <1>2. ASSUME NEW c \in open, NEW s, open' = open \ {c},
               answers' = answers \cup {[id |-> c, status |-> s]}
        PROVE  P
    <2>. DEFINE b == [id |-> c, status |-> s]
    <2>1. b.id = c /\ answers' = answers \cup {b}
      BY <1>2
    <2>2. \A a \in answers : a.id # c
      BY DEF OneAnswer
    <2>. HIDE DEF b
    <2>. QED
      BY <1>2, <2>1, <2>2 DEF OneAnswer, Awaited
  <1>3. ASSUME NEW c, NEW s, Respond(c, s) PROVE P
    BY <1>1, <1>2, <1>3 DEF Respond
  <1>4. ASSUME NEW c \in open, Disconnect(c) PROVE P
    BY <1>2, <1>4 DEF Disconnect
  <1>5. CASE RivalCommit \/ \E r \in requests : ReadVersion(r)
    BY <1>1, <1>5 DEF RivalCommit, ReadVersion
  <1>. QED
    BY <1>3, <1>4, <1>5 DEF CatalogNext, Progress, Trouble, Replay, Land, Conflict, ServerError
=============================================================================
