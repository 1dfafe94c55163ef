--------------------------- MODULE StoreMapsProofs ---------------------------
(***************************************************************************)
(* What the two commits do to the maps, for any session and any record:    *)
(* they keep what is stored, and they keep the maps in agreement.          *)
(***************************************************************************)
EXTENDS StoreMaps, TLAPS

\* A commit replaces and removes nothing in any of the maps.
LEMMA CommitCompletedKeeps ==
  ASSUME NEW session, NEW record, CommitCompleted(session, record)
  PROVE  /\ Keeps(sessions, sessions')
         /\ Keeps(responses, responses')
         /\ Keeps(turns, turns')
<1>1. /\ session.response_id \notin DOMAIN sessions
      /\ session.response_id \notin DOMAIN responses
      /\ record.turn_id \notin DOMAIN turns
  BY DEF CommitCompleted, AcceptsCompleted, Vacant
<1> QED
  BY <1>1 DEF CommitCompleted, Put, Keeps

LEMMA CommitTerminalKeeps ==
  ASSUME NEW response_id, NEW response, NEW record,
         CommitTerminal(response_id, response, record)
  PROVE  /\ Keeps(sessions, sessions')
         /\ Keeps(responses, responses')
         /\ Keeps(turns, turns')
<1>1. /\ response_id \notin DOMAIN responses
      /\ record.turn_id \notin DOMAIN turns
  BY DEF CommitTerminal, AcceptsTerminal, Vacant
<1> QED
  BY <1>1 DEF CommitTerminal, Put, Keeps

\* commit_completed keeps the maps in agreement: the ids it adds are new to
\* all of them, and the session and the record speak of the same response.
LEMMA CommitCompletedAgrees ==
  ASSUME NEW session, NEW record, MapsAgree, CommitCompleted(session, record)
  PROVE  MapsAgree'
<1> DEFINE r == session.response_id
           u == record.turn_id
<1>1. /\ r \notin DOMAIN sessions /\ r \notin DOMAIN responses /\ u \notin DOMAIN turns
      /\ record.response_id = r
      /\ record.outcome = "Completed"
  BY DEF CommitCompleted, AcceptsCompleted, CompletedMatches, Vacant
<1>2. /\ DOMAIN sessions' = DOMAIN sessions \cup {r}
      /\ sessions'[r] = session
      /\ \A k \in DOMAIN sessions : sessions'[k] = sessions[k]
  BY <1>1 DEF CommitCompleted, Put
<1>3. /\ DOMAIN responses' = DOMAIN responses \cup {r}
      /\ responses'[r] = session.final_response_json
      /\ \A k \in DOMAIN responses : responses'[k] = responses[k]
  BY <1>1 DEF CommitCompleted, Put
<1>4. /\ DOMAIN turns' = DOMAIN turns \cup {u}
      /\ turns'[u] = record
      /\ \A k \in DOMAIN turns : turns'[k] = turns[k]
  BY <1>1 DEF CommitCompleted, Put
<1> HIDE DEF r, u
<1>5. SessionsHaveResponses'
  BY <1>1, <1>2, <1>3 DEF MapsAgree, SessionsHaveResponses, r
<1>6. TurnsHaveResponses'
  BY <1>1, <1>2, <1>3, <1>4 DEF MapsAgree, TurnsHaveResponses, u
<1>7. OneTurnPerResponse'
  BY <1>1, <1>3, <1>4 DEF MapsAgree, TurnsHaveResponses, OneTurnPerResponse
<1> QED
  BY <1>5, <1>6, <1>7 DEF MapsAgree

\* commit_terminal keeps the maps in agreement: its response is new and is
\* no session's, and its record is of a turn that did not complete.
LEMMA CommitTerminalAgrees ==
  ASSUME NEW response_id, NEW response, NEW record, MapsAgree,
         CommitTerminal(response_id, response, record)
  PROVE  MapsAgree'
<1> DEFINE u == record.turn_id
<1>1. /\ response_id \notin DOMAIN sessions
      /\ response_id \notin DOMAIN responses
      /\ u \notin DOMAIN turns
      /\ record.response_id = response_id
      /\ record.outcome # "Completed"
  BY DEF CommitTerminal, AcceptsTerminal, TerminalMatches, Vacant
<1>2. sessions' = sessions
  BY DEF CommitTerminal
<1>3. /\ DOMAIN responses' = DOMAIN responses \cup {response_id}
      /\ \A k \in DOMAIN responses : responses'[k] = responses[k]
  BY <1>1 DEF CommitTerminal, Put
<1>4. /\ DOMAIN turns' = DOMAIN turns \cup {u}
      /\ turns'[u] = record
      /\ \A k \in DOMAIN turns : turns'[k] = turns[k]
  BY <1>1 DEF CommitTerminal, Put
<1> HIDE DEF u
<1>5. SessionsHaveResponses'
  BY <1>2, <1>3 DEF MapsAgree, SessionsHaveResponses
<1>6. TurnsHaveResponses'
  BY <1>1, <1>2, <1>3, <1>4 DEF MapsAgree, TurnsHaveResponses, u
<1>7. OneTurnPerResponse'
  BY <1>1, <1>3, <1>4 DEF MapsAgree, TurnsHaveResponses, OneTurnPerResponse
<1> QED
  BY <1>5, <1>6, <1>7 DEF MapsAgree

\* Empty maps agree.
LEMMA EmptyMapsAgree == MapsInit => MapsAgree
BY DEF MapsInit, EmptyMap, MapsAgree, SessionsHaveResponses, TurnsHaveResponses,
       OneTurnPerResponse

\* The agreement depends on nothing but the maps.
LEMMA MapsUnchanged ==
  ASSUME UNCHANGED maps
  PROVE  /\ MapsAgree => MapsAgree'
         /\ Keeps(sessions, sessions') /\ Keeps(responses, responses') /\ Keeps(turns, turns')
BY DEF maps, MapsAgree, SessionsHaveResponses, TurnsHaveResponses, OneTurnPerResponse, Keeps
=============================================================================
