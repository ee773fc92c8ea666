---------------------------- MODULE MCDashboard ----------------------------
(* Books for the dashboard: a period of one to three settlements, each in one *)
(* of the situations the engine, the generator and the tests produce.         *)
EXTENDS Dashboard

\* A large settlement, and two that are immaterial even together under a bound
\* of 1%.
Net == <<2000000, 15000, 4000>>

Found(s, v, proofs, postable) ==
  [at |-> 0, sid |-> s, verdict |-> v, proofs |-> proofs, postable |-> postable, lossy |-> FALSE]

Proof(s, orders, gross, off) ==
  [orders |-> orders, gross |-> gross, net |-> Net[s], off |-> off]

Own(s) == Proof(s, {s}, Net[s] + 2 * s, 0)

Exc(s, k, reason, severity, unexplained) ==
  [NoException EXCEPT !.id = 10 * s + k, !.sid = s, !.reason = reason,
     !.severity = severity, !.amount = Net[s], !.unexplained = unexplained]

Sit(findings, exceptions) ==
  [findings |-> findings, exceptions |-> exceptions, blocked |-> FALSE, late |-> FALSE,
   filed |-> TRUE, tainted |-> FALSE, whole |-> TRUE]

Proven(s) == Found(s, "PROVEN", <<Own(s)>>, TRUE)
Rivals(s) == Found(s, "AMBIGUOUS", <<Own(s), Proof(s, {10 + s}, Net[s], 0)>>, FALSE)
Half(s) == Net[s] \div 2

\* What can be the matter with settlement s.
Situation(s, case) ==
  CASE case = "clean" -> Sit(<<Proven(s)>>, <<>>)
    [] case = "local" -> Sit(<<Found(s, "PROVEN", <<Own(s)>>, FALSE)>>,
                             <<Exc(s, 1, "SEARCH_SPACE_UNCERTAIN", "LOW", 0)>>)
    [] case = "residual" -> Sit(<<Proven(s)>>, <<Exc(s, 1, "REFUND_MISMATCH", "LOW", Half(s))>>)
    [] case = "negative" -> Sit(<<Proven(s)>>, <<Exc(s, 1, "UNKNOWN_ADJUSTMENT", "LOW", -300)>>)
    [] case = "ambiguous" ->
         Sit(<<Rivals(s)>>, <<Exc(s, 1, "MULTIPLE_VALID_ASSIGNMENTS", "MEDIUM", Net[s])>>)
    [] case = "disputed" ->
         Sit(<<Rivals(s)>>, <<[Exc(s, 1, "DUPLICATE_AMOUNT", "MEDIUM", Net[s])
                                 EXCEPT !.disputed = Half(s)]>>)
    [] case = "contested" ->
         Sit(<<Rivals(s)>>, <<[Exc(s, 1, "MULTIPLE_VALID_ASSIGNMENTS", "HIGH", 2 * Net[s])
                                 EXCEPT !.disputed = 2 * Net[s]]>>)
    [] case = "timing" -> Sit(<<Found(s, "AMBIGUOUS", <<>>, FALSE)>>,
                              <<Exc(s, 1, "TIMING_MISMATCH", "LOW", Half(s))>>)
    [] case = "partial" ->
         Sit(<<Found(s, "CONTRADICTED", <<>>, FALSE)>>,
             <<[Exc(s, 1, "PARTIAL_SETTLEMENT", "MEDIUM", Half(s))
                  EXCEPT !.partial = TRUE, !.established = 1, !.missing = TRUE]>>)
    [] case = "contradicted" -> Sit(<<Found(s, "CONTRADICTED", <<>>, FALSE)>>,
                                    <<Exc(s, 1, "NO_VALID_ASSIGNMENT", "HIGH", Net[s])>>)
    [] case = "insufficient" ->
         Sit(<<Found(s, "INSUFFICIENT", <<>>, FALSE)>>,
             <<[Exc(s, 1, "MISSING_TRANSACTION", "LOW", Net[s]) EXCEPT !.missing = TRUE]>>)
    [] case = "missing" -> Sit(<<>>, <<>>)
    [] case = "unexamined" -> Sit(<<>>, <<Exc(s, 1, "DATA_QUALITY", "HIGH", Net[s])>>)
    [] case = "conflict" -> Sit(<<Proven(s), Found(s, "INSUFFICIENT", <<>>, FALSE)>>,
                                <<Exc(s, 1, "INSUFFICIENT_EVIDENCE", "LOW", Half(s))>>)
    [] case = "split" ->
         Sit(<<Found(s, "AMBIGUOUS", <<Own(s), Proof(s, {10 + s}, Net[s] + 7, 0)>>, FALSE),
               Found(s, "INSUFFICIENT", <<>>, FALSE)>>,
             <<Exc(s, 1, "MULTIPLE_VALID_ASSIGNMENTS", "LOW", Half(s)),
               Exc(s, 2, "DUPLICATE_AMOUNT", "LOW", -Half(s))>>)
    [] case = "twice" -> Sit(<<Proven(s), Found(s, "PROVEN", <<Proof(s, {10 + s}, Net[s], 0)>>, TRUE)>>, <<>>)
    [] case = "reproven" -> Sit(<<Proven(s), [Proven(s) EXCEPT !.postable = FALSE]>>, <<>>)
    [] case = "arithmetic" ->
         Sit(<<Found(s, "PROVEN", <<Proof(s, {s}, Net[s], 3)>>, TRUE)>>, <<>>)
    [] case = "lossy" -> Sit(<<[Proven(s) EXCEPT !.lossy = TRUE]>>, <<>>)
    [] case = "shared" ->
         Sit(<<Found(s, "PROVEN", <<Proof(s, {1}, Net[s], 0)>>, TRUE)>>, <<>>)
    [] case = "pair" ->
         Sit(<<Found(s, "INSUFFICIENT", <<>>, FALSE)>>,
             <<Exc(s, 1, "TIMING_MISMATCH", "LOW", Half(s)),
               Exc(s, 2, "CHARGEBACK", "LOW", Net[s] - Half(s))>>)
    [] case = "blocked" -> [Sit(<<Proven(s)>>, <<>>) EXCEPT !.blocked = TRUE]
    [] case = "late" -> [Sit(<<Proven(s)>>, <<>>) EXCEPT !.late = TRUE]
    [] case = "unfiled" -> [Sit(<<Found(s, "INSUFFICIENT", <<>>, FALSE)>>,
                              <<Exc(s, 1, "INSUFFICIENT_EVIDENCE", "LOW", Net[s])>>)
                              EXCEPT !.filed = FALSE]
    [] case = "directive" ->
         [Sit(<<Rivals(s)>>, <<Exc(s, 1, "MULTIPLE_VALID_ASSIGNMENTS", "MEDIUM", Net[s])>>)
            EXCEPT !.tainted = TRUE]
    [] case = "embedded" -> [Sit(<<Proven(s)>>, <<>>) EXCEPT !.whole = FALSE]

Cases == {"clean", "local", "residual", "negative", "ambiguous", "disputed",
  "contested", "timing",
  "partial", "contradicted", "insufficient", "missing", "unexamined", "conflict", "split",
  "twice", "reproven", "arithmetic", "lossy", "shared", "pair", "blocked", "late", "unfiled",
  "directive", "embedded"}

\* Listed one settlement after the other.
Listing(s, records) == {[records[i] EXCEPT !.at = 10 * s + i] : i \in DOMAIN records}

\* The books of a period in which settlement s is in situation cases[s].
Book(cases) ==
  LET ids == DOMAIN cases
      at == [s \in ids |-> Situation(s, cases[s])]
      where(Test(_)) == {s \in ids : Test(at[s])}
      credit == [s \in ids |-> [id |-> s, utr |-> s, whole |-> at[s].whole]]
      exceptions == UNION {Listing(s, at[s].exceptions) : s \in ids}
  IN  [period |-> ids,
       net |-> [s \in where(LAMBDA x : x.filed) |-> Net[s]],
       late |-> where(LAMBDA x : x.late),
       blocked |-> where(LAMBDA x : x.blocked),
       findings |-> UNION {Listing(s, at[s].findings) : s \in ids},
       exceptions |-> exceptions,
       orders |-> ids \cup {10 + s : s \in ids},
       credits |-> {credit[s] : s \in where(LAMBDA x : x.filed)},
       tainted |-> {credit[s] : s \in where(LAMBDA x : x.filed /\ x.tainted)},
       names |-> [id \in {e.id : e \in exceptions} |-> {id \div 10, 10 + (id \div 10)}]]

MCBooks == {Book(cases) : cases \in [1..2 -> Cases]}
             \cup {Book(cases) : cases \in
                     [1..3 -> {"clean", "timing", "ambiguous", "shared", "missing", "local",
                                 "pair"}]}

MCStaffed == {Book(<<"ambiguous", "timing">>)}
MCItems == {11, 21}
=============================================================================
