-------------------------- MODULE WrapperApiProofs --------------------------
(* Theorems about module WrapperApi, for any requests, processes, agents.  *)
EXTENDS WrapperApi, FiniteSetTheorems, TLAPS

USE DEF files, runFile, Running

\* An absent account is none, and what the handlers make of one is.
LEMMA Accounts ==
    /\ Absent \notin Account
    /\ \A acc \in Account \cup {Absent} :
            Old(acc) \in Account /\ TokenOf(acc) \in Value
    /\ \A acc \in Account : Old(acc) = acc
    /\ Old(Absent).agent = None /\ Old(Absent).token = None
    /\ Old(Absent).conf = None
<1>1. Absent \notin Account
    <2>1. \A acc \in Account : DOMAIN acc = {"agent", "token", "conf"}
        BY DEF Account
    <2>2. DOMAIN Absent = {"none"}
        BY DEF Absent
    <2> QED BY <2>1, <2>2
<1> QED BY <1>1 DEF Account, Old, TokenOf, Value

-----------------------------------------------------------------------------
(* Types.                                                                  *)

\* The state of a request: the process that serves it, the agent that a
\* configure-key names, and the key that it then registers are there.
AnyRequest ==
    [stage : Stages, kind : Kinds, agent : Agents \cup {None, "kept"},
     sent : {"kept", "new", None}, conf : {"kept", "new", None},
     proc : Procs \cup {None}, token : Value,
     seen : Account \cup {Absent}, key : Value,
     overtaken : BOOLEAN, misread : BOOLEAN]
Request ==
    {q \in AnyRequest :
        /\ q.stage \in Waiting => q.proc \in Procs
        /\ q.stage \in Waiting /\ q.kind = "configureKey"
                => q.agent \in Agents /\ q.sent = "kept"
        /\ q.stage \in {"keys", "writeKey", "mint"} => q.kind = "configureKey"
        /\ q.stage = "mint" => q.key \in Reqs}

\* What a request writes is an account, or none.
LEMMA Results ==
    ASSUME NEW r \in Reqs, NEW seen \in Account \cup {Absent},
           req \in [Reqs -> Request], req[r].stage = "write"
    PROVE  /\ req[r].kind # "revoke" => Result(r, seen) \in Account
           /\ Result(r, seen) \in Account \cup {Absent}
<1>0. req[r] \in AnyRequest
    BY DEF Request
<1>1. Old(seen) \in Account
    BY Accounts
<1>2. ASSUME req[r].kind = "configureKey" PROVE Merged(r, seen) \in Account
    <2>1. req[r].agent \in Agents
        BY <1>2 DEF Request, Waiting, Stages
    <2> QED BY <1>1, <2>1 DEF Merged, Account, Newer, Value
<1>3. Configured(r, seen) \in Account
    <2>1. Patched(req[r].agent, Old(seen).agent) \in Agents \cup {None}
        BY <1>0, <1>1 DEF Patched, Account, AnyRequest
    <2>2. Patched(Made(r, req[r].sent), Old(seen).token) \in Value
          /\ Patched(Made(r, req[r].conf), Old(seen).conf) \in Value
        BY <1>0, <1>1 DEF Patched, Made, Account, Value, AnyRequest
    <2> QED BY <2>1, <2>2 DEF Configured, Account
<1>4. req[r].kind \in Kinds
    BY <1>0 DEF AnyRequest
<1> QED BY <1>2, <1>3, <1>4 DEF Result, Kinds

\* A request that is not under way has the type of one.
LEMMA FreshTypes ==
    \A stage \in {"idle", "over"} : Fresh(stage) \in Request
<1>1. \A stage \in {"idle", "over"} : Fresh(stage) \in AnyRequest
    BY DEF Fresh, AnyRequest, Stages, Kinds, Value
<1> QED BY <1>1 DEF Fresh, Request, Waiting

\* Those that go on to the next stage keep the type.
LEMMA NextStages ==
    ASSUME NEW q \in Request, NEW stage \in Stages
    PROVE  /\ q.stage \in Waiting /\ stage \in {"bootstrap", "read", "write"}
                => [q EXCEPT !.stage = stage] \in Request
           /\ q.stage = "keys" /\ stage = "writeKey"
                => [q EXCEPT !.stage = stage] \in Request
<1>1. q \in AnyRequest /\ [q EXCEPT !.stage = stage] \in AnyRequest
    BY DEF Request, AnyRequest
<1>2. DOMAIN q = {"stage", "kind", "agent", "sent", "conf", "proc", "token",
                  "seen", "key", "overtaken", "misread"}
    BY <1>1 DEF AnyRequest
<1>3. /\ [q EXCEPT !.stage = stage].stage = stage
      /\ [q EXCEPT !.stage = stage].kind = q.kind
      /\ [q EXCEPT !.stage = stage].agent = q.agent
      /\ [q EXCEPT !.stage = stage].sent = q.sent
      /\ [q EXCEPT !.stage = stage].proc = q.proc
      /\ [q EXCEPT !.stage = stage].key = q.key
    BY <1>2
<1> QED BY <1>1, <1>3 DEF Request, Waiting, Stages

\* The token that was presented is forgotten once it was compared.
LEMMA TokenForgotten ==
    ASSUME NEW q \in Request
    PROVE  [q EXCEPT !.token = None] \in Request
           /\ [q EXCEPT !.token = None].stage = q.stage
<1>1. q \in AnyRequest /\ [q EXCEPT !.token = None] \in AnyRequest
    BY DEF Request, AnyRequest, Value
<1>2. DOMAIN q = {"stage", "kind", "agent", "sent", "conf", "proc", "token",
                  "seen", "key", "overtaken", "misread"}
    BY <1>1 DEF AnyRequest
<1>3. /\ [q EXCEPT !.token = None].stage = q.stage
      /\ [q EXCEPT !.token = None].kind = q.kind
      /\ [q EXCEPT !.token = None].agent = q.agent
      /\ [q EXCEPT !.token = None].sent = q.sent
      /\ [q EXCEPT !.token = None].proc = q.proc
      /\ [q EXCEPT !.token = None].key = q.key
    BY <1>2
<1> QED BY <1>1, <1>3 DEF Request

LEMMA SentRequest ==
    ASSUME NEW stage \in {"read", "refresh"}, NEW b \in AnyBody,
           NEW p \in Procs, NEW token \in Value
    PROVE  [Fresh("refresh") EXCEPT !.stage = stage, !.kind = b.kind,
                !.agent = b.agent, !.sent = b.sent, !.conf = b.conf,
                !.proc = p, !.token = token] \in Request
<1> DEFINE f == Fresh("refresh")
           s == [f EXCEPT !.stage = stage, !.kind = b.kind, !.agent = b.agent,
                          !.sent = b.sent, !.conf = b.conf, !.proc = p,
                          !.token = token]
<1>b. /\ b.kind \in Kinds /\ b.agent \in Agents \cup {None, "kept"}
      /\ b.sent \in {"kept", "new", None} /\ b.conf \in {"kept", "new", None}
      /\ b.kind = "configureKey" => b.agent \in Agents /\ b.sent = "kept"
    BY DEF AnyBody
<1>1. f \in AnyRequest
    BY DEF Fresh, AnyRequest, Stages, Kinds, Value
<1>2. DOMAIN f = {"stage", "kind", "agent", "sent", "conf", "proc", "token",
                  "seen", "key", "overtaken", "misread"}
    BY DEF Fresh
<1> HIDE DEF f
<1>3. s \in AnyRequest
    BY <1>1, <1>b DEF AnyRequest, Stages, Value
<1>4. /\ s.stage = stage /\ s.kind = b.kind /\ s.agent = b.agent
      /\ s.sent = b.sent /\ s.proc = p
    BY <1>2
<1> HIDE DEF s
<1>5. s \in Request
    BY <1>b, <1>3, <1>4 DEF Request
<1> QED BY <1>5 DEF s, f

\* The read of the account keeps the type.
LEMMA HasReadFields ==
    ASSUME NEW q \in AnyRequest, NEW stage \in Stages, NEW b \in BOOLEAN,
           NEW acc \in Account \cup {Absent}
    PROVE  [q EXCEPT !.seen = acc, !.misread = b, !.stage = stage]
                \in AnyRequest
BY DEF AnyRequest

LEMMA ToMint ==
    ASSUME NEW q \in Request, NEW key \in Reqs,
           q.stage \in {"keys", "writeKey"}
    PROVE  [q EXCEPT !.stage = "mint", !.key = key] \in Request
BY DEF Request, AnyRequest, Stages, Waiting, Value

\* A request that is overtaken keeps the type.
LEMMA OvertakenTypes ==
    ASSUME req \in [Reqs -> Request], NEW r \in Reqs
    PROVE  [q \in Reqs |->
                IF q = r THEN Fresh("over")
                ELSE [req[q] EXCEPT !.overtaken = @ \/
                    req[q].stage \in {"keys", "writeKey", "mint", "write"}]]
                \in [Reqs -> Request]
<1>1. Fresh("over") \in Request
    BY FreshTypes
<1>2. ASSUME NEW q \in Request, NEW b \in BOOLEAN
      PROVE  [q EXCEPT !.overtaken = b] \in Request
    BY DEF Request, AnyRequest
<1>3. \A q \in Reqs :
        (req[q].overtaken \/
            req[q].stage \in {"keys", "writeKey", "mint", "write"}) \in BOOLEAN
    OBVIOUS
<1> QED BY <1>1, <1>2, <1>3

\* TypeOK, with the requests as they are.
Typed ==
    /\ account \in Account \cup {Absent}
    /\ keyFile \in [Agents -> Value \cup {"torn"}]
    /\ runtime \in Procs \cup {None}
    /\ proc \in [Procs -> {"off", "exited", "killed"} \cup Running]
    /\ cached \in [Procs -> Value]
    /\ req \in [Reqs -> Request]
    /\ appToken \in Value
    /\ registered \in [Agents -> SUBSET Reqs]
    /\ writers \in [Agents -> SUBSET Procs]
    /\ imposed \subseteq Agents
    /\ newest \in Procs \cup {None} /\ lost \in {"no", "removed", "unwritten"}
    /\ left \in BOOLEAN
    /\ mishap \in BOOLEAN

LEMMA TypedIsTypeOK == Typed => TypeOK
<1> SUFFICES ASSUME Typed PROVE TypeOK
    OBVIOUS
<1>1. req \in [Reqs -> AnyRequest]
    BY DEF Typed, Request
<1> QED BY <1>1 DEF TypeOK, Typed, AnyRequest

LEMMA TypeInit == Init => Typed
<1> SUFFICES ASSUME Init PROVE Typed
    OBVIOUS
<1>1. Fresh("idle") \in Request
    BY FreshTypes
<1> QED BY <1>1 DEF Init, Typed, Value

LEMMA TypeInductive == Typed /\ [Next]_vars => Typed'
<1> SUFFICES ASSUME Typed, [Next]_vars PROVE Typed'
    OBVIOUS
<1> USE FreshTypes, Accounts DEF Typed
<1>1. ASSUME NEW r \in Reqs, Send(r) PROVE Typed'
    <2>1. PICK p \in Procs, b \in AnyBody :
            req' = [req EXCEPT ![r] = [Fresh("refresh") EXCEPT
                !.stage  = IF Admits(cached[p], appToken) THEN "read" ELSE @,
                !.kind   = b.kind, !.agent = b.agent,
                !.sent   = b.sent, !.conf = b.conf,
                !.proc   = p,
                !.token  = IF Admits(cached[p], appToken) THEN None
                                                          ELSE appToken]]
        BY <1>1, BodiesAssumption DEF Send
    <2>2. PICK stage \in {"read", "refresh"}, token \in Value :
            req' = [req EXCEPT ![r] = [Fresh("refresh") EXCEPT
                        !.stage = stage, !.kind = b.kind, !.agent = b.agent,
                        !.sent = b.sent, !.conf = b.conf, !.proc = p,
                        !.token = token]]
        <3>1. Fresh("refresh").stage = "refresh" /\ None \in Value
            BY DEF Fresh, Value
        <3>2. CASE Admits(cached[p], appToken)
            BY <2>1, <3>1, <3>2
        <3>3. CASE ~Admits(cached[p], appToken)
            BY <2>1, <3>1, <3>3
        <3> QED BY <3>2, <3>3
    <2>3. req' \in [Reqs -> Request]
        BY <2>2, SentRequest
    <2> QED BY <1>1, <2>3 DEF Send
<1>2. ASSUME NEW r \in Reqs, Refresh(r) PROVE Typed'
    <2>1. PICK acc \in Reads :
            /\ Refreshed(req[r].proc, acc)
            /\ req' = [req EXCEPT ![r].token = None,
                    ![r].stage = IF Admits(cached'[req[r].proc], req[r].token)
                                 THEN "read" ELSE "bootstrap"]
        BY <1>2 DEF Refresh
    <2>2. req[r].stage \in Waiting
        BY <1>2 DEF Refresh, At, Waiting, Stages
    <2>3. req' \in [Reqs -> Request]
        <3> DEFINE q == [req[r] EXCEPT !.token = None]
        <3>1. q \in Request /\ q.stage \in Waiting
            BY <2>2, TokenForgotten
        <3>2. PICK stage \in {"read", "bootstrap"} :
                req' = [req EXCEPT ![r] = [q EXCEPT !.stage = stage]]
            BY <2>1
        <3> HIDE DEF q
        <3>3. [q EXCEPT !.stage = stage] \in Request
            BY <3>1, <3>2, NextStages DEF Stages
        <3> QED BY <3>2, <3>3
    <2>4. cached' \in [Procs -> Value]
        BY <2>1 DEF Reads, Refreshed, Newer
    <2> QED BY <1>2, <2>3, <2>4 DEF Refresh
<1>3. ASSUME NEW r \in Reqs, Bootstrap(r) PROVE Typed'
    <2>1. req[r].stage \in Waiting
        BY <1>3 DEF Bootstrap, At, Waiting, Stages
    <2>2. Step(r, "read") \/ End(r)
        BY <1>3 DEF Bootstrap
    <2>3. [req[r] EXCEPT !.stage = "read"] \in Request
        BY <2>1, NextStages DEF Stages
    <2>4. req' \in [Reqs -> Request]
        BY <2>2, <2>3 DEF Step, End
    <2> QED BY <1>3, <2>4 DEF Bootstrap
<1>4. ASSUME NEW r \in Reqs, ReadAccount(r) PROVE Typed'
    <2>1. PICK seen \in Reads :
            IF Refuses(r, seen) THEN End(r)
            ELSE req' = [req EXCEPT
                    ![r].seen = seen, ![r].misread = seen # account,
                    ![r].stage = IF req[r].kind = "configureKey" THEN "keys"
                                                                 ELSE "write"]
        BY <1>4 DEF ReadAccount
    <2>2. CASE Refuses(r, seen)
        <3>1. req' \in [Reqs -> Request]
            BY <2>1, <2>2 DEF End
        <3> QED BY <1>4, <3>1 DEF ReadAccount
    <2>3. CASE ~Refuses(r, seen)
        <3>1. seen \in Account \cup {Absent}
            BY DEF Reads
        <3>2. req[r].stage = "read"
            BY <1>4 DEF ReadAccount, At
        <3>3. ASSUME NEW q \in Request, NEW b \in BOOLEAN, q.stage = "read"
              PROVE  [q EXCEPT !.seen = seen, !.misread = b,
                        !.stage = IF q.kind = "configureKey" THEN "keys"
                                                             ELSE "write"]
                        \in Request
            <4> DEFINE s == [q EXCEPT !.seen = seen, !.misread = b,
                        !.stage = IF q.kind = "configureKey" THEN "keys"
                                                             ELSE "write"]
            <4>1. q \in AnyRequest /\ q.stage \in Waiting
                BY <3>3 DEF Request, Stages, Waiting
            <4>2. s \in AnyRequest
                <5>1. (IF q.kind = "configureKey" THEN "keys" ELSE "write")
                        \in Stages
                    BY DEF Stages
                <5> QED BY ONLY <3>1, <4>1, <5>1, HasReadFields,
                                b \in BOOLEAN
            <4>3. DOMAIN q = {"stage", "kind", "agent", "sent", "conf", "proc",
                              "token", "seen", "key", "overtaken", "misread"}
                BY <4>1 DEF AnyRequest
            <4>4. /\ s.kind = q.kind /\ s.agent = q.agent /\ s.proc = q.proc
                  /\ s.sent = q.sent
                  /\ s.stage \in {"keys", "write"}
                  /\ s.stage = "keys" => q.kind = "configureKey"
                BY <4>3
            <4> HIDE DEF s
            <4>5. s \in Request
                BY <4>1, <4>2, <4>4 DEF Request
            <4> QED BY <4>5 DEF s
        <3>4. (seen # account) \in BOOLEAN
            OBVIOUS
        <3>5. req' = [req EXCEPT ![r] =
                    [req[r] EXCEPT !.seen = seen, !.misread = seen # account,
                        !.stage = IF req[r].kind = "configureKey"
                                  THEN "keys" ELSE "write"]]
            BY <2>1, <2>3
        <3>6. req' \in [Reqs -> Request]
            BY <3>2, <3>3, <3>4, <3>5
        <3> QED BY <1>4, <3>6 DEF ReadAccount
    <2> QED BY <2>2, <2>3
<1>5. ASSUME NEW r \in Reqs, GetKeypair(r) PROVE Typed'
    <2>1. req[r].stage = "keys" /\ req[r].agent \in Agents
        BY <1>5 DEF GetKeypair, At, Request, Waiting, Stages
    <2>2. \/ Step(r, "writeKey")
          \/ End(r)
          \/ /\ keyFile[req[r].agent] \in Reqs
             /\ req' = [req EXCEPT ![r].stage = "mint",
                                   ![r].key = keyFile[req[r].agent]]
        BY <1>5, <2>1 DEF GetKeypair, Value
    <2>3. [req[r] EXCEPT !.stage = "writeKey"] \in Request
        BY <2>1, NextStages DEF Stages
    <2>4. \A key \in Reqs :
            [req[r] EXCEPT !.stage = "mint", !.key = key] \in Request
        BY <2>1, ToMint
    <2>5. req' \in [Reqs -> Request]
        BY <2>2, <2>3, <2>4 DEF Step, End
    <2> QED BY <1>5, <2>5 DEF GetKeypair
<1>6. ASSUME NEW r \in Reqs, WriteKey(r) PROVE Typed'
    <2>1. req[r].stage = "writeKey" /\ req[r].proc \in Procs
        BY <1>6 DEF WriteKey, At, Request, Waiting, Stages
    <2>2. req' \in [Reqs -> Request]
        BY <1>6, <2>1, ToMint DEF WriteKey
    <2>3. keyFile' \in [Agents -> Value \cup {"torn"}]
        BY <1>6 DEF WriteKey, Value
    <2>4. writers' \in [Agents -> SUBSET Procs]
        BY <1>6, <2>1 DEF WriteKey
    <2> QED BY <1>6, <2>2, <2>3, <2>4 DEF WriteKey
<1>7. ASSUME NEW r \in Reqs, Mint(r) PROVE Typed'
    <2>1. req[r].stage = "mint" /\ req[r].key \in Reqs
        BY <1>7 DEF Mint, At, Request
    <2>2. Step(r, "write") \/ End(r)
        BY <1>7 DEF Mint
    <2>3. [req[r] EXCEPT !.stage = "write"] \in Request
        BY <2>1, NextStages DEF Stages, Waiting
    <2>4. req' \in [Reqs -> Request]
        BY <2>2, <2>3 DEF Step, End
    <2>5. PICK carriedOut \in BOOLEAN :
            registered' = [registered EXCEPT ![req[r].agent] =
                            IF carriedOut THEN @ \cup {req[r].key} ELSE @]
        BY <1>7 DEF Mint
    <2>6. registered' \in [Agents -> SUBSET Reqs]
        BY <2>1, <2>5
    <2> QED BY <1>7, <2>4, <2>6 DEF Mint
<1>8. ASSUME NEW r \in Reqs, WriteAccount(r) PROVE Typed'
    <2>1. req' \in [Reqs -> Request]
        BY <1>8, OvertakenTypes DEF WriteAccount, Landed
    <2>2. account' \in Account \cup {Absent}
        <3>1. req[r].seen \in Account \cup {Absent}
            BY DEF Request, AnyRequest
        <3> QED BY <1>8, <3>1, Results DEF WriteAccount, Landed, At
    <2>3. appToken' \in Value
        BY <1>8 DEF WriteAccount, Value
    <2>4. mishap' \in BOOLEAN
        BY <1>8 DEF WriteAccount
    <2>5. imposed' \subseteq Agents
        <3>1. req[r].kind \in Kinds
            BY DEF Request, AnyRequest
        <3> QED BY <1>8, <3>1 DEF WriteAccount, Imposed, Kinds
    <2> QED BY <1>8, <2>1, <2>2, <2>3, <2>4, <2>5 DEF WriteAccount
<1>9. ASSUME NEW r \in Reqs, Disable(r) PROVE Typed'
    <2>1. req' \in [Reqs -> Request]
        BY <1>9, OvertakenTypes DEF Disable, Landed
    <2>2. account' \in Account
        BY <1>9 DEF Disable, Landed
    <2>3. mishap' \in BOOLEAN
        BY <1>9 DEF Disable
    <2> QED BY <1>9, <2>1, <2>2, <2>3 DEF Disable
<1>10. ASSUME NEW r \in Reqs, WriteFails(r) PROVE Typed'
    <2>1. req' \in [Reqs -> Request]
        BY <1>10 DEF WriteFails, End
    <2> QED BY <1>10, <2>1 DEF WriteFails
<1>11. ASSUME NEW p \in Procs, Start(p) PROVE Typed'
    BY <1>11 DEF Start
<1>12. ASSUME NEW p \in Procs, Poll(p) PROVE Typed'
    BY <1>12 DEF Poll, Refreshed, Newer
<1>13. ASSUME NEW p \in Procs, Exit(p) PROVE Typed'
    <2>1. req' \in [Reqs -> Request]
        BY <1>13 DEF Exit, Dropped
    <2>2. proc' \in [Procs -> {"off", "exited", "killed"} \cup Running]
        BY <1>13 DEF Exit
    <2>3. /\ runtime' \in Procs \cup {None} /\ left' \in BOOLEAN
          /\ lost' \in {"no", "removed", "unwritten"}
        BY <1>13 DEF Exit
    <2> QED BY <1>13, <2>1, <2>2, <2>3 DEF Exit
<1>14. ASSUME NEW p \in Procs, Kill(p) PROVE Typed'
    <2>1. req' \in [Reqs -> Request]
        BY <1>14 DEF Kill, Dropped
    <2>2. proc' \in [Procs -> {"off", "exited", "killed"} \cup Running]
        BY <1>14 DEF Kill
    <2>3. keyFile' \in [Agents -> Value \cup {"torn"}]
          /\ writers' \in [Agents -> SUBSET Procs]
        BY <1>14 DEF Kill
    <2> QED BY <1>14, <2>1, <2>2, <2>3 DEF Kill
<1>15. ASSUME NEW p \in Procs, Listen(p) PROVE Typed'
    BY <1>15 DEF Listen
<1>16. CASE UNCHANGED vars
    BY <1>16 DEF vars
<1> QED
    BY <1>1, <1>2, <1>3, <1>4, <1>5, <1>6, <1>7, <1>8, <1>9, <1>10, <1>11,
       <1>12, <1>13, <1>14, <1>15, <1>16 DEF Next, Serve

LEMMA TypedCorrect == Spec => []Typed
BY TypeInit, TypeInductive, PTL DEF Spec

\* Every variable keeps its type.
THEOREM TypeCorrect == Spec => []TypeOK
BY TypedCorrect, TypedIsTypeOK, PTL

-----------------------------------------------------------------------------
(* The runtime file.                                                       *)

LEMMA RuntimeInductive ==
    Typed /\ RuntimeFileTrue /\ [Next]_vars => RuntimeFileTrue'
<1> SUFFICES ASSUME Typed, RuntimeFileTrue, [Next]_vars PROVE RuntimeFileTrue'
    OBVIOUS
<1>1. ASSUME NEW p \in Procs, Start(p) PROVE RuntimeFileTrue'
    BY <1>1, NoneAssumption DEF Typed, RuntimeFileTrue, Start
<1>2. ASSUME NEW p \in Procs, Exit(p) PROVE RuntimeFileTrue'
    <2>1. /\ proc' = [proc EXCEPT ![p] = "exited"] /\ newest' = newest
          /\ p # None /\ proc[p] # "exited"
        BY <1>2, NoneAssumption DEF Exit
    <2>2. CASE runtime' = None
        <3>1. newest # None /\ proc'[newest] = "up"
                => newest # p /\ proc[newest] = "up"
            BY <2>1 DEF Typed
        <3>2. lost' = lost \/ lost' = "removed"
            BY <1>2 DEF Exit
        <3>3. newest # p /\ runtime # None /\ lost = "no"
                => lost' = "removed" \/ runtime' = runtime
            BY <1>2 DEF Exit
        <3> QED BY <2>1, <2>2, <3>1, <3>2, <3>3 DEF RuntimeFileTrue
    <2>3. CASE runtime' # None
        <3>1. UNCHANGED <<runtime, lost>> /\ left' = (left \/ runtime = p)
            BY <1>2, <2>3 DEF Exit
        <3>2. proc'[runtime] = "exited"
                => runtime = p \/ proc[runtime] = "exited"
            BY <2>1, <2>3, <3>1 DEF Typed
        <3>3. newest # None /\ proc'[newest] = "up" => proc[newest] = "up"
            BY <2>1 DEF Typed
        <3>4. proc'[runtime] = "exited" => left'
            BY <2>3, <3>1, <3>2 DEF RuntimeFileTrue
        <3> QED BY <2>1, <2>3, <3>1, <3>3, <3>4 DEF RuntimeFileTrue
    <2> QED BY <2>2, <2>3
<1>3. ASSUME NEW p \in Procs, Kill(p) PROVE RuntimeFileTrue'
    BY <1>3, NoneAssumption DEF Typed, RuntimeFileTrue, Kill
<1>4. ASSUME NEW p \in Procs, Listen(p) PROVE RuntimeFileTrue'
    BY <1>4, NoneAssumption DEF Typed, RuntimeFileTrue, Listen
<1>5. CASE UNCHANGED <<proc, runtime, newest, lost, left>>
    BY <1>5 DEF RuntimeFileTrue
<1> QED
    BY <1>1, <1>2, <1>3, <1>4, <1>5
       DEF Next, vars, Poll, Send, Serve, Refresh, Bootstrap, ReadAccount,
           GetKeypair, WriteKey, Mint, WriteAccount, Disable, WriteFails

\* However processes start, exit and crash: the runtime file names the newest
\* one that listens, unless an older one removed it or it could not be written,
\* and none that exited, unless that one could not remove it.
THEOREM RuntimeFileTrueCorrect == Spec => []RuntimeFileTrue
<1>1. Init => RuntimeFileTrue
    BY DEF Init, RuntimeFileTrue
<1> QED BY <1>1, RuntimeInductive, TypedCorrect, PTL DEF Spec

-----------------------------------------------------------------------------
(* The way in.                                                             *)

\* A request that has read the account, and that no write has overtaken, read
\* it as it still is, or read none.
HasRead == {"keys", "writeKey", "mint", "write"}
CurrentInv ==
    \A r \in Reqs : req[r].stage \in HasRead =>
        /\ req[r].kind = "configureKey"
                => Old(req[r].seen).agent \in {None, req[r].agent}
        /\ ~req[r].overtaken =>
            req[r].seen = account \/ (req[r].seen = Absent /\ req[r].misread)

\* A write overtakes the others.
LEMMA LandedRequests ==
    ASSUME Typed, NEW r \in Reqs, NEW acc, Landed(r, acc, Fresh("over")),
           NEW q \in Reqs, req'[q].stage \in Waiting
    PROVE  /\ q # r
           /\ req'[q].stage \in HasRead => req'[q].overtaken
           /\ req'[q].stage = req[q].stage /\ req'[q].kind = req[q].kind
           /\ req'[q].agent = req[q].agent /\ req'[q].proc = req[q].proc
           /\ req'[q].seen = req[q].seen /\ req'[q].key = req[q].key
<1>1. req'[r].stage = "over"
    BY DEF Landed, Fresh
<1>2. q # r
    BY <1>1 DEF Waiting
<1>3. req'[q] = [req[q] EXCEPT !.overtaken = @ \/
                    req[q].stage \in {"keys", "writeKey", "mint", "write"}]
    BY <1>2 DEF Landed
<1>4. req[q] \in AnyRequest
    BY DEF Typed, Request
<1>5. DOMAIN req[q] = {"stage", "kind", "agent", "sent", "conf", "proc",
                       "token", "seen", "key", "overtaken", "misread"}
    BY <1>4 DEF AnyRequest
<1> QED BY <1>2, <1>3, <1>5 DEF HasRead

LEMMA CurrentInductive == Typed /\ CurrentInv /\ [Next]_vars => CurrentInv'
<1> SUFFICES ASSUME Typed, CurrentInv, [Next]_vars PROVE CurrentInv'
    OBVIOUS
<1> USE DEF Typed, CurrentInv, HasRead, Request, AnyRequest
<1>1. ASSUME NEW r \in Reqs, Send(r) PROVE CurrentInv'
    BY <1>1 DEF Send, Fresh
<1>2. ASSUME NEW r \in Reqs, Refresh(r) PROVE CurrentInv'
    BY <1>2 DEF Refresh, At, Refreshed, Step, Newer, Reads
<1>3. ASSUME NEW r \in Reqs, Bootstrap(r) PROVE CurrentInv'
    BY <1>3 DEF Bootstrap, At, End, Step, Reads, Fresh
<1>4. ASSUME NEW r \in Reqs, ReadAccount(r) PROVE CurrentInv'
    BY <1>4 DEF ReadAccount, At, End, Reads, Fresh, Refuses
<1>5. ASSUME NEW r \in Reqs, GetKeypair(r) PROVE CurrentInv'
    BY <1>5 DEF GetKeypair, At, End, Step, Fresh
<1>6. ASSUME NEW r \in Reqs, WriteKey(r) PROVE CurrentInv'
    BY <1>6 DEF WriteKey, At
<1>7. ASSUME NEW r \in Reqs, Mint(r) PROVE CurrentInv'
    BY <1>7 DEF Mint, At, End, Step, Fresh
<1>8. ASSUME NEW r \in Reqs, WriteAccount(r) PROVE CurrentInv'
    <2>1. Landed(r, account', Fresh("over"))
        BY <1>8 DEF WriteAccount, Landed
    <2>2. \A q \in Reqs : req'[q].stage \in HasRead =>
            /\ req'[q].overtaken /\ req[q].stage \in HasRead
            /\ req'[q].kind = req[q].kind /\ req'[q].agent = req[q].agent
            /\ req'[q].seen = req[q].seen
        BY <2>1, LandedRequests DEF Waiting, Stages
    <2> QED BY ONLY <2>2, CurrentInv DEF CurrentInv
<1>9. ASSUME NEW r \in Reqs, Disable(r) PROVE CurrentInv'
    <2>1. Landed(r, account', Fresh("over"))
        BY <1>9 DEF Disable, Landed
    <2>2. \A q \in Reqs : req'[q].stage \in HasRead =>
            /\ req'[q].overtaken /\ req[q].stage \in HasRead
            /\ req'[q].kind = req[q].kind /\ req'[q].agent = req[q].agent
            /\ req'[q].seen = req[q].seen
        BY <2>1, LandedRequests DEF Waiting, Stages
    <2> QED BY ONLY <2>2, CurrentInv DEF CurrentInv
<1>10. ASSUME NEW r \in Reqs, WriteFails(r) PROVE CurrentInv'
    BY <1>10 DEF WriteFails, At, End, Fresh
<1>11. ASSUME NEW p \in Procs, Start(p) PROVE CurrentInv'
    BY <1>11 DEF Start
<1>12. ASSUME NEW p \in Procs, Poll(p) PROVE CurrentInv'
    BY <1>12 DEF Poll, Refreshed, Newer
<1>13. ASSUME NEW p \in Procs, Exit(p) PROVE CurrentInv'
    BY <1>13 DEF Exit, Dropped, Fresh
<1>14. ASSUME NEW p \in Procs, Kill(p) PROVE CurrentInv'
    BY <1>14 DEF Kill, Dropped, At, Fresh
<1>15. ASSUME NEW p \in Procs, Listen(p) PROVE CurrentInv'
    BY <1>15 DEF Listen
<1>16. CASE UNCHANGED vars
    BY <1>16 DEF vars
<1> QED
    BY <1>1, <1>2, <1>3, <1>4, <1>5, <1>6, <1>7, <1>8, <1>9, <1>10, <1>11,
       <1>12, <1>13, <1>14, <1>15, <1>16 DEF Next, Serve

\* While nothing has cut the app off, it holds the token of the account.
InInv ==
    ~mishap /\ account # Absent =>
        TokenOf(account) # None /\ appToken = TokenOf(account)

LEMMA InInductive ==
    Typed /\ CurrentInv /\ InInv /\ [Next]_vars => InInv'
<1> SUFFICES ASSUME Typed, CurrentInv, InInv, [Next]_vars,
                    ~mishap', account' # Absent
             PROVE  TokenOf(account') # None /\ appToken' = TokenOf(account')
    BY DEF InInv, TokenOf
<1>1. ASSUME NEW r \in Reqs, WriteAccount(r)
      PROVE  TokenOf(account') # None /\ appToken' = TokenOf(account')
    <2> DEFINE q == req[r]
    <2>1. ~mishap /\ ~Trouble(r)
          /\ appToken' = IF Issues(r) THEN r ELSE appToken
        BY <1>1 DEF WriteAccount
    <2>2. q \in AnyRequest /\ q.stage = "write"
        BY <1>1 DEF Typed, Request, WriteAccount, At
    <2>3. /\ ~q.overtaken
          /\ q.kind = "configure" => q.seen # Absent /\ q.sent = "kept"
        BY <2>1, <2>2 DEF Trouble
    <2>4. q.seen = account \/ q.seen = Absent
        BY <2>2, <2>3 DEF CurrentInv, HasRead
    <2>5. account' = Result(r, q.seen)
        BY <1>1 DEF WriteAccount, Landed
    <2>6. account # Absent => TokenOf(account) # None
            /\ appToken = TokenOf(account)
        BY <2>1 DEF InInv
    <2>7. CASE q.kind = "configureKey"
        <3>1. account' = Merged(r, q.seen)
            BY <2>5, <2>7 DEF Result
        <3>2. TokenOf(account') = Newer(Old(q.seen).token, r)
            BY <3>1 DEF Merged, TokenOf
        <3>3. Old(q.seen).token = TokenOf(q.seen)
            BY DEF Old, TokenOf
        <3>4. r # None
            BY NoneAssumption
        <3> QED BY <2>1, <2>4, <2>6, <2>7, <3>2, <3>3, <3>4
                DEF Newer, Issues, TokenOf
    <2>8. CASE q.kind = "configure"
        <3>1. q.seen = account /\ account # Absent
            BY <2>3, <2>4, <2>8
        <3>2. account' = Configured(r, account) /\ q.sent = "kept"
            BY <2>3, <2>5, <2>8, <3>1 DEF Result
        <3>3. Patched(Made(r, q.sent), Old(account).token) = account.token
            BY <3>1, <3>2 DEF Patched, Made, Old
        <3>4. TokenOf(account') = TokenOf(account)
            BY <3>1, <3>2, <3>3 DEF TokenOf, Configured
        <3>5. ~Issues(r)
            BY <2>8 DEF Issues
        <3> QED BY <2>1, <2>6, <3>1, <3>4, <3>5
    <2>9. CASE q.kind = "revoke"
        BY <2>5, <2>9 DEF Result
    <2> QED BY <2>2, <2>7, <2>8, <2>9 DEF AnyRequest, Kinds
<1>2. ASSUME NEW r \in Reqs, Disable(r) PROVE FALSE
    BY <1>2 DEF Disable
<1>3. CASE UNCHANGED <<account, appToken, mishap>>
    BY <1>3 DEF InInv, TokenOf
<1> QED
    BY <1>1, <1>2, <1>3
       DEF Next, vars, Start, Listen, Poll, Exit, Kill, Send, Serve, Refresh,
           Bootstrap, ReadAccount, GetKeypair, WriteKey, Mint, WriteFails

LEMMA InCorrect == Spec => [](Typed /\ CurrentInv /\ InInv)
<1>1. Init => CurrentInv /\ InInv
    BY DEF Init, CurrentInv, InInv, HasRead, Fresh
<1> QED
    BY <1>1, TypeInit, TypeInductive, CurrentInductive, InInductive, PTL
       DEF Spec

\* With any number of requests and processes, and whatever a configure holds,
\* nothing locks the app out but the five mishaps: a write based on a stale
\* read, a configure made on no account, one that replaces the token, a token
\* whose response was lost, a revocation that only disabled.
THEOREM NeverLockedOutCorrect == Spec => []NeverLockedOut
<1>1. Typed /\ InInv => NeverLockedOut
    BY DEF InInv, NeverLockedOut, GetsIn, Admits
<1> QED BY <1>1, InCorrect, PTL

LEMMA WriteStep ==
    ASSUME Typed, CurrentInv, [Next]_vars, NEW r \in Reqs, At(r, "write"),
           req[r].kind # "revoke", req'[r].stage = "over"
    PROVE  KeepsOthers(r) \/ req[r].overtaken \/ req[r].misread
<1> SUFFICES ASSUME ~req[r].overtaken, ~req[r].misread PROVE KeepsOthers(r)
    OBVIOUS
<1>0. /\ req[r] \in AnyRequest /\ req[r].seen = account
      /\ account \in Account \cup {Absent}
    BY DEF Typed, Request, CurrentInv, HasRead, At
<1>1. CASE account' = account
    BY <1>1 DEF KeepsOthers, Old
<1>2. CASE WriteAccount(r)
    <2>1. account' = Result(r, account)
        BY <1>0, <1>2 DEF WriteAccount, Landed
    <2>2. Old(account) \in Account
        BY <1>0, Accounts
    <2>3. CASE req[r].kind = "configureKey"
        <3>1. Merged(r, account) \in Account /\ account' = Merged(r, account)
            BY <1>0, <2>1, <2>3, Results DEF Typed, Result, At
        <3>2. Old(account') = Merged(r, account)
            BY <3>1, Accounts
        <3>3. Old(account).agent \in {None, req[r].agent}
            BY <1>0, <2>3 DEF CurrentInv, HasRead, At
        <3>4. req[r].sent = "kept"
            BY <2>3 DEF Typed, Request, At, Waiting, Stages
        <3> QED BY <3>2, <3>3, <3>4
                DEF KeepsOthers, Sends, Merged, Newer
    <2>4. CASE req[r].kind = "configure"
        <3>1. account' = Configured(r, account)
            BY <2>1, <2>4 DEF Result
        <3>2. account' \in Account
            BY <1>0, <2>1, <2>4, Results DEF Typed, At
        <3>3. Old(account') = Configured(r, account)
            BY <3>1, <3>2, Accounts
        <3>4. "agent" \notin Sends(r)
                => Old(account').agent = Old(account).agent
            BY <2>4, <3>3 DEF Sends, Configured, Patched
        <3>5. "token" \notin Sends(r)
                => Old(account').token = Old(account).token
            BY <3>3 DEF Sends, Configured, Patched, Made
        <3>6. "conf" \notin Sends(r)
                => Old(account').conf = Old(account).conf
            BY <3>3 DEF Sends, Configured, Patched, Made
        <3> QED BY <3>4, <3>5, <3>6 DEF KeepsOthers
    <2> QED BY <1>0, <2>3, <2>4 DEF AnyRequest, Kinds
<1>3. ASSUME NEW q \in Reqs, q # r, WriteAccount(q) \/ Disable(q) PROVE FALSE
    BY <1>3 DEF WriteAccount, Disable, Landed, At, Typed, Request, AnyRequest
<1>4. ASSUME Disable(r) PROVE FALSE
    BY <1>4 DEF Disable
<1> QED
    BY <1>1, <1>2, <1>3, <1>4
       DEF Next, vars, Start, Listen, Poll, Exit, Kill, Send, Serve, Refresh,
           Bootstrap, ReadAccount, GetKeypair, WriteKey, Mint, WriteFails

\* A write keeps what its request does not send anew, unless it was overtaken
\* or its read failed.
THEOREM WritesKeepOthersCorrect == Spec => WritesKeepOthers
<1>1. Typed /\ CurrentInv /\ [Next]_vars =>
        [\A r \in Reqs : At(r, "write") /\ req[r].kind # "revoke"
                /\ req'[r].stage = "over"
            => KeepsOthers(r) \/ req[r].overtaken \/ req[r].misread]_vars
    BY WriteStep
<1> QED BY <1>1, InCorrect, PTL DEF Spec, WritesKeepOthers

-----------------------------------------------------------------------------
(* Keys.                                                                   *)

\* Two processes have written the key file of an agent.
Contended(a) == \E p, q \in writers[a] : p # q

\* One process writes one key file at a time, and finitely many have written.
OneWriter ==
    \A q, r \in Reqs :
        req[q].stage = "writeKey" /\ req[r].stage = "writeKey"
                /\ req[q].proc = req[r].proc
            => q = r
FiniteWriters == \A a \in Agents : IsFiniteSet(writers[a])

\* With the file to itself, a process writes it once; the key of the account
\* and of all that may still become the account is the one in the file, and
\* registered, unless a configure imposed its agent.
Bound(acc, a) == acc # Absent /\ acc.agent = a
KeyTrue(a) == keyFile[a] \in registered[a] \/ a \in imposed
FileTrue(a) ==
    /\ keyFile[a] = None => writers[a] = {}
    /\ Bound(account, a) => KeyTrue(a)
    /\ \A r \in Reqs :
        /\ req[r].stage = "writeKey" /\ req[r].agent = a
            => keyFile[a] = None \/ \E p \in writers[a] : p # req[r].proc
        /\ req[r].stage = "mint" /\ req[r].agent = a
            => req[r].key = keyFile[a]
        /\ req[r].stage = "write" /\ req[r].kind = "configureKey"
                /\ req[r].agent = a
            => keyFile[a] \in registered[a]
        /\ req[r].stage \in HasRead /\ Bound(req[r].seen, a) => KeyTrue(a)
SignInv == \A a \in Agents : Contended(a) \/ FileTrue(a)

\* A request that arrives has not read, and the exit of a process leaves the
\* requests to others as they are.
LEMMA Untouched ==
    ASSUME Typed, NEW q \in Reqs, req'[q].stage \in HasRead
    PROVE  /\ \A r \in Reqs : Send(r) => req'[q] = req[q]
           /\ \A p \in Procs : Dropped(p) => req'[q] = req[q]
                /\ (req[q].stage \in Waiting => req[q].proc # p)
<1>1. ASSUME NEW r \in Reqs, Send(r) PROVE req'[q] = req[q]
    BY <1>1 DEF Send, Typed, HasRead, Request, AnyRequest, Fresh
<1>2. ASSUME NEW p \in Procs, Dropped(p)
      PROVE  req'[q] = req[q] /\ (req[q].stage \in Waiting => req[q].proc # p)
    BY <1>2 DEF Dropped, HasRead, Fresh
<1> QED BY <1>1, <1>2

LEMMA WritersKept ==
    ASSUME OneWriter,
           \A q \in Reqs : req'[q].stage = "writeKey" =>
                req[q].stage = "writeKey" /\ req'[q].proc = req[q].proc
    PROVE  OneWriter'
<1> SUFFICES ASSUME NEW q \in Reqs, NEW r \in Reqs,
                    req'[q].stage = "writeKey", req'[r].stage = "writeKey",
                    req'[q].proc = req'[r].proc
             PROVE  q = r
    BY DEF OneWriter
<1>1. req[q].stage = "writeKey" /\ req'[q].proc = req[q].proc
    OBVIOUS
<1>2. req[r].stage = "writeKey" /\ req'[r].proc = req[r].proc
    OBVIOUS
<1> QED BY <1>1, <1>2 DEF OneWriter

LEMMA OneWriterInductive == Typed /\ OneWriter /\ [Next]_vars => OneWriter'
<1> SUFFICES ASSUME Typed, OneWriter, [Next]_vars PROVE OneWriter'
    OBVIOUS
<1> USE WritersKept DEF Typed, Request, AnyRequest
<1>1. ASSUME NEW r \in Reqs, Send(r) PROVE OneWriter'
    <2>1. \A q \in Reqs : req'[q].stage = "writeKey" => req'[q] = req[q]
        BY <1>1, Untouched DEF HasRead
    <2> QED BY ONLY <2>1, OneWriter, WritersKept
<1>2. ASSUME NEW r \in Reqs, Refresh(r) PROVE OneWriter'
    BY <1>2 DEF Refresh, At, Refreshed, Step, Newer, Reads
<1>3. ASSUME NEW r \in Reqs, Bootstrap(r) PROVE OneWriter'
    BY <1>3 DEF Bootstrap, At, End, Step, Reads, Fresh
<1>4. ASSUME NEW r \in Reqs, ReadAccount(r) PROVE OneWriter'
    BY <1>4 DEF ReadAccount, At, End, Reads, Fresh
<1>5. ASSUME NEW r \in Reqs, GetKeypair(r) PROVE OneWriter'
    BY <1>5 DEF GetKeypair, At, End, Step, Fresh, OneWriter
<1>6. ASSUME NEW r \in Reqs, WriteKey(r) PROVE OneWriter'
    <2>1. \A q \in Reqs : req'[q].stage = "writeKey" => req'[q] = req[q]
        BY <1>6 DEF WriteKey
    <2> QED BY ONLY <2>1, OneWriter, WritersKept
<1>7. ASSUME NEW r \in Reqs, Mint(r) PROVE OneWriter'
    BY <1>7 DEF Mint, At, End, Step, Fresh
<1>8. ASSUME NEW r \in Reqs, WriteAccount(r) PROVE OneWriter'
    BY <1>8, LandedRequests DEF WriteAccount, Landed, Waiting, Stages
<1>9. ASSUME NEW r \in Reqs, Disable(r) PROVE OneWriter'
    BY <1>9, LandedRequests DEF Disable, Landed, Waiting, Stages
<1>10. ASSUME NEW r \in Reqs, WriteFails(r) PROVE OneWriter'
    BY <1>10 DEF WriteFails, At, End, Fresh
<1>11. ASSUME NEW p \in Procs, Start(p) PROVE OneWriter'
    BY <1>11 DEF Start
<1>12. ASSUME NEW p \in Procs, Poll(p) PROVE OneWriter'
    BY <1>12 DEF Poll, Refreshed, Newer
<1>13. ASSUME NEW p \in Procs, Exit(p) PROVE OneWriter'
    <2>1. \A q \in Reqs : req'[q].stage = "writeKey" => req'[q] = req[q]
        BY <1>13, Untouched DEF Exit, HasRead
    <2> QED BY ONLY <2>1, OneWriter, WritersKept
<1>14. ASSUME NEW p \in Procs, Kill(p) PROVE OneWriter'
    <2>1. \A q \in Reqs : req'[q].stage = "writeKey" => req'[q] = req[q]
        BY <1>14, Untouched DEF Kill, HasRead
    <2> QED BY ONLY <2>1, OneWriter, WritersKept
<1>15. ASSUME NEW p \in Procs, Listen(p) PROVE OneWriter'
    BY <1>15 DEF Listen
<1>16. CASE UNCHANGED vars
    BY <1>16 DEF vars
<1> QED
    BY <1>1, <1>2, <1>3, <1>4, <1>5, <1>6, <1>7, <1>8, <1>9, <1>10, <1>11,
       <1>12, <1>13, <1>14, <1>15, <1>16 DEF Next, Serve

LEMMA FiniteInductive ==
    Typed /\ FiniteWriters /\ [Next]_vars => FiniteWriters'
<1> SUFFICES ASSUME Typed, FiniteWriters, [Next]_vars PROVE FiniteWriters'
    OBVIOUS
<1>1. ASSUME NEW x, NEW w,
             writers' = [writers EXCEPT ![w] = @ \cup {x}]
      PROVE  FiniteWriters'
    <2> SUFFICES ASSUME NEW a \in Agents PROVE IsFiniteSet(writers'[a])
        BY DEF FiniteWriters
    <2>1. IsFiniteSet(writers[a])
        BY DEF FiniteWriters
    <2>2. IsFiniteSet(writers[a] \cup {x})
        BY <2>1, FS_AddElement
    <2>3. writers'[a] \in {writers[a], writers[a] \cup {x}}
        BY <1>1 DEF Typed
    <2> QED BY <2>1, <2>2, <2>3
<1>2. CASE UNCHANGED writers
    BY <1>2 DEF FiniteWriters
<1>3. ASSUME NEW p \in Procs, Kill(p) PROVE FiniteWriters'
    BY <1>1, <1>2, <1>3 DEF Kill
<1>4. ASSUME NEW r \in Reqs, WriteKey(r) PROVE FiniteWriters'
    BY <1>1, <1>4 DEF WriteKey
<1> QED
    BY <1>2, <1>3, <1>4
       DEF Next, vars, Start, Listen, Poll, Exit, Send, Serve, Refresh,
           Bootstrap, ReadAccount, GetKeypair, Mint, WriteAccount, Disable,
           WriteFails

\* Requests that go on as they were, with the same account, keep the
\* invariant.
LEMMA SignUnchanged ==
    ASSUME SignInv, UNCHANGED <<keyFile, writers, registered>>,
           \A a \in Agents : Contended(a) \/ (KeyTrue(a) => KeyTrue(a)'),
           account' = account \/
                \A a \in Agents : Contended(a) \/ ~Bound(account', a)
                                    \/ KeyTrue(a)',
           \A q \in Reqs : req'[q].stage \in HasRead =>
                /\ req'[q].stage = req[q].stage /\ req'[q].kind = req[q].kind
                /\ req'[q].agent = req[q].agent /\ req'[q].proc = req[q].proc
                /\ req'[q].seen = req[q].seen /\ req'[q].key = req[q].key
    PROVE  SignInv'
BY DEF SignInv, Contended, FileTrue, HasRead, Bound

\* Where neither the keys nor what was imposed change, they stay true.
LEMMA KeysKept ==
    ASSUME UNCHANGED <<keyFile, registered, imposed>>
    PROVE  \A a \in Agents : KeyTrue(a)' <=> KeyTrue(a)
BY DEF KeyTrue

LEMMA SignInductive ==
    Typed /\ OneWriter /\ SignInv /\ [Next]_vars => SignInv'
<1> SUFFICES ASSUME Typed, OneWriter, SignInv, [Next]_vars PROVE SignInv'
    OBVIOUS
<1>1. ASSUME NEW r \in Reqs, Send(r) PROVE SignInv'
    BY <1>1, Untouched, KeysKept, SignUnchanged DEF Send
<1>2. ASSUME NEW r \in Reqs, Refresh(r) PROVE SignInv'
    BY <1>2, KeysKept, SignUnchanged
       DEF Typed, Request, AnyRequest, Refresh, Step, HasRead
<1>3. ASSUME NEW r \in Reqs, Bootstrap(r) PROVE SignInv'
    BY <1>3, KeysKept, SignUnchanged
       DEF Typed, Request, AnyRequest, Bootstrap, Step, End, Fresh, HasRead
<1>4. ASSUME NEW r \in Reqs, ReadAccount(r) PROVE SignInv'
    <2> SUFFICES ASSUME NEW a \in Agents, ~Contended(a) PROVE FileTrue(a)'
        BY <1>4 DEF ReadAccount, SignInv, Contended
    <2>1. FileTrue(a)
          /\ UNCHANGED <<account, keyFile, writers, registered, imposed>>
        BY <1>4 DEF SignInv, ReadAccount
    <2>2. \A q \in Reqs \ {r} : req'[q] = req[q]
        BY <1>4 DEF ReadAccount, End, Typed
    <2>3. req'[r].stage \in HasRead =>
            /\ req'[r].stage # "writeKey" /\ req'[r].stage # "mint"
            /\ req'[r].stage = "write" => req'[r].kind # "configureKey"
            /\ req'[r].seen \in {account, Absent}
        BY <1>4 DEF ReadAccount, End, Fresh, HasRead, Reads, Typed, Request,
                    AnyRequest
    <2> QED BY <2>1, <2>2, <2>3 DEF FileTrue, KeyTrue, Bound, HasRead
<1>5. ASSUME NEW r \in Reqs, GetKeypair(r) PROVE SignInv'
    <2> SUFFICES ASSUME NEW a \in Agents, ~Contended(a) PROVE FileTrue(a)'
        BY <1>5 DEF GetKeypair, SignInv, Contended
    <2>1. FileTrue(a)
          /\ UNCHANGED <<account, keyFile, writers, registered, imposed>>
        BY <1>5 DEF SignInv, GetKeypair
    <2>2. \A q \in Reqs \ {r} : req'[q] = req[q]
        BY <1>5 DEF GetKeypair, End, Step, Typed
    <2>3. req'[r].stage \in HasRead =>
            /\ req'[r].stage # "write"
            /\ req'[r].agent = req[r].agent /\ req'[r].seen = req[r].seen
            /\ req'[r].stage = "writeKey" => keyFile[req[r].agent] = None
            /\ req'[r].stage = "mint" => req'[r].key = keyFile[req[r].agent]
        BY <1>5 DEF GetKeypair, At, End, Step, Fresh, HasRead, Typed, Request,
                    AnyRequest
    <2>4. req[r].stage \in HasRead
        BY <1>5 DEF GetKeypair, At, HasRead
    <2>5. req'[r].stage = "writeKey" /\ req'[r].agent = a
            => keyFile[a] = None
        BY <2>3 DEF HasRead
    <2>6. req'[r].stage = "mint" /\ req'[r].agent = a
            => req'[r].key = keyFile[a]
        BY <2>3 DEF HasRead
    <2>7. req'[r].stage \in HasRead =>
            (Bound(req'[r].seen, a) => KeyTrue(a))
        BY <2>1, <2>3, <2>4 DEF FileTrue
    <2>8. req'[r].stage # "write"
        BY <2>3 DEF HasRead
    <2> QED BY <2>1, <2>2, <2>5, <2>6, <2>7, <2>8 DEF FileTrue, KeyTrue, Bound
<1>6. ASSUME NEW r \in Reqs, WriteKey(r) PROVE SignInv'
    <2>w. PICK w \in Agents : w = req[r].agent
        BY <1>6 DEF WriteKey, At, Typed, Request, Waiting, Stages
    <2>0. r # None /\ req[r].stage = "writeKey"
        BY <1>6, NoneAssumption DEF WriteKey, At
    <2>1. /\ keyFile' = [keyFile EXCEPT ![w] = r]
          /\ writers' = [writers EXCEPT ![w] = @ \cup {req[r].proc}]
          /\ UNCHANGED <<account, registered, imposed>>
        BY <1>6, <2>w DEF WriteKey
    <2>2. \A q \in Reqs \ {r} : req'[q] = req[q]
        BY <1>6 DEF WriteKey, Typed
    <2>3. /\ req'[r].stage = "mint" /\ req'[r].agent = w
          /\ req'[r].key = r /\ req'[r].seen = req[r].seen
        BY <1>6, <2>w DEF WriteKey, Typed, Request, AnyRequest
    <2>4. ASSUME NEW a \in Agents, a # w, ~Contended(a) PROVE FileTrue(a)'
        <3>1. FileTrue(a) BY <2>4 DEF SignInv
        <3>2. keyFile'[a] = keyFile[a] /\ writers'[a] = writers[a]
            BY <2>1, <2>4 DEF Typed
        <3> QED BY <2>0, <2>1, <2>2, <2>3, <2>4, <3>1, <3>2
                DEF FileTrue, KeyTrue, Bound, HasRead
    <2>5. ASSUME ~Contended(w)' PROVE FileTrue(w)'
        <3>1. writers'[w] = writers[w] \cup {req[r].proc} /\ keyFile'[w] = r
            BY <2>0, <2>1 DEF Typed
        <3>2. ~Contended(w) /\ \A p \in writers[w] : p = req[r].proc
            BY <2>5, <3>1 DEF Contended
        <3>3. FileTrue(w) BY <2>0, <3>2 DEF SignInv
        <3>4. keyFile[w] = None
            BY <2>0, <2>w, <3>2, <3>3 DEF FileTrue
        <3>5. None \notin registered[w]
            BY <2>0, NoneAssumption DEF Typed
        <3>6. w \in imposed \/
                /\ ~Bound(account, w)
                /\ \A q \in Reqs : req[q].stage \in HasRead
                    => ~Bound(req[q].seen, w)
            BY <3>3, <3>4, <3>5 DEF FileTrue, KeyTrue
        <3>7. \A q \in Reqs : req[q].agent = w =>
                /\ req[q].stage # "mint"
                /\ ~(req[q].stage = "write" /\ req[q].kind = "configureKey")
            <4>1. \A q \in Reqs : req[q].stage = "mint" => req[q].key # None
                BY NoneAssumption DEF Typed, Request
            <4> QED BY <3>3, <3>4, <3>5, <4>1 DEF FileTrue
        <3>8. \A q \in Reqs \ {r} : req[q].stage = "writeKey"
                => req[q].proc # req[r].proc
            BY <2>0 DEF OneWriter
        <3>9. keyFile'[w] # None /\ (Bound(account', w) => KeyTrue(w)')
            BY <2>0, <2>1, <3>1, <3>6 DEF KeyTrue
        <3>10. ASSUME NEW q \in Reqs
               PROVE
                /\ req'[q].stage = "writeKey" /\ req'[q].agent = w
                    => \E p \in writers'[w] : p # req'[q].proc
                /\ req'[q].stage = "mint" /\ req'[q].agent = w
                    => req'[q].key = keyFile'[w]
                /\ ~(/\ req'[q].stage = "write"
                     /\ req'[q].kind = "configureKey"
                     /\ req'[q].agent = w)
                /\ req'[q].stage \in HasRead /\ Bound(req'[q].seen, w)
                    => KeyTrue(w)'
            <4>1. CASE q = r
                BY <2>0, <2>1, <2>3, <3>1, <3>6, <4>1 DEF HasRead, KeyTrue
            <4>2. CASE q # r
                <5>1. req'[q] = req[q]
                    BY <2>2, <4>2
                <5>2. req[q].stage = "writeKey"
                        => \E p \in writers'[w] : p # req[q].proc
                    BY <3>1, <3>8, <4>2
                <5> QED BY <2>1, <3>6, <3>7, <5>1, <5>2 DEF KeyTrue
            <4> QED BY <4>1, <4>2
        <3> QED BY <3>9, <3>10 DEF FileTrue
    <2>6. \A a \in Agents : a # w => (Contended(a)' <=> Contended(a))
        BY <2>1 DEF Contended, Typed
    <2> QED BY <2>4, <2>5, <2>6 DEF SignInv
<1>7. ASSUME NEW r \in Reqs, Mint(r) PROVE SignInv'
    <2>w. PICK w \in Agents : w = req[r].agent
        BY <1>7 DEF Mint, At, Typed, Request, Waiting, Stages
    <2>0. req[r].stage = "mint" /\ req[r].key \in Reqs
        BY <1>7 DEF Mint, At, Typed, Request
    <2>1. /\ UNCHANGED <<account, keyFile, writers>>
          /\ \A a \in Agents : registered[a] \subseteq registered'[a]
          /\ UNCHANGED imposed
        BY <1>7 DEF Mint, Typed
    <2>2. \A q \in Reqs \ {r} : req'[q] = req[q]
        BY <1>7 DEF Mint, Step, End, Typed
    <2>3. req'[r].stage \in HasRead =>
            /\ req'[r].stage = "write" /\ req'[r].agent = w
            /\ req'[r].seen = req[r].seen
            /\ req[r].key \in registered'[w]
        <3>1. PICK carriedOut, answered \in BOOLEAN :
                /\ registered' = [registered EXCEPT ![w] =
                        IF carriedOut THEN @ \cup {req[r].key} ELSE @]
                /\ IF answered /\ carriedOut THEN Step(r, "write") ELSE End(r)
            BY <1>7, <2>w DEF Mint
        <3>2. CASE answered /\ carriedOut
            BY <2>w, <3>1, <3>2 DEF Step, Typed, Request, AnyRequest
        <3>3. CASE ~(answered /\ carriedOut)
            BY <3>1, <3>3 DEF End, Fresh, HasRead, Typed
        <3> QED BY <3>2, <3>3
    <2>4. ASSUME NEW a \in Agents, FileTrue(a) PROVE FileTrue(a)'
        <3>1. req'[r].stage = "write" /\ req'[r].agent = a
                => keyFile[a] \in registered'[a]
            BY <2>0, <2>w, <2>3, <2>4 DEF FileTrue, HasRead
        <3> QED BY <2>0, <2>1, <2>2, <2>3, <2>4, <3>1
                DEF FileTrue, KeyTrue, Bound, HasRead
    <2> QED BY <2>1, <2>4 DEF SignInv, Contended
<1>8. ASSUME NEW r \in Reqs, WriteAccount(r) PROVE SignInv'
    <2>1. Landed(r, account', Fresh("over"))
          /\ account' = Result(r, req[r].seen)
          /\ imposed' = Imposed(r)
          /\ UNCHANGED <<keyFile, writers, registered>>
        BY <1>8 DEF WriteAccount, Landed
    <2>2. req[r] \in AnyRequest /\ req[r].stage = "write"
        BY <1>8 DEF Typed, Request, WriteAccount, At
    <2>3. ASSUME NEW a \in Agents, ~Contended(a)
          PROVE  /\ KeyTrue(a) => KeyTrue(a)'
                 /\ Bound(account', a) => KeyTrue(a)'
        <3>1. FileTrue(a) BY <2>3 DEF SignInv
        <3>2. CASE req[r].kind = "configureKey"
            <4>1. imposed' = imposed \ {req[r].agent}
                BY <2>1, <3>2 DEF Imposed
            <4>2. req[r].agent = a => keyFile[a] \in registered[a]
                BY <2>2, <3>1, <3>2 DEF FileTrue
            <4>3. Bound(account', a) => req[r].agent = a
                BY <2>1, <3>2 DEF Result, Merged, Bound
            <4> QED BY <2>1, <4>1, <4>2, <4>3 DEF KeyTrue
        <3>3. CASE req[r].kind = "configure"
            <4>1. imposed' = imposed \cup ({req[r].agent} \cap Agents)
                BY <2>1, <3>3 DEF Imposed
            <4>2. account' = Configured(r, req[r].seen)
                BY <2>1, <3>3 DEF Result
            <4>3. CASE req[r].agent = "kept"
                <5>1. Bound(account', a) => Old(req[r].seen).agent = a
                    BY <4>2, <4>3 DEF Configured, Patched, Bound
                <5>2. Bound(account', a) => Bound(req[r].seen, a)
                    BY <5>1, NoneAssumption, Accounts DEF Bound, Old
                <5> QED BY <2>1, <2>2, <3>1, <4>1, <5>2
                        DEF FileTrue, KeyTrue, HasRead
            <4>4. CASE req[r].agent # "kept"
                <5>1. Bound(account', a) => req[r].agent = a
                    BY <4>2, <4>4 DEF Configured, Patched, Bound
                <5> QED BY <2>1, <4>1, <5>1 DEF KeyTrue
            <4> QED BY <4>3, <4>4
        <3>4. CASE req[r].kind = "revoke"
            <4>1. account' = Absent /\ imposed' = imposed
                BY <2>1, <3>4 DEF Result, Imposed
            <4> QED BY <2>1, <4>1 DEF Bound, KeyTrue
        <3> QED BY <2>2, <3>2, <3>3, <3>4 DEF AnyRequest, Kinds
    <2>4. \A q \in Reqs : req'[q].stage \in HasRead =>
            /\ req'[q].stage = req[q].stage /\ req'[q].kind = req[q].kind
            /\ req'[q].agent = req[q].agent /\ req'[q].proc = req[q].proc
            /\ req'[q].seen = req[q].seen /\ req'[q].key = req[q].key
        BY <2>1, LandedRequests DEF HasRead, Waiting, Stages
    <2> QED BY <2>1, <2>3, <2>4, SignUnchanged
<1>9. ASSUME NEW r \in Reqs, Disable(r) PROVE SignInv'
    <2>1. Landed(r, account', Fresh("over"))
          /\ account' = Old(Absent)
          /\ UNCHANGED <<keyFile, writers, registered, imposed>>
        BY <1>9 DEF Disable, Landed
    <2>2. \A a \in Agents : ~Bound(account', a)
        BY <2>1, Accounts, NoneAssumption DEF Bound
    <2>3. \A q \in Reqs : req'[q].stage \in HasRead =>
            /\ req'[q].stage = req[q].stage /\ req'[q].kind = req[q].kind
            /\ req'[q].agent = req[q].agent /\ req'[q].proc = req[q].proc
            /\ req'[q].seen = req[q].seen /\ req'[q].key = req[q].key
        BY <2>1, LandedRequests DEF HasRead, Waiting, Stages
    <2> QED BY <2>1, <2>2, <2>3, KeysKept, SignUnchanged
<1>10. ASSUME NEW r \in Reqs, WriteFails(r) PROVE SignInv'
    BY <1>10, KeysKept, SignUnchanged
       DEF Typed, WriteFails, End, Fresh, HasRead
<1>11. ASSUME NEW p \in Procs, Start(p) PROVE SignInv'
    BY <1>11, KeysKept, SignUnchanged DEF Start
<1>12. ASSUME NEW p \in Procs, Poll(p) PROVE SignInv'
    BY <1>12, KeysKept, SignUnchanged DEF Poll
<1>13. ASSUME NEW p \in Procs, Exit(p) PROVE SignInv'
    BY <1>13, Untouched, KeysKept, SignUnchanged DEF Exit
<1>14. ASSUME NEW p \in Procs, Kill(p) PROVE SignInv'
    <2>1. \A q \in Reqs : req'[q].stage \in HasRead =>
            req'[q] = req[q] /\ req[q].proc # p
        BY <1>14, Untouched DEF Kill, HasRead, Waiting, Stages
    <2>2. CASE UNCHANGED <<keyFile, writers>>
        BY <1>14, <2>1, <2>2, KeysKept, SignUnchanged DEF Kill
    <2>3. ASSUME NEW r \in Reqs, req[r].stage = "writeKey", req[r].proc = p,
                 keyFile' = [keyFile EXCEPT ![req[r].agent] = "torn"],
                 writers' = [writers EXCEPT ![req[r].agent] = @ \cup {p}]
          PROVE  SignInv'
        <3>w. PICK w \in Agents : w = req[r].agent
            BY <2>3 DEF Typed, Request, Waiting, Stages
        <3>0. /\ keyFile' = [keyFile EXCEPT ![w] = "torn"]
              /\ writers' = [writers EXCEPT ![w] = @ \cup {p}]
              /\ UNCHANGED <<account, registered, imposed>>
            BY <1>14, <2>3, <3>w DEF Kill
        <3>1. ASSUME NEW a \in Agents, a # w, ~Contended(a)
              PROVE  FileTrue(a)'
            <4>1. FileTrue(a) BY <3>1 DEF SignInv
            <4>2. keyFile'[a] = keyFile[a] /\ writers'[a] = writers[a]
                BY <3>0, <3>1 DEF Typed
            <4> QED BY <2>1, <3>0, <4>1, <4>2
                    DEF FileTrue, KeyTrue, Bound, HasRead
        <3>2. ASSUME ~Contended(w)' PROVE FileTrue(w)'
            <4>1. writers'[w] = writers[w] \cup {p}
                BY <3>0 DEF Typed
            <4>2. ~Contended(w) /\ \A x \in writers[w] : x = p
                BY <3>2, <4>1 DEF Contended
            <4>3. FileTrue(w) BY <3>0, <4>2 DEF SignInv
            <4>4. keyFile[w] = None
                BY <2>3, <3>w, <4>2, <4>3 DEF FileTrue
            <4>5. None \notin registered[w]
                BY <3>0, NoneAssumption DEF Typed
            <4>6. \A q \in Reqs : req[q].stage = "mint" => req[q].key # None
                BY NoneAssumption DEF Typed, Request
            <4>7. Bound(account, w) => w \in imposed
                BY <4>3, <4>4, <4>5 DEF FileTrue, KeyTrue
            <4>8. \A q \in Reqs :
                    /\ req[q].stage \in HasRead /\ Bound(req[q].seen, w)
                        => w \in imposed
                    /\ req[q].agent = w =>
                        /\ req[q].stage # "mint"
                        /\ ~(req[q].stage = "write"
                                /\ req[q].kind = "configureKey")
                BY <4>3, <4>4, <4>5, <4>6 DEF FileTrue, KeyTrue
            <4>9. keyFile'[w] # None /\ (Bound(account', w) => KeyTrue(w)')
                <5>1. keyFile'[w] = "torn"
                    BY <3>0 DEF Typed
                <5> QED BY <3>0, <4>7, <5>1, NoneAssumption DEF KeyTrue
            <4>10. ASSUME NEW q \in Reqs, req'[q].stage \in HasRead
                   PROVE
                    /\ \E x \in writers'[w] : x # req'[q].proc
                    /\ Bound(req'[q].seen, w) => KeyTrue(w)'
                    /\ req'[q].agent = w =>
                        /\ req'[q].stage # "mint"
                        /\ ~(req'[q].stage = "write"
                                /\ req'[q].kind = "configureKey")
                <5>1. req'[q] = req[q] /\ req[q].proc # p
                    BY <2>1, <4>10
                <5> QED BY <3>0, <4>1, <4>8, <4>10, <5>1 DEF KeyTrue
            <4> QED BY <4>9, <4>10 DEF FileTrue, HasRead
        <3>3. \A a \in Agents : a # w => (Contended(a)' <=> Contended(a))
            BY <3>0 DEF Contended, Typed
        <3> QED BY <3>1, <3>2, <3>3 DEF SignInv
    <2> QED BY <1>14, <2>2, <2>3 DEF Kill, At
<1>15. ASSUME NEW p \in Procs, Listen(p) PROVE SignInv'
    BY <1>15, KeysKept, SignUnchanged DEF Listen
<1>16. CASE UNCHANGED vars
    BY <1>16, KeysKept, SignUnchanged DEF vars
<1> QED
    BY <1>1, <1>2, <1>3, <1>4, <1>5, <1>6, <1>7, <1>8, <1>9, <1>10, <1>11,
       <1>12, <1>13, <1>14, <1>15, <1>16 DEF Next, Serve

\* Two writers are more than one.
LEMMA TwoWriters ==
    ASSUME NEW a \in Agents, IsFiniteSet(writers[a]), Contended(a)
    PROVE  Cardinality(writers[a]) > 1
<1>1. PICK p, q \in writers[a] : p # q
    BY DEF Contended
<1>2. IsFiniteSet({p}) /\ Cardinality({p}) = 1
    BY FS_Singleton
<1>3. IsFiniteSet({p} \cup {q}) /\ Cardinality({p} \cup {q}) = 2
    <2> DEFINE S == {p}
    <2>1. IsFiniteSet(S) /\ Cardinality(S) = 1 /\ q \notin S
        BY <1>1, <1>2
    <2> HIDE DEF S
    <2>2. /\ IsFiniteSet(S \cup {q})
          /\ Cardinality(S \cup {q}) =
                IF q \in S THEN Cardinality(S) ELSE Cardinality(S) + 1
        BY ONLY <2>1, FS_AddElement
    <2>3. IsFiniteSet(S \cup {q}) /\ Cardinality(S \cup {q}) = 2
        BY ONLY <2>1, <2>2
    <2> QED BY <2>3 DEF S
<1>4. {p} \cup {q} \in SUBSET writers[a]
    BY <1>1
<1>5. Cardinality({p} \cup {q}) <= Cardinality(writers[a])
    BY <1>4, FS_Subset
<1>6. Cardinality(writers[a]) \in Nat
    BY FS_CardinalityType
<1> QED BY <1>3, <1>5, <1>6

LEMMA SignCorrect == Spec => [](OneWriter /\ FiniteWriters /\ SignInv)
<1>1. ASSUME Init PROVE OneWriter /\ FiniteWriters /\ SignInv
    <2>1. \A r \in Reqs : req[r].stage = "idle"
        BY <1>1 DEF Init, Fresh
    <2>2. account = Absent /\ \A a \in Agents : writers[a] = {}
        BY <1>1 DEF Init
    <2>3. OneWriter
        BY <2>1 DEF OneWriter
    <2>4. FiniteWriters
        BY <2>2, FS_EmptySet DEF FiniteWriters
    <2>5. ASSUME NEW a \in Agents PROVE FileTrue(a)
        <3>1. ~Bound(account, a)
            BY <2>2 DEF Bound
        <3> QED BY <2>1, <2>2, <3>1 DEF FileTrue, HasRead
    <2> QED BY <2>3, <2>4, <2>5 DEF SignInv
<1> QED
    BY <1>1, OneWriterInductive, FiniteInductive, SignInductive,
       TypedCorrect, PTL DEF Spec

\* The agent signs with a registered key, unless two processes wrote its file
\* or a configure, which checks nothing, bound the account to another agent.
THEOREM SignsRegisteredCorrect == Spec => []SignsRegistered
<1>1. Typed /\ FiniteWriters /\ SignInv => SignsRegistered
    BY TwoWriters
       DEF Typed, Account, FiniteWriters, SignInv, FileTrue, KeyTrue, Bound,
           SignsRegistered
<1> QED BY <1>1, SignCorrect, TypedCorrect, PTL

-----------------------------------------------------------------------------
(* One process at a time: what the exceptions of the two properties above  *)
(* come from is a gateway whose old process outlives its restart.          *)

OneProcess ==
    \A p, q \in Procs : proc[p] \in Running /\ proc[q] \in Running => p = q

\* The runtime file names the process that listens, if it could be written.
Found ==
    \A p \in Procs : proc[p] = "up" => runtime = p \/ lost = "unwritten"

\* While processes do not overlap the app finds the one that listens, unless
\* that one could not write the runtime file: what an exit removes is then
\* never the file of another.
THEOREM FoundWhenAlone == Spec /\ []OneProcess => []Found
<1>1. Init => Found
    BY DEF Init, Found
<1>2. Typed /\ OneProcess /\ OneProcess' /\ Found /\ [Next]_vars => Found'
    <2> SUFFICES ASSUME Typed, OneProcess, OneProcess', Found, [Next]_vars
                 PROVE  Found'
        OBVIOUS
    <2>1. ASSUME NEW p \in Procs, Start(p) PROVE Found'
        BY <2>1 DEF Typed, OneProcess, Found, Start
    <2>2. ASSUME NEW p \in Procs, Exit(p) PROVE Found'
        BY <2>2 DEF Typed, OneProcess, Found, Exit
    <2>3. ASSUME NEW p \in Procs, Kill(p) PROVE Found'
        BY <2>3 DEF Typed, OneProcess, Found, Kill
    <2>4. ASSUME NEW p \in Procs, Listen(p) PROVE Found'
        BY <2>4 DEF Typed, OneProcess, Found, Listen
    <2>5. CASE UNCHANGED <<proc, runtime, lost>>
        BY <2>5 DEF Found
    <2> QED
        BY <2>1, <2>2, <2>3, <2>4, <2>5
           DEF Next, vars, Poll, Send, Serve, Refresh, Bootstrap, ReadAccount,
               GetKeypair, WriteKey, Mint, WriteAccount, Disable, WriteFails
<1> QED BY <1>1, <1>2, TypedCorrect, PTL DEF Spec

\* A request under way is served by a process that runs.
Served == \A r \in Reqs : req[r].stage \in Waiting => proc[req[r].proc] = "up"

\* What happens to a request does not give it to another process.
LEMMA ServedKept ==
    ASSUME Served, UNCHANGED proc,
           \A q \in Reqs : req'[q].stage \in Waiting =>
                req[q].stage \in Waiting /\ req'[q].proc = req[q].proc
    PROVE  Served'
BY DEF Served

LEMMA ServedInductive == Typed /\ Served /\ [Next]_vars => Served'
<1> SUFFICES ASSUME Typed, Served, [Next]_vars PROVE Served'
    OBVIOUS
<1> USE DEF Typed, Request, AnyRequest, Waiting, Stages
<1>1. ASSUME NEW r \in Reqs, Send(r) PROVE Served'
    BY <1>1 DEF Send, Fresh, Served
<1>2. ASSUME NEW r \in Reqs, Refresh(r) PROVE Served'
    BY <1>2, ServedKept DEF Refresh, At, Step
<1>3. ASSUME NEW r \in Reqs, Bootstrap(r) PROVE Served'
    BY <1>3, ServedKept DEF Bootstrap, At, End, Step, Fresh
<1>4. ASSUME NEW r \in Reqs, ReadAccount(r) PROVE Served'
    BY <1>4, ServedKept DEF ReadAccount, At, End, Fresh
<1>5. ASSUME NEW r \in Reqs, GetKeypair(r) PROVE Served'
    BY <1>5, ServedKept DEF GetKeypair, At, End, Step, Fresh
<1>6. ASSUME NEW r \in Reqs, WriteKey(r) PROVE Served'
    BY <1>6, ServedKept DEF WriteKey, At
<1>7. ASSUME NEW r \in Reqs, Mint(r) PROVE Served'
    BY <1>7, ServedKept DEF Mint, At, End, Step, Fresh
<1>8. ASSUME NEW r \in Reqs, WriteAccount(r) PROVE Served'
    BY <1>8, LandedRequests, ServedKept DEF WriteAccount, Landed
<1>9. ASSUME NEW r \in Reqs, Disable(r) PROVE Served'
    BY <1>9, LandedRequests, ServedKept DEF Disable, Landed
<1>10. ASSUME NEW r \in Reqs, WriteFails(r) PROVE Served'
    BY <1>10, ServedKept DEF WriteFails, At, End, Fresh
<1>11. ASSUME NEW p \in Procs, Start(p) PROVE Served'
    BY <1>11 DEF Start, Served
<1>12. ASSUME NEW p \in Procs, Exit(p) \/ Kill(p) PROVE Served'
    <2>1. /\ Dropped(p)
          /\ \A q \in Procs : q # p => proc'[q] = proc[q]
        BY <1>12 DEF Exit, Kill
    <2> SUFFICES ASSUME NEW r \in Reqs, req'[r].stage \in Waiting
                 PROVE  proc'[req'[r].proc] = "up"
        BY DEF Served
    <2>2. req'[r] = req[r] /\ req[r].proc # p
        BY <2>1 DEF Dropped, Fresh
    <2> QED BY <2>1, <2>2 DEF Served
<1>13. ASSUME NEW p \in Procs, Listen(p) PROVE Served'
    BY <1>13 DEF Listen, Served
<1>14. CASE UNCHANGED <<proc, req>>
    BY <1>14 DEF Served
<1> QED
    BY <1>1, <1>2, <1>3, <1>4, <1>5, <1>6, <1>7, <1>8, <1>9, <1>10, <1>11,
       <1>12, <1>13, <1>14 DEF Next, Serve, Poll, vars

\* A key file is written once: by then nobody has written it.
OnceInv ==
    /\ \A a \in Agents :
        ~Contended(a) /\ (keyFile[a] = None => writers[a] = {})
    /\ \A r \in Reqs :
        req[r].stage = "writeKey" => keyFile[req[r].agent] = None

LEMMA OnceKept ==
    ASSUME OnceInv, UNCHANGED <<keyFile, writers>>,
           \A q \in Reqs : req'[q].stage = "writeKey" =>
                req[q].stage = "writeKey" /\ req'[q].agent = req[q].agent
    PROVE  OnceInv'
BY DEF OnceInv, Contended

\* The one write: what it leaves in the file is a key, or torn.
LEMMA OnceWritten ==
    ASSUME Typed, OnceInv, NEW r \in Reqs, req[r].stage = "writeKey",
           NEW p \in Procs, NEW w \in Agents, w = req[r].agent,
           NEW key \in Reqs \cup {"torn"},
           keyFile' = [keyFile EXCEPT ![w] = key],
           writers' = [writers EXCEPT ![w] = @ \cup {p}],
           \A q \in Reqs : req'[q].stage # "writeKey"
    PROVE  OnceInv'
<1>1. writers[w] = {}
    BY DEF OnceInv
<1>2. keyFile'[w] # None /\ writers'[w] = {p}
    BY <1>1, NoneAssumption DEF Typed
<1>3. \A a \in Agents : a # w =>
        keyFile'[a] = keyFile[a] /\ writers'[a] = writers[a]
    BY DEF Typed
<1> QED BY <1>2, <1>3 DEF OnceInv, Contended

LEMMA OnceInductive ==
    Typed /\ OneWriter /\ Served /\ OneProcess /\ OnceInv /\ [Next]_vars
        => OnceInv'
<1> SUFFICES ASSUME Typed, OneWriter, Served, OneProcess, OnceInv,
                    [Next]_vars
             PROVE  OnceInv'
    OBVIOUS
<1> USE DEF Typed, Request, AnyRequest
<1>0. \A q, r \in Reqs :
        req[q].stage = "writeKey" /\ req[r].stage = "writeKey" => q = r
    BY DEF Served, OneProcess, OneWriter, Waiting, Stages
<1>1. ASSUME NEW r \in Reqs, Send(r) PROVE OnceInv'
    BY <1>1, OnceKept DEF Send, Fresh
<1>2. ASSUME NEW r \in Reqs, Refresh(r) PROVE OnceInv'
    BY <1>2, OnceKept DEF Refresh, At, Step
<1>3. ASSUME NEW r \in Reqs, Bootstrap(r) PROVE OnceInv'
    BY <1>3, OnceKept DEF Bootstrap, At, End, Step, Fresh
<1>4. ASSUME NEW r \in Reqs, ReadAccount(r) PROVE OnceInv'
    BY <1>4, OnceKept DEF ReadAccount, At, End, Fresh
<1>5. ASSUME NEW r \in Reqs, GetKeypair(r) PROVE OnceInv'
    <2>1. \A q \in Reqs \ {r} : req'[q] = req[q]
        BY <1>5 DEF GetKeypair, End, Step
    <2>2. req'[r].stage = "writeKey" =>
            keyFile[req[r].agent] = None /\ req'[r].agent = req[r].agent
        BY <1>5 DEF GetKeypair, At, End, Step, Fresh
    <2> QED BY <1>5, <2>1, <2>2 DEF GetKeypair, OnceInv, Contended
<1>6. ASSUME NEW r \in Reqs, WriteKey(r) PROVE OnceInv'
    <2>1. /\ req[r].stage = "writeKey"
          /\ req[r].agent \in Agents /\ req[r].proc \in Procs
        BY <1>6 DEF WriteKey, At, Waiting, Stages
    <2>2. \A q \in Reqs : req'[q].stage # "writeKey"
        BY <1>0, <1>6, <2>1 DEF WriteKey
    <2> QED BY <1>6, <2>1, <2>2, OnceWritten DEF WriteKey
<1>7. ASSUME NEW r \in Reqs, Mint(r) PROVE OnceInv'
    BY <1>7, OnceKept DEF Mint, At, End, Step, Fresh
<1>8. ASSUME NEW r \in Reqs, WriteAccount(r) PROVE OnceInv'
    BY <1>8, LandedRequests, OnceKept DEF WriteAccount, Landed, Waiting,
                                          Stages
<1>9. ASSUME NEW r \in Reqs, Disable(r) PROVE OnceInv'
    BY <1>9, LandedRequests, OnceKept DEF Disable, Landed, Waiting, Stages
<1>10. ASSUME NEW r \in Reqs, WriteFails(r) PROVE OnceInv'
    BY <1>10, OnceKept DEF WriteFails, At, End, Fresh
<1>11. ASSUME NEW p \in Procs, Exit(p) PROVE OnceInv'
    BY <1>11, OnceKept DEF Exit, Dropped, Fresh
<1>12. ASSUME NEW p \in Procs, Kill(p) PROVE OnceInv'
    <2>1. Dropped(p) /\ proc[p] \in Running
        BY <1>12 DEF Kill
    <2>2. CASE UNCHANGED <<keyFile, writers>>
        BY <2>1, <2>2, OnceKept DEF Dropped, Fresh
    <2>3. CASE ~UNCHANGED <<keyFile, writers>>
        <3>1. PICK r \in Reqs :
                /\ req[r].stage = "writeKey" /\ req[r].proc = p
                /\ keyFile' = [keyFile EXCEPT ![req[r].agent] = "torn"]
                /\ writers' = [writers EXCEPT ![req[r].agent] = @ \cup {p}]
            BY <1>12, <2>3 DEF Kill, At
        <3>2. req[r].agent \in Agents
            BY <3>1 DEF Waiting, Stages
        <3>3. \A q \in Reqs : req'[q].stage # "writeKey"
            BY <1>0, <2>1, <3>1 DEF Dropped, Fresh, Waiting, Stages
        <3> QED BY <3>1, <3>2, <3>3, OnceWritten
    <2> QED BY <2>2, <2>3
<1>13. CASE UNCHANGED <<keyFile, writers, req>>
    BY <1>13, OnceKept
<1> QED
    BY <1>1, <1>2, <1>3, <1>4, <1>5, <1>6, <1>7, <1>8, <1>9, <1>10, <1>11,
       <1>12, <1>13 DEF Next, Serve, Start, Listen, Poll, vars

\* The key that the account's agent signs with is registered, unless a
\* configure imposed that agent.
Registered ==
    account # Absent /\ account.agent # None =>
        \/ keyFile[account.agent] \in registered[account.agent]
        \/ account.agent \in imposed

\* While processes do not overlap, whatever the requests and wherever each
\* process is killed, the agent signs with a registered key, unless it is one
\* that a configure bound the account to without a check.
THEOREM RegisteredWhenAlone == Spec /\ []OneProcess => []Registered
<1>1. ASSUME Init PROVE Served /\ OnceInv
    <2>1. \A r \in Reqs : req[r].stage = "idle"
        BY <1>1 DEF Init, Fresh
    <2> QED BY <1>1, <2>1 DEF Init, Served, OnceInv, Contended, Waiting
<1>2. Typed /\ OnceInv /\ SignInv => Registered
    BY DEF Typed, Account, OnceInv, SignInv, FileTrue, KeyTrue, Bound,
           Registered
<1> QED
    BY <1>1, <1>2, SignCorrect, ServedInductive, OnceInductive, TypedCorrect,
       PTL DEF Spec
=============================================================================
