------------------------------ MODULE WrapperApi ------------------------------
(***************************************************************************)
(* The HTTP interface of the plugin on its host: src/wrapper-api.js with   *)
(* the key pairs of src/pop-keys.js.  The app configures an account, keeps *)
(* the token it is given, and calls again; the account is a record in the  *)
(* gateway's configuration, read and written through the `openclaw` CLI.   *)
(* A gateway that restarts may leave its old plugin process running.       *)
(*                                                                         *)
(* Abstractions.  One account ("default", the only one the app uses).  Of  *)
(* its record there are the agent it is bound to, the token, and conf for  *)
(* all the other fields of the plugin's schema, which a request may send   *)
(* anew; fields outside the schema, which configure-key drops, are left    *)
(* out.  A token, a key pair and a conf are named by the request that made *)
(* them.  A CLI command takes effect at once or not at all, whatever its   *)
(* caller is told.  Requests that change nothing (health) or that fail     *)
(* validation are left out, as are uninstall, which ends the plugin, and   *)
(* the approvals flag (module Approvals).                                  *)
(*                                                                         *)
(* A definition whose name ends in _Slip is the one after it with a        *)
(* plausible mistake in the code; no action uses it.                       *)
(***************************************************************************)
EXTENDS Naturals, FiniteSets

CONSTANTS
    Reqs,       \* HTTP requests of the app
    Procs,      \* plugin processes, one for each start of the gateway
    Agents,     \* agentProfileIds
    Bodies,     \* what requests may hold
    None        \* no value

Kinds == {"configureKey", "configure", "revoke"}

\* What any request may hold: for each part of an account a value, None for
\* null, or "kept" where it does not send that part.
AnyBody ==
    {b \in [kind : Kinds, agent : Agents \cup {None, "kept"},
            sent : {"kept", "new", None}, conf : {"kept", "new", None}] :
        /\ b.kind = "configureKey" =>
                b.agent \in Agents /\ b.sent = "kept" /\ b.conf # None
        /\ b.kind = "revoke" =>
                b.agent = "kept" /\ b.sent = "kept" /\ b.conf = "kept"}

ASSUME NoneAssumption ==
    /\ None \notin Reqs \cup Procs \cup Agents \cup {"torn", "kept", "new"}
    /\ "kept" \notin Reqs \cup Agents
ASSUME BodiesAssumption == Bodies \subseteq AnyBody

VARIABLES
    account,    \* the account in the configuration; Absent: there is none
    keyFile,    \* ~/.openclaw/secrets/<agent>.key, per agent
    runtime,    \* the process that the runtime file names
    proc,       \* whether each process runs, and listens
    cached,     \* cachedTokens, per process
    req         \* the state of each request

VARIABLES       \* the world outside
    appToken,   \* the token in the app's keychain
    registered  \* the public keys mint-agent-key was given, per agent

VARIABLES       \* history, for the properties
    writers,    \* per agent, the processes that wrote its key file
    imposed,    \* agents that a configure bound the account to
    newest,     \* the process that listened last
    lost,       \* what happened to its runtime file, if anything
    left,       \* whether the process in that file exited and left it there
    mishap      \* whether anything may have cut the app off

vars == <<account, keyFile, runtime, proc, cached, req, appToken, registered,
          writers, imposed, newest, lost, left, mishap>>

Value   == Reqs \cup {None}
Account == [agent : Agents \cup {None}, token : Value, conf : Value]
Absent  == [none |-> TRUE]
Stages  == {"idle", "refresh", "bootstrap", "read", "keys", "writeKey", "mint",
            "write", "over"}
Waiting == Stages \ {"idle", "over"}

\* A process that runs does or does not listen yet; it may never.
Running == {"starting", "up"}

\* A request that was not made yet, or is over.
Fresh(stage) ==
    [stage |-> stage, kind |-> "configure", agent |-> "kept", sent |-> "kept",
     conf |-> "kept", proc |-> None, token |-> None, seen |-> Absent,
     key |-> None, overtaken |-> FALSE, misread |-> FALSE]

TypeOK ==
    /\ account \in Account \cup {Absent}
    /\ keyFile \in [Agents -> Value \cup {"torn"}]
    /\ runtime \in Procs \cup {None}
    /\ proc \in [Procs -> {"off", "exited", "killed"} \cup Running]
    /\ cached \in [Procs -> Value]
    /\ req \in [Reqs ->
            [stage : Stages, kind : Kinds, agent : Agents \cup {None, "kept"},
             sent : {"kept", "new", None}, conf : {"kept", "new", None},
             proc : Procs \cup {None}, token : Value,
             seen : Account \cup {Absent}, key : Value,
             overtaken : BOOLEAN, misread : BOOLEAN]]
    /\ appToken \in Value
    /\ registered \in [Agents -> SUBSET Reqs]
    /\ writers \in [Agents -> SUBSET Procs]
    /\ imposed \subseteq Agents
    /\ newest \in Procs \cup {None} /\ lost \in {"no", "removed", "unwritten"}
    /\ left \in BOOLEAN
    /\ mishap \in BOOLEAN

Init ==
    /\ account = Absent
    /\ keyFile = [a \in Agents |-> None]
    /\ runtime = None
    /\ proc = [p \in Procs |-> "off"]
    /\ cached = [p \in Procs |-> None]
    /\ req = [r \in Reqs |-> Fresh("idle")]
    /\ appToken = None
    /\ registered = [a \in Agents |-> {}]
    /\ writers = [a \in Agents |-> {}]
    /\ imposed = {}
    /\ newest = None /\ lost = "no" /\ left = FALSE
    /\ mishap = FALSE

-----------------------------------------------------------------------------
(* Helpers.                                                                *)

runFile == <<runtime, newest, lost, left>>
files   == <<keyFile, registered, writers, runFile>>
Step(r, stage) == req' = [req EXCEPT ![r].stage = stage]
End(r)         == req' = [req EXCEPT ![r] = Fresh("over")]
At(r, stage)   == req[r].stage = stage

\* The token that findExpectedTokens finds, None without one.
TokenOf(acc) == IF acc = Absent THEN None ELSE acc.token

\* What readAccountsFromConfig may return: a command that fails or times out
\* reads as no accounts.
Reads == {account, Absent}

\* bearerEquals with one of cachedTokens.
Admits(token, presented) == token # None /\ token = presented

Old(acc) == IF acc = Absent
            THEN [agent |-> None, token |-> None, conf |-> None] ELSE acc

\* `new ?? existing`.
Newer(new, existing) == IF new = None THEN existing ELSE new

\* Slip: a new token each time.
Merged_Slip(r, seen) ==
    [agent |-> req[r].agent, token |-> r,
     conf  |-> IF req[r].conf = "new" THEN r ELSE Old(seen).conf]

\* The account that configure-key writes: what it was sent, over what there
\* is; the token is minted the first time only.
Merged(r, seen) ==
    [agent |-> req[r].agent, token |-> Newer(Old(seen).token, r),
     conf  |-> IF req[r].conf = "new" THEN r ELSE Old(seen).conf]

\* `{...existing, ...patch}`: whatever the patch of a configure holds, be it
\* an agent, a token or null in the place of one, replaces what there is.
Patched(new, existing) == IF new = "kept" THEN existing ELSE new
Made(r, new)           == IF new = "new" THEN r ELSE new
Configured(r, seen) ==
    [agent |-> Patched(req[r].agent, Old(seen).agent),
     token |-> Patched(Made(r, req[r].sent), Old(seen).token),
     conf  |-> Patched(Made(r, req[r].conf), Old(seen).conf)]

\* The account that each request is to leave behind.
Result(r, seen) ==
    CASE req[r].kind = "configureKey" -> Merged(r, seen)
      [] req[r].kind = "configure"    -> Configured(r, seen)
      [] req[r].kind = "revoke"       -> Absent

\* A write lands: others that have read and not yet written are overtaken.
Landed(r, acc, next) ==
    /\ account' = acc
    /\ req' = [q \in Reqs |->
            IF q = r THEN next
            ELSE [req[q] EXCEPT !.overtaken = @ \/
                    req[q].stage \in {"keys", "writeKey", "mint", "write"}]]

-----------------------------------------------------------------------------
(* Authentication, before the handler.                                     *)

\* A request arrives, with the token the app holds.
Send(r) ==
    /\ At(r, "idle")
    /\ \E p \in Procs, b \in Bodies :
        /\ proc[p] = "up"
        /\ req' = [req EXCEPT ![r] = [Fresh("refresh") EXCEPT
                !.stage  = IF Admits(cached[p], appToken) THEN "read" ELSE @,
                !.kind   = b.kind, !.agent = b.agent,
                !.sent   = b.sent, !.conf = b.conf,
                !.proc   = p,
                !.token  = IF Admits(cached[p], appToken) THEN None
                                                          ELSE appToken]]
    /\ UNCHANGED <<account, files, imposed, proc, cached, appToken, mishap>>

\* refreshTokens: a list without a token does not replace the cached one.
Refreshed(p, acc) ==
    cached' = [cached EXCEPT ![p] = Newer(TokenOf(acc), @)]

\* It is awaited once before the request is refused.
Refresh(r) ==
    /\ At(r, "refresh")
    /\ \E acc \in Reads :
        /\ Refreshed(req[r].proc, acc)
        /\ req' = [req EXCEPT ![r].token = None,
                ![r].stage = IF Admits(cached'[req[r].proc], req[r].token)
                             THEN "read" ELSE "bootstrap"]
    /\ UNCHANGED <<account, files, imposed, proc, appToken, mishap>>

\* The first configure-key needs no token: there is no account yet.
Bootstrap(r) ==
    /\ At(r, "bootstrap")
    /\ \E acc \in Reads :
        IF acc = Absent /\ req[r].kind = "configureKey" THEN Step(r, "read")
                                                         ELSE End(r)
    /\ UNCHANGED <<account, files, imposed, proc, cached, appToken, mishap>>

\* The 60 s timer, and the refresh that follows a configure-key.
Poll(p) ==
    /\ proc[p] \in Running
    /\ Refreshed(p, account)
    /\ UNCHANGED <<account, files, imposed, proc, req, appToken, mishap>>

-----------------------------------------------------------------------------
(* The handlers.                                                           *)

\* Answers without effect: the account is bound to another agent or lacks a
\* required field (configure-key), or is unknown (revoke).
Refuses(r, seen) ==
    \/ /\ req[r].kind = "configureKey"
       /\ \/ Old(seen).agent \notin {None, req[r].agent}
          \/ Merged(r, seen).conf = None
    \/ req[r].kind = "revoke" /\ seen = Absent

\* readAccountsFromConfig at the head of each handler.
ReadAccount(r) ==
    /\ At(r, "read")
    /\ \E seen \in Reads :
        IF Refuses(r, seen) THEN End(r)
        ELSE req' = [req EXCEPT
                ![r].seen = seen, ![r].misread = seen # account,
                ![r].stage = IF req[r].kind = "configureKey" THEN "keys"
                                                             ELSE "write"]
    /\ UNCHANGED <<account, files, imposed, proc, cached, appToken, mishap>>

\* Slip: a key pair for each call.
GetKeypair_Slip(r) ==
    /\ At(r, "keys")
    /\ Step(r, "writeKey")
    /\ UNCHANGED <<account, files, imposed, proc, cached, appToken, mishap>>

\* getOrCreateKeypair: a key file that exists is read, and must parse.  From
\* there to the write nothing else of the same process runs.
GetKeypair(r) ==
    /\ At(r, "keys")
    /\ \A q \in Reqs : At(q, "writeKey") => req[q].proc # req[r].proc
    /\ CASE keyFile[req[r].agent] = None   -> Step(r, "writeKey")
         [] keyFile[req[r].agent] = "torn" -> End(r)
         [] OTHER -> req' = [req EXCEPT ![r].stage = "mint",
                                        ![r].key = keyFile[req[r].agent]]
    /\ UNCHANGED <<account, files, imposed, proc, cached, appToken, mishap>>

\* It is generated, written in place, and read back.
WriteKey(r) ==
    /\ At(r, "writeKey")
    /\ keyFile' = [keyFile EXCEPT ![req[r].agent] = r]
    /\ writers' = [writers EXCEPT ![req[r].agent] = @ \cup {req[r].proc}]
    /\ req' = [req EXCEPT ![r].stage = "mint", ![r].key = r]
    /\ UNCHANGED <<account, registered, runFile, imposed, proc, cached,
                   appToken, mishap>>

\* The public key is registered: the request may be carried out and fail.
Mint(r) ==
    /\ At(r, "mint")
    /\ \E carriedOut \in BOOLEAN, answered \in BOOLEAN :
        /\ registered' = [registered EXCEPT ![req[r].agent] =
                            IF carriedOut THEN @ \cup {req[r].key} ELSE @]
        /\ IF answered /\ carriedOut THEN Step(r, "write") ELSE End(r)
    /\ UNCHANGED <<account, keyFile, writers, runFile, imposed, proc, cached,
                   appToken, mishap>>

\* The token is in the response when this request minted it.
Issues(r) == req[r].kind = "configureKey" /\ TokenOf(req[r].seen) = None

\* What the write of r means for the app's way in, for the properties.
Trouble(r) ==
    \/ req[r].overtaken
    \/ req[r].kind = "configure" /\ req[r].seen = Absent
    \/ req[r].kind = "configure" /\ req[r].sent # "kept"

\* The agents that were imposed, after the write of r: a configure adds its
\* own, a configure-key has made and registered the key of its own.
Imposed(r) ==
    CASE req[r].kind = "configureKey" -> imposed \ {req[r].agent}
      [] req[r].kind = "configure" -> imposed \cup ({req[r].agent} \cap Agents)
      [] req[r].kind = "revoke"       -> imposed

\* writeAccount, or deleteAccount for a revoke, and the response, which may
\* not reach the app: the command timed out, or the connection is gone.
WriteAccount(r) ==
    /\ At(r, "write")
    /\ Landed(r, Result(r, req[r].seen), Fresh("over"))
    /\ \E delivered \in BOOLEAN :
        IF Issues(r)
        THEN /\ appToken' = IF delivered THEN r ELSE appToken
             /\ mishap' = (mishap \/ Trouble(r) \/ ~delivered)
        ELSE /\ UNCHANGED appToken
             /\ mishap' = (mishap \/ Trouble(r))
    /\ imposed' = Imposed(r)
    /\ UNCHANGED <<files, proc, cached>>

\* The fallback of deleteAccount: {enabled: false} in the place of the account.
Disable(r) ==
    /\ At(r, "write") /\ req[r].kind = "revoke"
    /\ Landed(r, Old(Absent), Fresh("over"))
    /\ mishap' = TRUE
    /\ UNCHANGED <<files, imposed, proc, cached, appToken>>

\* The command fails: 500.
WriteFails(r) ==
    /\ At(r, "write")
    /\ End(r)
    /\ UNCHANGED <<account, files, imposed, proc, cached, appToken, mishap>>

-----------------------------------------------------------------------------
(* Processes.                                                              *)

\* startWrapperApi: the accounts as the gateway read them.  Where listening
\* fails the error is logged, and the process runs on without a server.
Start(p) ==
    /\ proc[p] = "off"
    /\ proc' = [proc EXCEPT ![p] = "starting"]
    /\ cached' = [cached EXCEPT ![p] = TokenOf(account)]
    /\ UNCHANGED <<account, files, imposed, req, appToken, mishap>>

\* The server listens, on a port of its own, and the runtime file names it;
\* where that cannot be written it stays as it is, or empty.
Listen(p) ==
    /\ proc[p] = "starting"
    /\ proc' = [proc EXCEPT ![p] = "up"]
    /\ newest' = p
    /\ \/ runtime' = p /\ lost' = "no" /\ left' = FALSE
       \/ /\ runtime' \in {runtime, None} /\ lost' = "unwritten"
          /\ UNCHANGED left
    /\ UNCHANGED <<account, keyFile, registered, writers, imposed, req, cached,
                   appToken, mishap>>

\* The requests that p had not answered are gone with it.
Dropped(p) ==
    req' = [r \in Reqs |-> IF req[r].proc = p /\ req[r].stage \in Waiting
                           THEN Fresh("over") ELSE req[r]]

\* Slip: the runtime file stays.
Exit_Slip(p) ==
    /\ proc[p] \in Running
    /\ proc' = [proc EXCEPT ![p] = "exited"]
    /\ Dropped(p)
    /\ UNCHANGED <<account, files, imposed, cached, appToken, mishap>>

\* SIGINT, SIGTERM or exit: the runtime file is removed, whoever wrote it, and
\* a failure to remove it is ignored.
Exit(p) ==
    /\ proc[p] \in Running
    /\ proc' = [proc EXCEPT ![p] = "exited"]
    /\ \/ /\ runtime' = None /\ left' = FALSE
          /\ lost' = IF newest # p /\ runtime # None THEN "removed" ELSE lost
       \/ left' = (left \/ runtime = p) /\ UNCHANGED <<runtime, lost>>
    /\ Dropped(p)
    /\ UNCHANGED <<account, keyFile, registered, writers, imposed, newest,
                   cached, appToken, mishap>>

\* SIGKILL or a crash: a key file that was being written stays as it is.
Kill(p) ==
    /\ proc[p] \in Running
    /\ proc' = [proc EXCEPT ![p] = "killed"]
    /\ \/ UNCHANGED <<keyFile, writers>>
       \/ \E r \in Reqs :
            /\ At(r, "writeKey") /\ req[r].proc = p
            /\ keyFile' = [keyFile EXCEPT ![req[r].agent] = "torn"]
            /\ writers' = [writers EXCEPT ![req[r].agent] = @ \cup {p}]
    /\ Dropped(p)
    /\ UNCHANGED <<account, registered, runFile, imposed, cached, appToken,
                   mishap>>

Serve(r) ==
    \/ Refresh(r) \/ Bootstrap(r) \/ ReadAccount(r) \/ GetKeypair(r)
    \/ WriteKey(r) \/ Mint(r) \/ WriteAccount(r) \/ Disable(r) \/ WriteFails(r)

Next ==
    \/ \E r \in Reqs : Send(r) \/ Serve(r)
    \/ \E p \in Procs :
        Start(p) \/ Listen(p) \/ Poll(p) \/ Exit(p) \/ Kill(p)

Spec == Init /\ [][Next]_vars

-----------------------------------------------------------------------------
(* Properties.                                                             *)

\* Until it is revoked, an account keeps its agent, its token and every field
\* that a request does not send anew: unless another write landed between the
\* read and the write of the request, or its read failed and looked like an
\* empty configuration (configure, configure-key).
Sends(r) ==
    {f \in {"agent", "token", "conf"} :
        \/ f = "agent" /\ req[r].kind = "configure" /\ req[r].agent # "kept"
        \/ f = "token" /\ req[r].sent # "kept"
        \/ f = "conf"  /\ req[r].conf # "kept"}
KeepsOthers(r) ==
    \A f \in {"agent", "token", "conf"} \ Sends(r) :
        Old(account)[f] # None => Old(account')[f] = Old(account)[f]
WritesKeepOthers ==
    [][\A r \in Reqs : At(r, "write") /\ req[r].kind # "revoke"
            /\ req'[r].stage = "over"
        => KeepsOthers(r) \/ req[r].overtaken \/ req[r].misread]_vars

\* The app can always get in, with the token it holds or, where there is no
\* account, without one; unless the response with its token was lost, a
\* revocation only disabled the account, a configure made an account out of
\* nothing (revoked, or its read failed) or held another token, or a write was
\* based on a stale read.
GetsIn(p) ==
    \/ account = Absent
    \/ Admits(cached[p], appToken)
    \/ Admits(TokenOf(account), appToken)
NeverLockedOut ==
    \A p \in Procs : proc[p] = "up" => GetsIn(p) \/ mishap

\* The key an agent signs with is one that mint-agent-key was given, once the
\* account is bound to it; unless two processes wrote its file at a time, or a
\* configure bound the account to an agent that no configure-key was made for.
SignsRegistered ==
    account # Absent /\ account.agent # None =>
        \/ keyFile[account.agent] \in registered[account.agent]
        \/ Cardinality(writers[account.agent]) > 1
        \/ account.agent \in imposed

\* The app finds the newest process through the runtime file, unless the exit
\* of an older one removed it or it could not be written; and the file names no
\* process that exited, unless it could not be removed then.
RuntimeFileTrue ==
    /\ newest # None /\ proc[newest] = "up" => runtime = newest \/ lost # "no"
    /\ runtime # None /\ proc[runtime] = "exited" => left
=============================================================================
