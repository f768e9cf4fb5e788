-------------------------- MODULE AccountLifecycle --------------------------
(***************************************************************************)
(* The official account connection: OAuth (oauth.rs), refresh, revocation  *)
(* and the startup scrub (account.rs), the capability matrix they replace  *)
(* (capability_reconciliation.rs) and the call budget of each operation    *)
(* (provider_budget.rs).                                                   *)
(*                                                                         *)
(* Calls of the service overlap: each is a sequence of statements and      *)
(* transactions with provider requests between them.  A transaction that   *)
(* first locks the account row is one step.  mark_reauthorization_required *)
(* locks nothing: its first statement deletes the credential it sees, and  *)
(* the rest of the transaction waits for the account row.                  *)
(*                                                                         *)
(* A token is a number: the provider issues them in order, and 0 is none.  *)
(* A row of credentials is named by the token it was inserted with.        *)
(***************************************************************************)
EXTENDS Integers, FiniteSets

CONSTANTS
    Owners,
    Identities,     \* provider accounts; accounts is unique by provider identity
    Flows,          \* rows oauth_flows can hold
    Calls,          \* operations that may be under way
    Reports,        \* what the provider may report of an identity
    CallBudget,     \* provider requests of one operation
    Retries,        \* discovery_retries
    MaxTokens,      \* bound: tokens the provider issues
    MaxFaults,      \* bound: failed requests, restarts, changed permissions
    None

VARIABLES
    account,    \* accounts, by provider identity
    credential, \* credentials, at most one row per account
    matrix,     \* account_capabilities, and the token that was used to observe them
    flow,       \* oauth_flows
    granted,    \* what the provider would report of an identity (external)
    issued,     \* tokens issued so far (external)
    call,       \* the operations under way: their provider budget and what they carry
    serving,    \* the startup sweep is done and the listeners are open
    faults

vars == <<account, credential, matrix, flow, granted, issued, call, serving, faults>>

-----------------------------------------------------------------------------
(* The capability matrix *)

Capabilities == {"account_identity_read", "own_media_read", "content_publish",
                 "comment_management", "message_management", "native_saved_read"}
Reads == {"account_identity_read", "own_media_read"}

\* Of the four permissions only the basic one and the one each write needs
\* are told apart; `write' stands for the latter.
Statuses == {"granted", "declined", "expired", "absent", "unknown"}
AccountTypes == {"business", "personal"}
is_professional(t) == t = "business"

row(s, why) == [state |-> s, reason |-> why]
permission_reason(status, write_permission) ==
    IF status = "absent" /\ write_permission THEN "missing_permission" ELSE status

\* external_write_consent is false in both callers.
reconcile_one(seen, consent, c) ==
    CASE c = "native_saved_read" -> row("not_supported", "provider_not_supported")
      [] c # "native_saved_read" /\ ~is_professional(seen.type) ->
           row("unavailable", "account_type_unsupported")
      [] c # "native_saved_read" /\ is_professional(seen.type) /\ seen.basic # "granted" ->
           row("unavailable", permission_reason(seen.basic, FALSE))
      [] c \in Reads /\ is_professional(seen.type) /\ seen.basic = "granted" ->
           row("available", "granted")
      [] OTHER ->
           IF seen.write # "granted" THEN row("unavailable", permission_reason(seen.write, TRUE))
           ELSE IF ~consent THEN row("unavailable", "write_consent_required")
           ELSE row("available", "granted")

reconcile(seen, consent) == [c \in Capabilities |-> reconcile_one(seen, consent, c)]
all_unavailable(why) == [c \in Capabilities |-> row("unavailable", why)]

-----------------------------------------------------------------------------
(* Rows *)

Observations == [type: AccountTypes, basic: Statuses, write: Statuses]
Unseen == [type |-> "personal", basic |-> "unknown", write |-> "unknown"]

NoAccount == [owner |-> None, status |-> "none"]
ConnectionStatuses == {"connected", "reauthorization_required", "revoking", "revoked"}
NoCredential == [row |-> 0, token |-> 0]
NoMatrix == [rows |-> all_unavailable("none"), observed |-> 0]

NoFlow == [owner |-> None, state |-> "none"]

Idle == [step |-> "idle", owner |-> None, identity |-> None, flow |-> None, token |-> 0,
         seen |-> Unseen, ordinal |-> 1, retries |-> 0, saw |-> 0]

\* An account may be found revoking, left by a process that stopped during a
\* revocation with a provider request.
Init ==
    /\ account \in [Identities -> {NoAccount} \cup
                                  {[owner |-> o, status |-> "revoking"] : o \in Owners}]
    /\ credential = [i \in Identities |-> IF account[i] = NoAccount THEN NoCredential
                                          ELSE [row |-> 1, token |-> 1]]
    /\ matrix = [i \in Identities |-> NoMatrix]
    /\ flow = [f \in Flows |-> NoFlow]
    /\ granted \in [Identities -> Reports]
    /\ issued = 1
    /\ call = [k \in Calls |-> Idle]
    /\ serving = FALSE
    /\ faults = 0

goto(k, s) == call' = [call EXCEPT ![k].step = s]
return(k) == call' = [call EXCEPT ![k] = Idle]

-----------------------------------------------------------------------------
(* Connecting *)

begin_official_oauth(o) ==
    /\ serving
    /\ \E f \in Flows :
         /\ flow[f].state = "none"
         /\ flow' = [flow EXCEPT ![f] = [owner |-> o, state |-> "open"]]
    /\ UNCHANGED <<account, credential, matrix, granted, issued, call, serving, faults>>

flow_expires(f) ==
    /\ flow[f].state = "open"
    /\ flow' = [flow EXCEPT ![f].state = "expired"]
    /\ UNCHANGED <<account, credential, matrix, granted, issued, call, serving, faults>>

\* The relay hands a callback over, possibly more than once; the caller is
\* whoever the request names.
complete_official_oauth(k, o, f, i) ==
    /\ serving /\ call[k].step = "idle" /\ flow[f].state # "none"
    /\ call' = [call EXCEPT ![k] = [Idle EXCEPT !.step = "consume", !.owner = o, !.flow = f,
                                                !.identity = i]]
    /\ UNCHANGED <<account, credential, matrix, flow, granted, issued, serving, faults>>

\* Variant: the flow is looked up and left open.
LeavesFlowOpen(k) ==
    /\ call[k].step = "consume"
    /\ IF flow[call[k].flow] = [owner |-> call[k].owner, state |-> "open"]
       THEN goto(k, "exchange") ELSE return(k)
    /\ UNCHANGED <<account, credential, matrix, flow, granted, issued, serving, faults>>

consume_flow(k) ==
    LET f == call[k].flow
    IN  /\ call[k].step = "consume"
        /\ IF flow[f] = [owner |-> call[k].owner, state |-> "open"]
           THEN /\ flow' = [flow EXCEPT ![f].state = "consumed"]
                /\ goto(k, "exchange")
           ELSE return(k) /\ UNCHANGED flow
        /\ UNCHANGED <<account, credential, matrix, granted, issued, serving, faults>>

\* Every request reserves the next ordinal first.
reserve(k) == call[k].ordinal <= CallBudget
exhausted(k) ==
    /\ call[k].step \in {"exchange", "refresh", "discover", "permissions"} /\ ~reserve(k)
    /\ return(k)
    /\ UNCHANGED <<account, credential, matrix, flow, granted, issued, serving, faults>>

exchange_code(k) ==
    /\ call[k].step = "exchange" /\ reserve(k) /\ issued < MaxTokens
    /\ issued' = issued + 1
    /\ call' = [call EXCEPT ![k] = [@ EXCEPT !.step = "discover", !.token = issued + 1,
                                             !.ordinal = @ + 1, !.retries = Retries]]
    /\ UNCHANGED <<account, credential, matrix, flow, granted, serving, faults>>

-----------------------------------------------------------------------------
(* Discovery, by connecting and by refreshing calls *)

connecting(k) == call[k].flow # None

discover_account(k) ==
    /\ call[k].step = "discover" /\ reserve(k)
    /\ call' = [call EXCEPT ![k] = [@ EXCEPT
                   !.step = "permissions", !.ordinal = @ + 1, !.retries = Retries,
                   !.seen = [@ EXCEPT !.type = granted[call[k].identity].type]]]
    /\ UNCHANGED <<account, credential, matrix, flow, granted, issued, serving, faults>>

discover_permissions(k) ==
    /\ call[k].step = "permissions" /\ reserve(k)
    /\ call' = [call EXCEPT ![k] = [@ EXCEPT
                   !.step = IF connecting(k) THEN "lookup" ELSE "store", !.ordinal = @ + 1,
                   !.seen = [@ EXCEPT !.basic = granted[call[k].identity].basic,
                                      !.write = granted[call[k].identity].write]]]
    /\ UNCHANGED <<account, credential, matrix, flow, granted, issued, serving, faults>>

\* A transient failure is retried, by the discovery requests only; a refused
\* authentication changes the account, in a refresh only.
provider_fails(k, class) ==
    /\ call[k].step \in {"exchange", "refresh", "discover", "permissions"} /\ reserve(k)
    /\ faults < MaxFaults /\ faults' = faults + 1
    /\ CASE class = "authentication" /\ ~connecting(k) -> goto(k, "reauthorize")
         [] class = "transient" /\ call[k].step \in {"discover", "permissions"}
                                /\ call[k].retries > 0 ->
              call' = [call EXCEPT ![k] = [@ EXCEPT !.ordinal = @ + 1, !.retries = @ - 1]]
         [] OTHER -> return(k)
    /\ UNCHANGED <<account, credential, matrix, flow, granted, issued, serving>>

\* The token belongs to another account than the one discovered.
identity_differs(k) ==
    /\ call[k].step \in {"lookup", "store"}
    /\ faults < MaxFaults /\ faults' = faults + 1
    /\ return(k)
    /\ UNCHANGED <<account, credential, matrix, flow, granted, issued, serving>>

-----------------------------------------------------------------------------
(* Storing a connection *)

lookup_existing(k) ==
    LET a == account[call[k].identity]
    IN  /\ call[k].step = "lookup"
        /\ IF a \in {NoAccount, [a EXCEPT !.owner = call[k].owner]} THEN goto(k, "connect")
           ELSE return(k)
        /\ UNCHANGED <<account, credential, matrix, flow, granted, issued, serving, faults>>

reconcile_account_capabilities(k, i) ==
    matrix' = [matrix EXCEPT ![i] = [rows |-> reconcile(call[k].seen, FALSE),
                                     observed |-> call[k].token]]

\* Variant: the upsert trusts the owner that was looked up before.
TrustsLookup(k, i) == TRUE

\* The upsert updates only the caller's own account; anything else rolls the
\* whole transaction back.
owns(k, i) == account[i] = NoAccount \/ account[i].owner = call[k].owner

store_connection(k) ==
    LET i == call[k].identity
    IN  /\ call[k].step = "connect"
        /\ IF owns(k, i)
           THEN /\ account' = [account EXCEPT ![i] = [owner |-> call[k].owner,
                                                      status |-> "connected"]]
                /\ credential' = [credential EXCEPT ![i] = [row |-> call[k].token,
                                                            token |-> call[k].token]]
                /\ reconcile_account_capabilities(k, i)
           ELSE UNCHANGED <<account, credential, matrix>>
        /\ return(k)
        /\ UNCHANGED <<flow, granted, issued, serving, faults>>

-----------------------------------------------------------------------------
(* Refreshing *)

refresh_official_account(k, o, i) ==
    /\ serving /\ call[k].step = "idle"
    /\ credential[i] # NoCredential /\ account[i].owner = o /\ account[i].status # "revoked"
    /\ call' = [call EXCEPT ![k] = [Idle EXCEPT !.step = "refresh", !.owner = o, !.identity = i,
                                                !.token = credential[i].token]]
    /\ UNCHANGED <<account, credential, matrix, flow, granted, issued, serving, faults>>

refresh_token(k) ==
    /\ call[k].step = "refresh" /\ reserve(k) /\ issued < MaxTokens
    /\ issued' = issued + 1
    /\ call' = [call EXCEPT ![k] = [@ EXCEPT !.step = "discover", !.token = issued + 1,
                                             !.ordinal = @ + 1, !.retries = Retries]]
    /\ UNCHANGED <<account, credential, matrix, flow, granted, serving, faults>>

\* Variant: the refreshed credential is stored whatever the status is now.
StoresAnyStatus(k) ==
    LET i == call[k].identity
    IN  /\ call[k].step = "store"
        /\ credential' = [credential EXCEPT ![i] = [row |-> call[k].token, token |-> call[k].token]]
        /\ reconcile_account_capabilities(k, i)
        /\ return(k)
        /\ UNCHANGED <<account, flow, granted, issued, serving, faults>>

\* credentials is updated, not inserted: a row that was deleted stays deleted.
store_refresh(k) ==
    LET i == call[k].identity
    IN  /\ call[k].step = "store"
        /\ IF account[i] = [owner |-> call[k].owner, status |-> "connected"]
           THEN /\ credential' = [credential EXCEPT ![i] =
                     IF @ = NoCredential THEN @ ELSE [@ EXCEPT !.token = call[k].token]]
                /\ reconcile_account_capabilities(k, i)
           ELSE UNCHANGED <<credential, matrix>>
        /\ return(k)
        /\ UNCHANGED <<account, flow, granted, issued, serving, faults>>

\* delete from credentials: the rows of the statement's snapshot.
see_credential(k) ==
    /\ call[k].step = "reauthorize"
    /\ call' = [call EXCEPT ![k] = [@ EXCEPT !.step = "unauthorized",
                                             !.saw = credential[call[k].identity].row]]
    /\ UNCHANGED <<account, credential, matrix, flow, granted, issued, serving, faults>>

\* Variant: the capabilities stay as they were observed.
KeepsMatrix(k) ==
    LET i == call[k].identity
    IN  /\ call[k].step = "unauthorized"
        /\ account' = [account EXCEPT ![i].status = "reauthorization_required"]
        /\ credential' = [credential EXCEPT ![i] = NoCredential]
        /\ return(k)
        /\ UNCHANGED <<matrix, flow, granted, issued, serving, faults>>

\* A row inserted since then stays; an updated one goes.
mark_reauthorization_required(k) ==
    LET i == call[k].identity
    IN  /\ call[k].step = "unauthorized"
        /\ IF account[i].owner = call[k].owner
           THEN /\ account' = [account EXCEPT ![i].status = "reauthorization_required"]
                /\ credential' = [credential EXCEPT ![i] =
                     IF @.row = call[k].saw THEN NoCredential ELSE @]
                /\ matrix' = [matrix EXCEPT ![i] =
                     [rows |-> all_unavailable("reauthorization_required"), observed |-> 0]]
           ELSE UNCHANGED <<account, credential, matrix>>
        /\ return(k)
        /\ UNCHANGED <<flow, granted, issued, serving, faults>>

-----------------------------------------------------------------------------
(* Revoking *)

scrubbed(i) ==
    /\ account' = [account EXCEPT ![i].status = "revoked"]
    /\ credential' = [credential EXCEPT ![i] = NoCredential]
    /\ matrix' = [matrix EXCEPT ![i] = [rows |-> all_unavailable("revoked"), observed |-> 0]]
    /\ flow' = [f \in Flows |-> IF flow[f].owner = account[i].owner
                               THEN [flow[f] EXCEPT !.state = "deleted"] ELSE flow[f]]

scrub_revoked_account(o, i) ==
    /\ serving /\ account[i] # NoAccount /\ account[i].owner = o /\ account[i].status # "revoked"
    /\ scrubbed(i)
    /\ UNCHANGED <<granted, issued, call, serving, faults>>

\* At startup, before the listeners open, one transaction per account.
scrub_stranded_revocations ==
    \E i \in Identities :
        /\ ~serving /\ account[i].status = "revoking"
        /\ scrubbed(i)
        /\ UNCHANGED <<granted, issued, call, serving, faults>>

open_listeners ==
    /\ ~serving /\ \A i \in Identities : account[i].status # "revoking"
    /\ serving' = TRUE
    /\ UNCHANGED <<account, credential, matrix, flow, granted, issued, call, faults>>

-----------------------------------------------------------------------------

provider_changes(i) ==
    /\ \E seen \in Reports \ {granted[i]} : granted' = [granted EXCEPT ![i] = seen]
    /\ faults < MaxFaults /\ faults' = faults + 1
    /\ UNCHANGED <<account, credential, matrix, flow, issued, call, serving>>

restart ==
    /\ serving /\ faults < MaxFaults
    /\ faults' = faults + 1
    /\ serving' = FALSE
    /\ call' = [k \in Calls |-> Idle]
    /\ UNCHANGED <<account, credential, matrix, flow, granted, issued>>

continue(k) ==
    \/ consume_flow(k) \/ exhausted(k) \/ exchange_code(k)
    \/ discover_account(k) \/ discover_permissions(k) \/ lookup_existing(k) \/ store_connection(k)
    \/ refresh_token(k) \/ store_refresh(k)
    \/ see_credential(k) \/ mark_reauthorization_required(k)

Next ==
    \/ \E k \in Calls : continue(k) \/ identity_differs(k)
    \/ \E k \in Calls, class \in {"transient", "authentication", "refused"} :
         provider_fails(k, class)
    \/ \E k \in Calls, o \in Owners, i \in Identities :
         \/ \E f \in Flows : complete_official_oauth(k, o, f, i)
         \/ refresh_official_account(k, o, i)
    \/ \E o \in Owners : begin_official_oauth(o)
    \/ \E o \in Owners, i \in Identities : scrub_revoked_account(o, i)
    \/ \E f \in Flows : flow_expires(f)
    \/ scrub_stranded_revocations \/ open_listeners \/ restart
    \/ \E i \in Identities : provider_changes(i)

Spec == Init /\ [][Next]_vars

-----------------------------------------------------------------------------
(* Properties *)

\* The rows have the columns of the schema, a call never reserves beyond its
\* budget, and no account is revoking once the service listens.
TypeOK ==
    /\ account \in [Identities -> {NoAccount} \cup [owner: Owners, status: ConnectionStatuses]]
    /\ credential \in [Identities -> [row: 0..issued, token: 0..issued]]
    /\ \A i \in Identities : matrix[i].observed \in 0..issued
    /\ flow \in [Flows -> {NoFlow} \cup
                        [owner: Owners, state: {"open", "expired", "consumed", "deleted"}]]
    /\ granted \in [Identities -> Observations]
    /\ \A k \in Calls : /\ call[k].ordinal \in 1..(CallBudget + 1)
                        /\ call[k].retries \in 0..Retries
                        /\ call[k].seen \in Observations
    /\ serving => \A i \in Identities : account[i].status # "revoking"

available(i, c) == matrix[i].rows[c].state = "available"

\* After scrub_revoked_account no token is recoverable and no capability is
\* offered, whatever a refresh, a connection or a failed authentication that
\* was under way writes afterwards.
RevokedIsScrubbed ==
    \A i \in Identities : account[i].status = "revoked" =>
        /\ credential[i] = NoCredential
        /\ \A c \in Capabilities : ~available(i, c)

\* The matrix promises only what the stored credential was seen to allow: an
\* available capability belongs to a connected account, was observed with
\* the token the credential holds, and is never one that writes, because no
\* caller of reconcile has external write consent.
CapabilityCurrent ==
    \A i \in Identities, c \in Capabilities : available(i, c) =>
        /\ account[i].status = "connected"
        /\ credential[i].token = matrix[i].observed /\ matrix[i].observed # 0
        /\ c \in Reads

\* consume_flow is the only gate before the code exchange: of the calls that
\* hand over the same callback at most one gets past it, and it is one of
\* the owner the flow was opened for.
FlowExchangedOnce ==
    \A k \in Calls : connecting(k) /\ call[k].step # "consume" =>
        /\ flow[call[k].flow].owner = call[k].owner
        /\ \A l \in Calls \ {k} : call[l].flow = call[k].flow => call[l].step = "consume"

\* Two owners that connect the same provider account race between the read
\* of the existing owner and the upsert; the first one keeps it.
OwnerKept ==
    [][\A i \in Identities : account[i] # NoAccount => account'[i].owner = account[i].owner]_vars
=============================================================================
