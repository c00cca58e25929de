----------------------------- MODULE TokenStore -----------------------------
(***************************************************************************)
(* Subscription credentials (auth/mod.rs): the file that holds them, the   *)
(* calls that refresh an expired token and the log-ins (browser, device)   *)
(* that store a new one.  Processes and tasks share the file unlocked.     *)
(***************************************************************************)
EXTENDS Common, Naturals, FiniteSets

CONSTANTS TkCallers, TkProviders,
          TkMaxIssued     \* bound: tokens the server issues to a provider

VARIABLES
    tkFile,      \* provider -> credential, None when it has none
    tkTruncated, \* a write has emptied the file and not filled it yet
    tkServer,    \* the last token issued to each provider; it alone can be spent
    tkExpired,   \* provider -> tokens issued up to this one have expired
    tkCall,      \* caller -> what it is doing
    tkStored     \* history: provider -> the credential of the last upsert that returned,
                 \* None since two writers overlapped or one was cut

tkVars == <<tkFile, tkTruncated, tkServer, tkExpired, tkCall, tkStored>>

TkIdle == [at |-> "idle", for |-> None, cred |-> None, read |-> None]
TkNoFile == [p \in TkProviders |-> None]
TkBegins(c) == tkCall[c].at = "idle"
TkGoes(c, call) == tkCall' = [tkCall EXCEPT ![c] = call]
TkReturns(c) == TkGoes(c, TkIdle)
TkWriting(c) == tkCall[c].at \in {"save", "fill"}

\* load_file: a missing file and an empty one hold no credential.
TkLoad == IF tkTruncated THEN TkNoFile ELSE tkFile
\* is_token_valid: the access token is not expired, nor will be soon.
TkValid(p, cred) == cred.token > tkExpired[p]

\* ensure_access_token: missing, valid, or expired with nothing to refresh it.
TkEnsure(c, p) ==
    /\ TkBegins(c)
    /\ LET cred == TkLoad[p] IN
       IF cred = None \/ TkValid(p, cred) \/ ~cred.refresh THEN TkReturns(c)
       ELSE TkGoes(c, [TkIdle EXCEPT !.at = "refresh", !.for = p, !.cred = cred])
    /\ UNCHANGED <<tkFile, tkTruncated, tkServer, tkExpired, tkStored>>

\* The server issues a token; the answer may bring no refresh token, and none is kept.
TkIssues(c, p) ==
    /\ tkServer[p] < TkMaxIssued
    /\ tkServer' = [tkServer EXCEPT ![p] = @ + 1]
    /\ \E r \in BOOLEAN :
          TkGoes(c, [TkIdle EXCEPT !.at = "load", !.for = p,
                                   !.cred = [token |-> tkServer[p] + 1, refresh |-> r]])

\* refresh_token: a spent token is refused; an answer that does not arrive is an error.
TkRefresh(c) ==
    /\ tkCall[c].at = "refresh"
    /\ \/ tkCall[c].cred.token = tkServer[tkCall[c].for] /\ TkIssues(c, tkCall[c].for)
       \/ tkCall[c].cred.token # tkServer[tkCall[c].for] /\ TkReturns(c) /\ UNCHANGED tkServer
       \/ /\ tkServer[tkCall[c].for] \in {tkCall[c].cred.token} \cap 0..(TkMaxIssued - 1)
          /\ tkServer' = [tkServer EXCEPT ![tkCall[c].for] = @ + 1] /\ TkReturns(c)
    /\ UNCHANGED <<tkFile, tkTruncated, tkExpired, tkStored>>

\* build_browser_authorization_request, await_browser_callback_code: one listener on
\* the port; it accepts one connection, which may answer an earlier log-in.
TkBrowser(c, p) ==
    /\ TkBegins(c)
    /\ \A d \in TkCallers : tkCall[d].at # "callback"
    /\ TkGoes(c, [TkIdle EXCEPT !.at = "callback", !.for = p])
    /\ UNCHANGED <<tkFile, tkTruncated, tkServer, tkExpired, tkStored>>
TkCallback(c, ownState) ==
    /\ tkCall[c].at = "callback"
    /\ IF ownState THEN TkIssues(c, tkCall[c].for)
                                 ELSE TkReturns(c) /\ UNCHANGED tkServer
    /\ UNCHANGED <<tkFile, tkTruncated, tkExpired, tkStored>>
\* The timeout, an error of the callback or of exchange_authorization_code.
TkLoginFails(c) ==
    /\ tkCall[c].at = "callback" /\ TkReturns(c)
    /\ UNCHANGED <<tkFile, tkTruncated, tkServer, tkExpired, tkStored>>

\* poll_device_authorization: polls until the token comes, or gives up.
TkDevice(c, p) ==
    /\ TkBegins(c)
    /\ TkGoes(c, [TkIdle EXCEPT !.at = "poll", !.for = p])
    /\ UNCHANGED <<tkFile, tkTruncated, tkServer, tkExpired, tkStored>>
TkPoll(c) ==
    /\ tkCall[c].at = "poll"
    /\ TkIssues(c, tkCall[c].for) \/ (TkReturns(c) /\ UNCHANGED tkServer)
    /\ UNCHANGED <<tkFile, tkTruncated, tkExpired, tkStored>>

TkRemove(c, p) ==
    /\ TkBegins(c)
    /\ TkGoes(c, [TkIdle EXCEPT !.at = "load", !.for = p])
    /\ UNCHANGED <<tkFile, tkTruncated, tkServer, tkExpired, tkStored>>

\* upsert and remove: load, change, save; a write empties the file before it fills it.
TkUpsertLoads(c) ==
    /\ tkCall[c].at = "load"
    /\ TkGoes(c, [tkCall[c] EXCEPT !.at = "save", !.read = TkLoad])
    /\ tkStored' = IF \E d \in TkCallers \ {c} : TkWriting(d) THEN None ELSE tkStored
    /\ UNCHANGED <<tkFile, tkTruncated, tkServer, tkExpired>>
TkUpsertEmpties(c) ==
    /\ tkCall[c].at = "save"
    /\ tkTruncated' = TRUE
    /\ TkGoes(c, [tkCall[c] EXCEPT !.at = "fill"])
    /\ UNCHANGED <<tkFile, tkServer, tkExpired, tkStored>>
TkChanged(file, p, cred) == [file EXCEPT ![p] = cred]
TkRead_Nothing(c) == TkNoFile
TkRead(c) == tkCall[c].read
TkUpsertFills(c) ==
    /\ tkCall[c].at = "fill"
    /\ tkFile' = TkChanged(TkRead(c), tkCall[c].for, tkCall[c].cred)
    /\ tkTruncated' = FALSE
    /\ tkStored' = IF tkStored = None THEN None
                   ELSE TkChanged(tkStored, tkCall[c].for, tkCall[c].cred)
    /\ TkReturns(c)
    /\ UNCHANGED <<tkServer, tkExpired>>

\* The process of a caller ends, or the task is dropped; time passes.
TkDies(c) ==
    /\ tkCall[c].at # "idle" /\ TkReturns(c)
    /\ tkStored' = IF tkCall[c].at = "fill" THEN None ELSE tkStored
    /\ UNCHANGED <<tkFile, tkTruncated, tkServer, tkExpired>>
TkExpires(p) ==
    /\ tkExpired' = [tkExpired EXCEPT ![p] = tkServer[p]]
    /\ UNCHANGED <<tkFile, tkTruncated, tkServer, tkCall, tkStored>>

TkInit ==
    /\ tkFile = TkNoFile /\ tkStored = TkNoFile
    /\ tkTruncated = FALSE
    /\ tkServer = [p \in TkProviders |-> 0] /\ tkExpired = [p \in TkProviders |-> 0]
    /\ tkCall = [c \in TkCallers |-> TkIdle]

TkNext ==
    \/ \E c \in TkCallers, p \in TkProviders :
        TkEnsure(c, p) \/ TkBrowser(c, p) \/ TkDevice(c, p) \/ TkRemove(c, p)
    \/ \E c \in TkCallers :
        \/ TkRefresh(c) \/ TkLoginFails(c) \/ TkPoll(c) \/ TkDies(c)
        \/ TkUpsertLoads(c) \/ TkUpsertEmpties(c) \/ TkUpsertFills(c)
        \/ \E ownState \in BOOLEAN : TkCallback(c, ownState)
    \/ \E p \in TkProviders : TkExpires(p)

\* As long as no two writers overlap and none is cut while it writes, the file holds
\* for every provider what the last upsert or remove that returned left there: the
\* refresh of one provider's token never costs another its credential, although each
\* rewrites the whole file.
TkNoneLost == tkStored = None \/ tkTruncated \/ tkFile = tkStored

TkSpec == TkInit /\ [][TkNext]_tkVars
=============================================================================
