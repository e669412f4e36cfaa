----------------------- MODULE RepositoryServerContext -----------------------
(***************************************************************************)
(* The request layer of the Repository Explorer: RepositoryServerContext   *)
(* (RepositoryServerContext.js) together with the part of                  *)
(* IdentificationContext (IdentificationContext.js) it reads, the logged-  *)
(* in userId and getRestURL.                                               *)
(*                                                                         *)
(* The provider keeps the selected repository server and the enterprise    *)
(* option as React state and exports three wrappers around fetch:          *)
(* callPOST, repositoryPOST and callGET.  Each one checks its              *)
(* preconditions (a blocking alert and an early return when one fails),    *)
(* builds the URL and the body from the state it sees at the call, and     *)
(* starts a promise chain that ends by invoking the caller's callback.     *)
(* The chain runs later, interleaved with user events and with the other   *)
(* chains, and nothing cancels it: the provider may be unmounted and       *)
(* mounted afresh while it is in flight.                                   *)
(*                                                                         *)
(* Every request ever issued is kept in the sequence reqs, with the stage  *)
(* its promise chain has reached: "fetching" (fetch pending), "responded"  *)
(* (headers received, body being read), "called" (the callback ran with   *)
(* payload) or "rejected" (the chain rejected and the callback never runs). *)
(***************************************************************************)
EXTENDS Naturals, Sequences

CONSTANTS
    Users,       \* user ids a login can set (non-empty strings)
    Servers,     \* repository server names a selector can set
    Platforms,   \* platform names a selector can set
    ViewServer,  \* serverName parsed from the browser path at app mount
    Uris,        \* tails of the URI the callers append
    BodyParms,   \* operation-specific body parameters (functions on keys)
    Statuses,    \* HTTP status codes the platform can answer with
    MaxReq,      \* bound on the number of requests issued in a behaviour
    MaxMounts    \* bound on the number of times the provider is mounted

(* The empty string the code uses for "no user" and "no server selected". *)
NoName == ""

(* The keys of the base body that buildBaseBody and callPOST prime. *)
BaseKeys == {"serverName", "platformName", "enterpriseOption"}

ASSUME ConstantsAssumption ==
    /\ NoName \notin Users \cup Servers \cup Platforms
    /\ Statuses \subseteq 100..599
    /\ MaxReq \in Nat
    /\ MaxMounts \in Nat \ {0}
    \* callers pass only operation-specific fields (searchText, typeName..):
    \* none of them collides with a key of the base body
    /\ \A p \in BodyParms : DOMAIN p \cap BaseKeys = {}

(* response.ok: the status is in the 2xx range. *)
IsOK(status) == status \in 200..299

(* What a response body holds: JSON text, other text (an HTML error page), *)
(* or a stream that fails while it is read.                                *)
BodyKinds == {"json", "text", "broken"}

Responses == [status : Statuses, body : BodyKinds]

NoResp == [status |-> 0, body |-> "none"]

(* The message callGET composes for a non-OK answer:                       *)
(* "error detected: statusText "+statusText+" bodyText "+text.             *)
ErrorMessage(resp) == <<"error detected", resp.status, resp.body>>

(* The message in the platform's own JSON body. *)
ServerMessage == <<"server">>

Payloads == [relatedHTTPCode : Statuses,
             exceptionErrorMessage : {ServerMessage} \cup
                                     {ErrorMessage(r) : r \in Responses}]

NoPayload == [relatedHTTPCode |-> 0, exceptionErrorMessage |-> << >>]

Ops == {"callPOST", "repositoryPOST", "callGET"}

Stages == {"fetching", "responded", "called", "rejected"}

Alerts == {"none", "noUser", "noServerOrPlatform", "noRepositoryServer"}

VARIABLES
    userId,            \* IdentificationContext state: "" until a login
    repositoryServer,  \* [serverName, platformName] selected in the context
    enterpriseOption,  \* the enterprise option checkbox
    mounted,           \* the provider (and its subtree) is mounted
    mounts,            \* how many times the provider has been mounted
    reqs,              \* every request issued, with its promise-chain stage
    alert              \* the blocking alert on screen, or "none"

vars == <<userId, repositoryServer, enterpriseOption, mounted, mounts, reqs, alert>>

-----------------------------------------------------------------------------
(* getRestURL(serviceName) + "/" + uri: the protocol, host and port are    *)
(* fixed for a page and left out; the parts that vary are kept apart.      *)
RestURL(serviceName, uri) ==
    [server |-> ViewServer, service |-> serviceName, user |-> userId, uri |-> uri]

(* Object.assign(base, bodyParms): the fields of both, those of bodyParms  *)
(* winning where both have one.                                            *)
Assign(base, parms) ==
    [k \in DOMAIN parms \cup DOMAIN base |->
        IF k \in DOMAIN parms THEN parms[k] ELSE base[k]]

(* buildBaseBody(): the base body from the selected server and the option. *)
BuildBaseBody ==
    [serverName |-> repositoryServer.serverName,
     platformName |-> repositoryServer.platformName,
     enterpriseOption |-> enterpriseOption]

(* The request a wrapper hands to fetch, owned by the current mount. *)
NewReq(op, url, body) ==
    [op |-> op, mount |-> mounts, url |-> url, body |-> body,
     stage |-> "fetching", resp |-> NoResp, payload |-> NoPayload,
     live |-> FALSE]

(* alert() blocks the page: no handler and no continuation runs until the  *)
(* user closes it.                                                         *)
Idle == alert = "none"

Issue(r) ==
    /\ Len(reqs) < MaxReq
    /\ reqs' = Append(reqs, r)
    /\ UNCHANGED alert

-----------------------------------------------------------------------------
Init ==
    /\ userId = NoName
    /\ repositoryServer = [serverName |-> NoName, platformName |-> NoName]
    /\ enterpriseOption = FALSE
    /\ mounted = TRUE
    /\ mounts = 1
    /\ reqs = << >>
    /\ alert = "none"

(* setUserId, called by the login page. *)
SetUserId(u) ==
    /\ Idle
    /\ userId' = u
    /\ UNCHANGED <<repositoryServer, enterpriseOption, mounted, mounts, reqs, alert>>

(* Mutant: the selector's server and platform stored the wrong way round. *)
SetRepositoryServerSwapped(s, p) ==
    /\ Idle /\ mounted
    /\ repositoryServer' = [serverName |-> p, platformName |-> s]
    /\ UNCHANGED <<userId, enterpriseOption, mounted, mounts, reqs, alert>>

(* setRepositoryServer, called by the server selector. *)
SetRepositoryServer(s, p) ==
    /\ Idle /\ mounted
    /\ repositoryServer' = [serverName |-> s, platformName |-> p]
    /\ UNCHANGED <<userId, enterpriseOption, mounted, mounts, reqs, alert>>

(* updateEnterpriseOption: setEnterpriseOption(!enterpriseOption). *)
UpdateEnterpriseOption ==
    /\ Idle /\ mounted
    /\ enterpriseOption' = ~enterpriseOption
    /\ UNCHANGED <<userId, repositoryServer, mounted, mounts, reqs, alert>>

(* callPOST(serverName, platformName, uri, bodyParms, callback). *)
CallPOST(s, p, uri, parms) ==
    /\ Idle /\ mounted
    /\ \/ /\ userId = NoName
          /\ alert' = "noUser" /\ UNCHANGED reqs
       \/ /\ userId # NoName
          /\ s = NoName \/ p = NoName
          /\ alert' = "noServerOrPlatform" /\ UNCHANGED reqs
       \/ /\ userId # NoName /\ s # NoName /\ p # NoName
          /\ Issue(NewReq("callPOST", RestURL("rex", uri),
                   Assign([serverName |-> s, platformName |-> p,
                           enterpriseOption |-> enterpriseOption], parms)))
    /\ UNCHANGED <<userId, repositoryServer, enterpriseOption, mounted, mounts>>

(* repositoryPOST(uri, bodyParms, callback). *)
RepositoryPOST(uri, parms) ==
    /\ Idle /\ mounted
    /\ \/ /\ userId = NoName
          /\ alert' = "noUser" /\ UNCHANGED reqs
       \/ /\ userId # NoName
          /\ repositoryServer.serverName = NoName \/ repositoryServer.platformName = NoName
          /\ alert' = "noRepositoryServer" /\ UNCHANGED reqs
       \/ /\ userId # NoName
          /\ repositoryServer.serverName # NoName
          /\ repositoryServer.platformName # NoName
          /\ Issue(NewReq("repositoryPOST", RestURL("rex", uri),
                          Assign(BuildBaseBody, parms)))
    /\ UNCHANGED <<userId, repositoryServer, enterpriseOption, mounted, mounts>>

(* Mutant: callGET without its check for a logged-in user. *)
CallGETNoUserCheck(uri) ==
    /\ Idle /\ mounted
    /\ Issue(NewReq("callGET", RestURL("rex", uri), << >>))
    /\ UNCHANGED <<userId, repositoryServer, enterpriseOption, mounted, mounts>>

(* callGET(uri, callback): no body. *)
CallGET(uri) ==
    /\ Idle /\ mounted
    /\ \/ /\ userId = NoName
          /\ alert' = "noUser" /\ UNCHANGED reqs
       \/ /\ userId # NoName
          /\ Issue(NewReq("callGET", RestURL("rex", uri), << >>))
    /\ UNCHANGED <<userId, repositoryServer, enterpriseOption, mounted, mounts>>

(* The user closes the alert and the page runs again. *)
DismissAlert ==
    /\ ~Idle
    /\ alert' = "none"
    /\ UNCHANGED <<userId, repositoryServer, enterpriseOption, mounted, mounts, reqs>>

(* Navigating away unmounts the provider; its in-flight fetches go on. *)
Unmount ==
    /\ Idle /\ mounted
    /\ mounted' = FALSE
    /\ UNCHANGED <<userId, repositoryServer, enterpriseOption, mounts, reqs, alert>>

(* Navigating back mounts a fresh provider: useState starts over. *)
Mount ==
    /\ Idle /\ ~mounted /\ mounts < MaxMounts
    /\ mounted' = TRUE
    /\ mounts' = mounts + 1
    /\ repositoryServer' = [serverName |-> NoName, platformName |-> NoName]
    /\ enterpriseOption' = FALSE
    /\ UNCHANGED <<userId, reqs, alert>>

-----------------------------------------------------------------------------
(* The network: fetch resolves with the headers of a response ... *)
Respond(i, resp) ==
    /\ Idle
    /\ reqs[i].stage = "fetching"
    /\ reqs' = [reqs EXCEPT ![i].stage = "responded", ![i].resp = resp]
    /\ UNCHANGED <<userId, repositoryServer, enterpriseOption, mounted, mounts, alert>>

(* ... or rejects (no connection): the chain has no catch, so it ends. *)
FetchFails(i) ==
    /\ Idle
    /\ reqs[i].stage = "fetching"
    /\ reqs' = [reqs EXCEPT ![i].stage = "rejected"]
    /\ UNCHANGED <<userId, repositoryServer, enterpriseOption, mounted, mounts, alert>>

(* How the rest of the chain of request r ends once its body is read.      *)
(* POST: res.json() then callback(res).  GET: if response.ok, json() then  *)
(* callback(json); otherwise text(), the message, and callback with        *)
(* {relatedHTTPCode: status, exceptionErrorMessage: message}.  json()      *)
(* rejects unless the body is JSON; text() rejects only on a broken body.  *)
ServerJson(resp) == [relatedHTTPCode |-> resp.status, exceptionErrorMessage |-> ServerMessage]

ErrorJson(resp) == [relatedHTTPCode |-> resp.status, exceptionErrorMessage |-> ErrorMessage(resp)]

(* Mutant: callGET without the response.ok test, ending like a POST. *)
ChainEndNoOkCheck(r) ==
    IF r.resp.body = "json" THEN [stage |-> "called", payload |-> ServerJson(r.resp)]
                            ELSE [stage |-> "rejected", payload |-> NoPayload]

(* Mutant: callGET treating only 5xx answers as failures. *)
ChainEndServerErrorsOnly(r) ==
    IF r.op = "callGET" /\ r.resp.status >= 500
    THEN IF r.resp.body = "broken" THEN [stage |-> "rejected", payload |-> NoPayload]
                                   ELSE [stage |-> "called", payload |-> ErrorJson(r.resp)]
    ELSE IF r.resp.body = "json" THEN [stage |-> "called", payload |-> ServerJson(r.resp)]
                                 ELSE [stage |-> "rejected", payload |-> NoPayload]

ChainEnd(r) ==
    IF r.op = "callGET" /\ ~IsOK(r.resp.status)
    THEN IF r.resp.body = "broken" THEN [stage |-> "rejected", payload |-> NoPayload]
                                   ELSE [stage |-> "called", payload |-> ErrorJson(r.resp)]
    ELSE IF r.resp.body = "json" THEN [stage |-> "called", payload |-> ServerJson(r.resp)]
                                 ELSE [stage |-> "rejected", payload |-> NoPayload]

(* The body is read and the continuations run to the callback; live        *)
(* records whether the component that issued the request is still mounted *)
(* when its callback runs.                                                 *)
ReadBody(i) ==
    /\ Idle
    /\ reqs[i].stage = "responded"
    /\ LET e == ChainEnd(reqs[i]) IN
         reqs' = [reqs EXCEPT ![i].stage = e.stage, ![i].payload = e.payload,
                              ![i].live = (mounted /\ reqs[i].mount = mounts)]
    /\ UNCHANGED <<userId, repositoryServer, enterpriseOption, mounted, mounts, alert>>

-----------------------------------------------------------------------------
Next ==
    \/ \E u \in Users \cup {NoName} : SetUserId(u)
    \/ \E s \in Servers \cup {NoName}, p \in Platforms \cup {NoName} :
          SetRepositoryServer(s, p)
    \/ UpdateEnterpriseOption
    \/ \E s \in Servers \cup {NoName}, p \in Platforms \cup {NoName},
          uri \in Uris, parms \in BodyParms : CallPOST(s, p, uri, parms)
    \/ \E uri \in Uris, parms \in BodyParms : RepositoryPOST(uri, parms)
    \/ \E uri \in Uris : CallGET(uri)
    \/ DismissAlert
    \/ Unmount
    \/ Mount
    \/ \E i \in DOMAIN reqs :
          \/ \E resp \in Responses : Respond(i, resp)
          \/ FetchFails(i)
          \/ ReadBody(i)

(* The user eventually closes an alert, and a body that has started to     *)
(* arrive is eventually read to its end or fails, and its continuations    *)
(* run: the event loop takes the queued network task even if alerts keep  *)
(* blocking the page for a while, hence strong fairness.  The network is   *)
(* not fair: fetch has no timeout, so a request may stay "fetching" for    *)
(* ever.                                                                   *)
Fairness ==
    /\ WF_vars(DismissAlert)
    /\ \A i \in 1..MaxReq : SF_vars(i \in DOMAIN reqs /\ ReadBody(i))

Spec == Init /\ [][Next]_vars

FairSpec == Spec /\ Fairness

-----------------------------------------------------------------------------
(* The sets the type invariant is stated with: the bodies callPOST and    *)
(* repositoryPOST build with Object.assign, and the requests they log.    *)
BaseBodies == [serverName : Servers \cup {NoName},
               platformName : Platforms \cup {NoName},
               enterpriseOption : BOOLEAN]

Bodies == {<< >>} \cup {Assign(b, p) : b \in BaseBodies, p \in BodyParms}

Requests ==
    [op : Ops, mount : 1..MaxMounts,
     url : [server : {ViewServer}, service : {"rex"}, user : Users \cup {NoName}, uri : Uris],
     body : Bodies,
     stage : Stages, resp : Responses \cup {NoResp},
     payload : Payloads \cup {NoPayload}, live : BOOLEAN]

(* Type invariant: the provider state, the login and every logged request *)
(* (URL, body, stage of its promise chain, response, callback payload)    *)
(* stay within their sets whatever the handlers and the network do.      *)
TypeOK ==
    /\ userId \in Users \cup {NoName}
    /\ repositoryServer \in [serverName : Servers \cup {NoName},
                             platformName : Platforms \cup {NoName}]
    /\ enterpriseOption \in BOOLEAN
    /\ mounted \in BOOLEAN
    /\ mounts \in 1..MaxMounts
    /\ reqs \in Seq(Requests)
    /\ Len(reqs) <= MaxReq
    /\ alert \in Alerts

-----------------------------------------------------------------------------
(* Spec 8(2), the guards of callPOST, repositoryPOST and callGET: no       *)
(* request reaches the network without a logged-in user in its URL, and    *)
(* no POST without a server and a platform in its body, whichever of the   *)
(* three wrappers sent it and whatever the user did to the login and the   *)
(* selection before or after.                                              *)
RequestsAuthorised ==
    \A i \in DOMAIN reqs :
        /\ reqs[i].url.user # NoName
        /\ reqs[i].op # "callGET" =>
              /\ reqs[i].body.serverName # NoName
              /\ reqs[i].body.platformName # NoName

(* Spec 8(3), callGET lines 192-204: when the platform answers a GET with  *)
(* a non-OK status and the callback runs, it is given the HTTP status as   *)
(* relatedHTTPCode and the message built from the status and the body.    *)
GetErrorNormalised ==
    \A i \in DOMAIN reqs :
        (/\ reqs[i].op = "callGET" /\ reqs[i].stage = "called"
         /\ ~IsOK(reqs[i].resp.status))
        => reqs[i].payload = ErrorJson(reqs[i].resp)

(* Spec 7, callGET: every GET whose response has a body that can be read  *)
(* (JSON or not, OK or not) eventually has its callback invoked, provided *)
(* the user closes any alert.                                             *)
GetAlwaysCallsBack ==
    \A i \in 1..MaxReq :
        (/\ i \in DOMAIN reqs /\ reqs[i].op = "callGET"
         /\ reqs[i].stage = "responded"
         /\ (IsOK(reqs[i].resp.status) => reqs[i].resp.body = "json")
         /\ reqs[i].resp.body # "broken")
        ~> (i \in DOMAIN reqs /\ reqs[i].stage = "called")

(* Spec 7, applied to callPOST and repositoryPOST: an HTTP-level failure  *)
(* (a non-OK status with a readable body) reaches the caller's callback.  *)
PostAlwaysCallsBack ==
    \A i \in 1..MaxReq :
        (/\ i \in DOMAIN reqs /\ reqs[i].op # "callGET"
         /\ reqs[i].stage = "responded"
         /\ ~IsOK(reqs[i].resp.status) /\ reqs[i].resp.body # "broken")
        ~> (i \in DOMAIN reqs /\ reqs[i].stage = "called")

(* Spec 5: a callback runs only while the component that issued the       *)
(* request is still mounted (React ignores, with a warning, a state update *)
(* on an unmounted component).                                             *)
NoCallbackAfterUnmount ==
    \A i \in DOMAIN reqs : reqs[i].stage = "called" => reqs[i].live

=============================================================================
