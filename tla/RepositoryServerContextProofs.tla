-------------------- MODULE RepositoryServerContextProofs --------------------
(***************************************************************************)
(* Proofs, for every value of the constants, of the type invariant of      *)
(* RepositoryServerContext and of RequestsAuthorised, the guarantee that   *)
(* the three fetch wrappers never send a request without a user (and a     *)
(* POST without a server and a platform), and of GetErrorNormalised.      *)
(***************************************************************************)
EXTENDS RepositoryServerContext, TLAPS

(* TypeOK is not inductive by itself: ReadBody builds the payload from the *)
(* response, so a request being read must hold a real response.           *)
RespondedHaveResponse ==
    \A i \in DOMAIN reqs : reqs[i].stage = "responded" => reqs[i].resp \in Responses

(* TypeOK split into the part about the request log, which the SMT solver *)
(* handles, and the rest, which holds Boolean variables Zenon handles.     *)
CtlOK ==
    /\ userId \in Users \cup {NoName}
    /\ repositoryServer \in [serverName : Servers \cup {NoName},
                             platformName : Platforms \cup {NoName}]
    /\ enterpriseOption \in BOOLEAN
    /\ mounted \in BOOLEAN
    /\ mounts \in 1..MaxMounts
    /\ alert \in Alerts

ReqsOK == reqs \in Seq(Requests) /\ Len(reqs) <= MaxReq

TypeInv == CtlOK /\ ReqsOK /\ RespondedHaveResponse

LEMMA TypeInvTypeOK == TypeInv => TypeOK
BY Zenon DEF TypeInv, CtlOK, ReqsOK, TypeOK

-----------------------------------------------------------------------------
(* Object.assign leaves the three base keys as the base body has them,     *)
(* since the callers' parameters never carry one of them.                  *)
LEMMA AssignKeepsBase ==
    ASSUME NEW b \in BaseBodies, NEW p \in BodyParms
    PROVE  /\ Assign(b, p).serverName = b.serverName
           /\ Assign(b, p).platformName = b.platformName
           /\ Assign(b, p).enterpriseOption = b.enterpriseOption
<1>1. /\ "serverName" \notin DOMAIN p
      /\ "platformName" \notin DOMAIN p
      /\ "enterpriseOption" \notin DOMAIN p
  BY ConstantsAssumption DEF BaseKeys
<1>2. DOMAIN b = BaseKeys
  BY DEF BaseBodies, BaseKeys
<1>3. QED
  BY <1>1, <1>2 DEF Assign, BaseKeys

(* The request a wrapper appends is well typed. *)
LEMMA NewReqType ==
    ASSUME CtlOK, NEW op \in Ops, NEW uri \in Uris, NEW body \in Bodies
    PROVE  NewReq(op, RestURL("rex", uri), body) \in Requests
BY DEF CtlOK, NewReq, RestURL, Requests, Stages

(* Appending a well-typed request within the bound keeps the log typed;    *)
(* the new request is still "fetching".                                    *)
LEMMA IssueType ==
    ASSUME ReqsOK, RespondedHaveResponse, NEW r \in Requests, r.stage = "fetching",
           Issue(r)
    PROVE  ReqsOK' /\ RespondedHaveResponse' /\ alert' = alert
BY ConstantsAssumption DEF ReqsOK, RespondedHaveResponse, Issue

(* Replacing request i by a well-typed request keeps the log typed, and a *)
(* request left "responded" must hold a response.                          *)
LEMMA UpdateType ==
    ASSUME ReqsOK, RespondedHaveResponse, NEW i \in DOMAIN reqs, NEW x \in Requests,
           x.stage = "responded" => x.resp \in Responses,
           reqs' = [reqs EXCEPT ![i] = x]
    PROVE  ReqsOK' /\ RespondedHaveResponse'
BY DEF ReqsOK, RespondedHaveResponse

(* How a chain ends, for a request that holds a response. *)
LEMMA ChainEndType ==
    ASSUME NEW r \in Requests, r.resp \in Responses
    PROVE  /\ ChainEnd(r).stage \in Stages \ {"responded"}
           /\ ChainEnd(r).payload \in Payloads \cup {NoPayload}
<1>1. ServerJson(r.resp) \in Payloads
  BY DEF ServerJson, Payloads, Responses
<1>2. ErrorJson(r.resp) \in Payloads
  BY DEF ErrorJson, Payloads, Responses
<1>3. QED
  BY <1>1, <1>2 DEF ChainEnd, Stages

-----------------------------------------------------------------------------
LEMMA InitTypeInv == Init => TypeInv
<1> SUFFICES ASSUME Init PROVE TypeInv
  OBVIOUS
<1>1. mounts \in 1..MaxMounts /\ ReqsOK
  BY ConstantsAssumption DEF Init, ReqsOK
<1>2. RespondedHaveResponse
  BY DEF Init, RespondedHaveResponse
<1> QED
  BY <1>1, <1>2, Zenon DEF Init, TypeInv, CtlOK, Alerts

(* The steps that leave the request log alone keep CtlOK. *)
LEMMA NextCtlOK == CtlOK /\ [Next]_vars => CtlOK'
<1> SUFFICES ASSUME CtlOK, [Next]_vars PROVE CtlOK'
  OBVIOUS
<1>1. CASE \E u \in Users \cup {NoName} : SetUserId(u)
  BY <1>1, Zenon DEF SetUserId, CtlOK
<1>2. CASE \E s \in Servers \cup {NoName}, p \in Platforms \cup {NoName} :
              SetRepositoryServer(s, p)
  <2>1. PICK s \in Servers \cup {NoName}, p \in Platforms \cup {NoName} :
               SetRepositoryServer(s, p)
    BY <1>2
  <2>2. [serverName |-> s, platformName |-> p]
          \in [serverName : Servers \cup {NoName}, platformName : Platforms \cup {NoName}]
    OBVIOUS
  <2> QED
    BY <2>1, <2>2, Zenon DEF SetRepositoryServer, CtlOK
<1>3. CASE UpdateEnterpriseOption
  BY <1>3, Zenon DEF UpdateEnterpriseOption, CtlOK
<1>4. CASE \E s \in Servers \cup {NoName}, p \in Platforms \cup {NoName},
              uri \in Uris, parms \in BodyParms : CallPOST(s, p, uri, parms)
  BY <1>4, Zenon DEF CallPOST, Issue, CtlOK, Alerts
<1>5. CASE \E uri \in Uris, parms \in BodyParms : RepositoryPOST(uri, parms)
  BY <1>5, Zenon DEF RepositoryPOST, Issue, CtlOK, Alerts
<1>6. CASE \E uri \in Uris : CallGET(uri)
  BY <1>6, Zenon DEF CallGET, Issue, CtlOK, Alerts
<1>7. CASE DismissAlert
  BY <1>7, Zenon DEF DismissAlert, CtlOK, Alerts
<1>8. CASE Unmount
  BY <1>8, Zenon DEF Unmount, CtlOK
<1>9. CASE Mount
  <2>0. mounts \in 1..MaxMounts /\ mounts < MaxMounts /\ mounts' = mounts + 1
    BY <1>9, Zenon DEF Mount, CtlOK
  <2>1. mounts' \in 1..MaxMounts
    BY <2>0, ConstantsAssumption
  <2> QED
    BY <1>9, <2>1, Zenon DEF Mount, CtlOK
<1>10. CASE \E i \in DOMAIN reqs :
              \/ \E resp \in Responses : Respond(i, resp)
              \/ FetchFails(i)
              \/ ReadBody(i)
  BY <1>10, Zenon DEF Respond, FetchFails, ReadBody, CtlOK
<1>11. CASE UNCHANGED vars
  BY <1>11, Zenon DEF vars, CtlOK
<1> QED
  BY <1>1, <1>2, <1>3, <1>4, <1>5, <1>6, <1>7, <1>8, <1>9, <1>10, <1>11 DEF Next

(* Every step keeps the request log typed. *)
LEMMA NextReqsOK ==
    TypeInv /\ [Next]_vars => ReqsOK' /\ RespondedHaveResponse'
<1> SUFFICES ASSUME TypeInv, [Next]_vars PROVE ReqsOK' /\ RespondedHaveResponse'
  OBVIOUS
<1> USE DEF TypeInv
<1>1. CASE UNCHANGED reqs
  BY <1>1 DEF ReqsOK, RespondedHaveResponse
<1>2. ASSUME NEW s \in Servers \cup {NoName}, NEW p \in Platforms \cup {NoName},
             NEW uri \in Uris, NEW parms \in BodyParms, CallPOST(s, p, uri, parms),
             ~UNCHANGED reqs
      PROVE  ReqsOK' /\ RespondedHaveResponse'
  <2> DEFINE r == NewReq("callPOST", RestURL("rex", uri),
                     Assign([serverName |-> s, platformName |-> p,
                             enterpriseOption |-> enterpriseOption], parms))
  <2>1. Issue(r)
    BY <1>2 DEF CallPOST
  <2>2. Assign([serverName |-> s, platformName |-> p,
                enterpriseOption |-> enterpriseOption], parms) \in Bodies
    BY DEF Bodies, BaseBodies, CtlOK
  <2>3. r \in Requests /\ r.stage = "fetching"
    BY <2>2, NewReqType DEF Ops, NewReq
  <2> QED
    BY <2>1, <2>3, IssueType
<1>3. ASSUME NEW uri \in Uris, NEW parms \in BodyParms, RepositoryPOST(uri, parms),
             ~UNCHANGED reqs
      PROVE  ReqsOK' /\ RespondedHaveResponse'
  <2> DEFINE r == NewReq("repositoryPOST", RestURL("rex", uri), Assign(BuildBaseBody, parms))
  <2>1. Issue(r)
    BY <1>3 DEF RepositoryPOST
  <2>2. Assign(BuildBaseBody, parms) \in Bodies
    BY DEF Bodies, BaseBodies, BuildBaseBody, CtlOK
  <2>3. r \in Requests /\ r.stage = "fetching"
    BY <2>2, NewReqType DEF Ops, NewReq
  <2> QED
    BY <2>1, <2>3, IssueType
<1>4. ASSUME NEW uri \in Uris, CallGET(uri), ~UNCHANGED reqs
      PROVE  ReqsOK' /\ RespondedHaveResponse'
  <2> DEFINE r == NewReq("callGET", RestURL("rex", uri), << >>)
  <2>1. Issue(r)
    BY <1>4 DEF CallGET
  <2>2. r \in Requests /\ r.stage = "fetching"
    BY NewReqType DEF Bodies, Ops, NewReq
  <2> QED
    BY <2>1, <2>2, IssueType
<1>5. ASSUME NEW i \in DOMAIN reqs, NEW resp \in Responses, Respond(i, resp)
      PROVE  ReqsOK' /\ RespondedHaveResponse'
  <2> DEFINE x == [reqs[i] EXCEPT !.stage = "responded", !.resp = resp]
  <2>1. reqs[i] \in Requests
    BY DEF ReqsOK
  <2>2. x \in Requests /\ x.resp = resp
    BY <2>1, Zenon DEF Requests, Stages
  <2>3. reqs' = [reqs EXCEPT ![i] = x]
    BY <1>5, Zenon DEF Respond
  <2>4. x.stage = "responded" => x.resp \in Responses
    BY <2>2
  <2> QED
    BY <2>2, <2>3, <2>4, UpdateType, Zenon
<1>6. ASSUME NEW i \in DOMAIN reqs, FetchFails(i)
      PROVE  ReqsOK' /\ RespondedHaveResponse'
  <2> DEFINE x == [reqs[i] EXCEPT !.stage = "rejected"]
  <2>1. reqs[i] \in Requests
    BY DEF ReqsOK
  <2>2. x \in Requests /\ x.stage = "rejected"
    BY <2>1, Zenon DEF Requests, Stages
  <2>3. reqs' = [reqs EXCEPT ![i] = x]
    BY <1>6, Zenon DEF FetchFails
  <2>4. x.stage = "responded" => x.resp \in Responses
    BY <2>2
  <2> QED
    BY <2>2, <2>3, <2>4, UpdateType, Zenon
<1>7. ASSUME NEW i \in DOMAIN reqs, ReadBody(i)
      PROVE  ReqsOK' /\ RespondedHaveResponse'
  <2> DEFINE e == ChainEnd(reqs[i])
             x == [reqs[i] EXCEPT !.stage = e.stage, !.payload = e.payload,
                                  !.live = (mounted /\ reqs[i].mount = mounts)]
  <2>1. reqs[i] \in Requests /\ reqs[i].resp \in Responses
    BY <1>7 DEF ReadBody, ReqsOK, RespondedHaveResponse
  <2>2. e.stage \in Stages \ {"responded"} /\ e.payload \in Payloads \cup {NoPayload}
    BY <2>1, ChainEndType
  <2>3. x \in Requests /\ x.stage # "responded"
    BY <2>1, <2>2, Zenon DEF Requests
  <2>4. reqs' = [reqs EXCEPT ![i] = x]
    BY <1>7, Zenon DEF ReadBody
  <2>5. x.stage = "responded" => x.resp \in Responses
    BY <2>3
  <2> QED
    BY <2>3, <2>4, <2>5, UpdateType, Zenon
<1>8. CASE ~UNCHANGED reqs
  <2>1. CASE \E s \in Servers \cup {NoName}, p \in Platforms \cup {NoName},
                uri \in Uris, parms \in BodyParms : CallPOST(s, p, uri, parms)
    BY <1>2, <1>8, <2>1
  <2>2. CASE \E uri \in Uris, parms \in BodyParms : RepositoryPOST(uri, parms)
    BY <1>3, <1>8, <2>2
  <2>3. CASE \E uri \in Uris : CallGET(uri)
    BY <1>4, <1>8, <2>3
  <2>4. CASE \E i \in DOMAIN reqs :
                \/ \E resp \in Responses : Respond(i, resp)
                \/ FetchFails(i)
                \/ ReadBody(i)
    BY <1>5, <1>6, <1>7, <2>4
  <2>5. CASE ~(\/ \E s \in Servers \cup {NoName}, p \in Platforms \cup {NoName},
                   uri \in Uris, parms \in BodyParms : CallPOST(s, p, uri, parms)
               \/ \E uri \in Uris, parms \in BodyParms : RepositoryPOST(uri, parms)
               \/ \E uri \in Uris : CallGET(uri)
               \/ \E i \in DOMAIN reqs :
                     \/ \E resp \in Responses : Respond(i, resp)
                     \/ FetchFails(i)
                     \/ ReadBody(i))
    \* every other step leaves reqs alone
    BY <1>8, <2>5, Zenon DEF Next, vars, SetUserId, SetRepositoryServer,
       UpdateEnterpriseOption, DismissAlert, Unmount, Mount
  <2> QED
    BY <2>1, <2>2, <2>3, <2>4, <2>5
<1> QED
  BY <1>1, <1>8

LEMMA NextTypeInv == TypeInv /\ [Next]_vars => TypeInv'
BY NextCtlOK, NextReqsOK DEF TypeInv

(* Every reachable state is well typed. *)
THEOREM TypeCorrect == Spec => []TypeOK
<1>1. Spec => []TypeInv
  BY InitTypeInv, NextTypeInv, PTL DEF Spec
<1> QED
  BY <1>1, TypeInvTypeOK, PTL

-----------------------------------------------------------------------------
(* RequestsAuthorised is inductive relative to TypeInv: a request gets its *)
(* user and its body once, when a wrapper appends it past its guards, and  *)
(* the later steps of its chain change only its stage, response, payload   *)
(* and liveness.                                                           *)

LEMMA IssueAuthorised ==
    ASSUME RequestsAuthorised, ReqsOK, NEW r, reqs' = Append(reqs, r),
           r.url.user # NoName,
           r.op # "callGET" => r.body.serverName # NoName /\ r.body.platformName # NoName
    PROVE  RequestsAuthorised'
BY DEF RequestsAuthorised, ReqsOK

LEMMA UpdateAuthorised ==
    ASSUME RequestsAuthorised, ReqsOK, NEW i \in DOMAIN reqs, NEW x,
           x.op = reqs[i].op, x.url = reqs[i].url, x.body = reqs[i].body,
           reqs' = [reqs EXCEPT ![i] = x]
    PROVE  RequestsAuthorised'
BY DEF RequestsAuthorised, ReqsOK

LEMMA NextAuthorised ==
    TypeInv /\ RequestsAuthorised /\ [Next]_vars => RequestsAuthorised'
<1> SUFFICES ASSUME TypeInv, RequestsAuthorised, [Next]_vars
             PROVE  RequestsAuthorised'
  OBVIOUS
<1> USE DEF TypeInv
<1>1. CASE UNCHANGED reqs
  BY <1>1 DEF RequestsAuthorised
<1>2. ASSUME NEW s \in Servers \cup {NoName}, NEW p \in Platforms \cup {NoName},
             NEW uri \in Uris, NEW parms \in BodyParms, CallPOST(s, p, uri, parms),
             ~UNCHANGED reqs
      PROVE  RequestsAuthorised'
  <2> DEFINE b == [serverName |-> s, platformName |-> p, enterpriseOption |-> enterpriseOption]
             r == NewReq("callPOST", RestURL("rex", uri), Assign(b, parms))
  <2>1. /\ reqs' = Append(reqs, r)
        /\ userId # NoName /\ s # NoName /\ p # NoName
    BY <1>2 DEF CallPOST, Issue
  <2>2. b \in BaseBodies
    BY DEF BaseBodies, CtlOK
  <2>3. Assign(b, parms).serverName = s /\ Assign(b, parms).platformName = p
    BY <2>2, AssignKeepsBase
  <2>4. r.url.user # NoName /\ r.body.serverName # NoName /\ r.body.platformName # NoName
    BY <2>1, <2>3 DEF NewReq, RestURL
  <2> QED
    BY <2>1, <2>4, IssueAuthorised
<1>3. ASSUME NEW uri \in Uris, NEW parms \in BodyParms, RepositoryPOST(uri, parms),
             ~UNCHANGED reqs
      PROVE  RequestsAuthorised'
  <2> DEFINE r == NewReq("repositoryPOST", RestURL("rex", uri), Assign(BuildBaseBody, parms))
  <2>1. /\ reqs' = Append(reqs, r)
        /\ userId # NoName
        /\ repositoryServer.serverName # NoName
        /\ repositoryServer.platformName # NoName
    BY <1>3 DEF RepositoryPOST, Issue
  <2>2. BuildBaseBody \in BaseBodies
    BY DEF BaseBodies, BuildBaseBody, CtlOK
  <2>3. /\ Assign(BuildBaseBody, parms).serverName = repositoryServer.serverName
        /\ Assign(BuildBaseBody, parms).platformName = repositoryServer.platformName
    BY <2>2, AssignKeepsBase DEF BuildBaseBody
  <2>4. r.url.user # NoName /\ r.body.serverName # NoName /\ r.body.platformName # NoName
    BY <2>1, <2>3 DEF NewReq, RestURL
  <2> QED
    BY <2>1, <2>4, IssueAuthorised
<1>4. ASSUME NEW uri \in Uris, CallGET(uri), ~UNCHANGED reqs
      PROVE  RequestsAuthorised'
  <2> DEFINE r == NewReq("callGET", RestURL("rex", uri), << >>)
  <2>1. reqs' = Append(reqs, r) /\ userId # NoName
    BY <1>4 DEF CallGET, Issue
  <2>2. r.url.user # NoName /\ r.op = "callGET"
    BY <2>1 DEF NewReq, RestURL
  <2> QED
    BY <2>1, <2>2, IssueAuthorised
<1>5. ASSUME NEW i \in DOMAIN reqs, NEW resp \in Responses, Respond(i, resp)
      PROVE  RequestsAuthorised'
  <2> DEFINE x == [reqs[i] EXCEPT !.stage = "responded", !.resp = resp]
  <2>1. reqs[i] \in Requests
    BY DEF ReqsOK
  <2>2. x.op = reqs[i].op /\ x.url = reqs[i].url /\ x.body = reqs[i].body
    BY <2>1, Zenon DEF Requests
  <2>3. reqs' = [reqs EXCEPT ![i] = x]
    BY <1>5, Zenon DEF Respond
  <2> QED
    BY <2>2, <2>3, UpdateAuthorised, Zenon
<1>6. ASSUME NEW i \in DOMAIN reqs, FetchFails(i)
      PROVE  RequestsAuthorised'
  <2> DEFINE x == [reqs[i] EXCEPT !.stage = "rejected"]
  <2>1. reqs[i] \in Requests
    BY DEF ReqsOK
  <2>2. x.op = reqs[i].op /\ x.url = reqs[i].url /\ x.body = reqs[i].body
    BY <2>1, Zenon DEF Requests
  <2>3. reqs' = [reqs EXCEPT ![i] = x]
    BY <1>6, Zenon DEF FetchFails
  <2> QED
    BY <2>2, <2>3, UpdateAuthorised, Zenon
<1>7. ASSUME NEW i \in DOMAIN reqs, ReadBody(i)
      PROVE  RequestsAuthorised'
  <2> DEFINE e == ChainEnd(reqs[i])
             x == [reqs[i] EXCEPT !.stage = e.stage, !.payload = e.payload,
                                  !.live = (mounted /\ reqs[i].mount = mounts)]
  <2>1. reqs[i] \in Requests
    BY DEF ReqsOK
  <2>2. x.op = reqs[i].op /\ x.url = reqs[i].url /\ x.body = reqs[i].body
    BY <2>1, Zenon DEF Requests
  <2>3. reqs' = [reqs EXCEPT ![i] = x]
    BY <1>7, Zenon DEF ReadBody
  <2> QED
    BY <2>2, <2>3, UpdateAuthorised, Zenon
<1>8. CASE ~UNCHANGED reqs
  <2>1. CASE \E s \in Servers \cup {NoName}, p \in Platforms \cup {NoName},
                uri \in Uris, parms \in BodyParms : CallPOST(s, p, uri, parms)
    BY <1>2, <1>8, <2>1
  <2>2. CASE \E uri \in Uris, parms \in BodyParms : RepositoryPOST(uri, parms)
    BY <1>3, <1>8, <2>2
  <2>3. CASE \E uri \in Uris : CallGET(uri)
    BY <1>4, <1>8, <2>3
  <2>4. CASE \E i \in DOMAIN reqs :
                \/ \E resp \in Responses : Respond(i, resp)
                \/ FetchFails(i)
                \/ ReadBody(i)
    BY <1>5, <1>6, <1>7, <2>4
  <2>5. CASE ~(\/ \E s \in Servers \cup {NoName}, p \in Platforms \cup {NoName},
                   uri \in Uris, parms \in BodyParms : CallPOST(s, p, uri, parms)
               \/ \E uri \in Uris, parms \in BodyParms : RepositoryPOST(uri, parms)
               \/ \E uri \in Uris : CallGET(uri)
               \/ \E i \in DOMAIN reqs :
                     \/ \E resp \in Responses : Respond(i, resp)
                     \/ FetchFails(i)
                     \/ ReadBody(i))
    BY <1>8, <2>5, Zenon DEF Next, vars, SetUserId, SetRepositoryServer,
       UpdateEnterpriseOption, DismissAlert, Unmount, Mount
  <2> QED
    BY <2>1, <2>2, <2>3, <2>4, <2>5
<1> QED
  BY <1>1, <1>8

(* Spec 8(2) for every instance: no request is ever sent without a user,  *)
(* and no POST without a server and a platform.                           *)
THEOREM Authorised == Spec => []RequestsAuthorised
<1>1. Init => RequestsAuthorised
  BY DEF Init, RequestsAuthorised
<1>2. Spec => []TypeInv
  BY InitTypeInv, NextTypeInv, PTL DEF Spec
<1> QED
  BY <1>1, <1>2, NextAuthorised, PTL DEF Spec

-----------------------------------------------------------------------------
(* GetErrorNormalised is inductive relative to TypeInv: only ReadBody      *)
(* makes a request "called", and for a GET with a non-OK status it sets    *)
(* the payload from the response it holds at that moment, which no later   *)
(* step changes.                                                           *)

(* A replaced request that satisfies the property keeps it for the log. *)
LEMMA UpdateNormalised ==
    ASSUME GetErrorNormalised, ReqsOK, NEW i \in DOMAIN reqs, NEW x,
           (x.op = "callGET" /\ x.stage = "called" /\ ~IsOK(x.resp.status))
              => x.payload = ErrorJson(x.resp),
           reqs' = [reqs EXCEPT ![i] = x]
    PROVE  GetErrorNormalised'
BY DEF GetErrorNormalised, ReqsOK

LEMMA IssueNormalised ==
    ASSUME GetErrorNormalised, ReqsOK, NEW r, r.stage = "fetching",
           reqs' = Append(reqs, r)
    PROVE  GetErrorNormalised'
BY DEF GetErrorNormalised, ReqsOK

LEMMA NextNormalised ==
    TypeInv /\ GetErrorNormalised /\ [Next]_vars => GetErrorNormalised'
<1> SUFFICES ASSUME TypeInv, GetErrorNormalised, [Next]_vars
             PROVE  GetErrorNormalised'
  OBVIOUS
<1> USE DEF TypeInv
<1>1. CASE UNCHANGED reqs
  BY <1>1 DEF GetErrorNormalised
<1>2. ASSUME NEW r, Issue(r), r.stage = "fetching"
      PROVE  GetErrorNormalised'
  BY <1>2, IssueNormalised DEF Issue
<1>3. ASSUME NEW s \in Servers \cup {NoName}, NEW p \in Platforms \cup {NoName},
             NEW uri \in Uris, NEW parms \in BodyParms, CallPOST(s, p, uri, parms),
             ~UNCHANGED reqs
      PROVE  GetErrorNormalised'
  BY <1>2, <1>3 DEF CallPOST, NewReq
<1>4. ASSUME NEW uri \in Uris, NEW parms \in BodyParms, RepositoryPOST(uri, parms),
             ~UNCHANGED reqs
      PROVE  GetErrorNormalised'
  BY <1>2, <1>4 DEF RepositoryPOST, NewReq
<1>5. ASSUME NEW uri \in Uris, CallGET(uri), ~UNCHANGED reqs
      PROVE  GetErrorNormalised'
  BY <1>2, <1>5 DEF CallGET, NewReq
<1>6. ASSUME NEW i \in DOMAIN reqs, NEW resp \in Responses, Respond(i, resp)
      PROVE  GetErrorNormalised'
  <2> DEFINE x == [reqs[i] EXCEPT !.stage = "responded", !.resp = resp]
  <2>1. reqs[i] \in Requests
    BY DEF ReqsOK
  <2>2. x.stage = "responded"
    BY <2>1, Zenon DEF Requests
  <2>3. reqs' = [reqs EXCEPT ![i] = x]
    BY <1>6, Zenon DEF Respond
  <2> QED
    BY <2>2, <2>3, UpdateNormalised
<1>7. ASSUME NEW i \in DOMAIN reqs, FetchFails(i)
      PROVE  GetErrorNormalised'
  <2> DEFINE x == [reqs[i] EXCEPT !.stage = "rejected"]
  <2>1. reqs[i] \in Requests
    BY DEF ReqsOK
  <2>2. x.stage = "rejected"
    BY <2>1, Zenon DEF Requests
  <2>3. reqs' = [reqs EXCEPT ![i] = x]
    BY <1>7, Zenon DEF FetchFails
  <2> QED
    BY <2>2, <2>3, UpdateNormalised
<1>8. ASSUME NEW i \in DOMAIN reqs, ReadBody(i)
      PROVE  GetErrorNormalised'
  <2> DEFINE e == ChainEnd(reqs[i])
             x == [reqs[i] EXCEPT !.stage = e.stage, !.payload = e.payload,
                                  !.live = (mounted /\ reqs[i].mount = mounts)]
  <2>1. reqs[i] \in Requests
    BY DEF ReqsOK
  <2>2. /\ x.op = reqs[i].op /\ x.resp = reqs[i].resp
        /\ x.stage = e.stage /\ x.payload = e.payload
    BY <2>1, Zenon DEF Requests
  <2>3. reqs' = [reqs EXCEPT ![i] = x]
    BY <1>8, Zenon DEF ReadBody
  <2>4. (reqs[i].op = "callGET" /\ e.stage = "called" /\ ~IsOK(reqs[i].resp.status))
           => e.payload = ErrorJson(reqs[i].resp)
    BY DEF ChainEnd
  <2> QED
    BY <2>2, <2>3, <2>4, UpdateNormalised
<1>9. CASE ~UNCHANGED reqs
  <2>1. CASE \E s \in Servers \cup {NoName}, p \in Platforms \cup {NoName},
                uri \in Uris, parms \in BodyParms : CallPOST(s, p, uri, parms)
    BY <1>3, <1>9, <2>1
  <2>2. CASE \E uri \in Uris, parms \in BodyParms : RepositoryPOST(uri, parms)
    BY <1>4, <1>9, <2>2
  <2>3. CASE \E uri \in Uris : CallGET(uri)
    BY <1>5, <1>9, <2>3
  <2>4. CASE \E i \in DOMAIN reqs :
                \/ \E resp \in Responses : Respond(i, resp)
                \/ FetchFails(i)
                \/ ReadBody(i)
    BY <1>6, <1>7, <1>8, <2>4
  <2>5. CASE ~(\/ \E s \in Servers \cup {NoName}, p \in Platforms \cup {NoName},
                   uri \in Uris, parms \in BodyParms : CallPOST(s, p, uri, parms)
               \/ \E uri \in Uris, parms \in BodyParms : RepositoryPOST(uri, parms)
               \/ \E uri \in Uris : CallGET(uri)
               \/ \E i \in DOMAIN reqs :
                     \/ \E resp \in Responses : Respond(i, resp)
                     \/ FetchFails(i)
                     \/ ReadBody(i))
    \* every other step leaves reqs alone
    BY <1>9, <2>5, Zenon DEF Next, vars, SetUserId, SetRepositoryServer,
       UpdateEnterpriseOption, DismissAlert, Unmount, Mount
  <2> QED
    BY <2>1, <2>2, <2>3, <2>4, <2>5
<1> QED
  BY <1>1, <1>9

(* Spec 8(3) for every instance: whenever the callback of a GET answered   *)
(* with a non-OK status has run, it was given that status as               *)
(* relatedHTTPCode and the message built from the answer.                  *)
THEOREM ErrorNormalised == Spec => []GetErrorNormalised
<1>1. Init => GetErrorNormalised
  BY DEF Init, GetErrorNormalised
<1>2. Spec => []TypeInv
  BY InitTypeInv, NextTypeInv, PTL DEF Spec
<1> QED
  BY <1>1, <1>2, NextNormalised, PTL DEF Spec

=============================================================================
