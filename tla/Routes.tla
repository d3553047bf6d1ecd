------------------------------- MODULE Routes -------------------------------
(***************************************************************************)
(* The device rules of httpapi/routes.go: three lists of addresses in      *)
(* kvas.conf, which the requests of browser tabs read, change and write    *)
(* back with no lock.  A step is one read of the file or one atomic        *)
(* replacement of it (kvas/conf.go); a write fails on a full disk, a read  *)
(* of the file does not.  The run of "kvas route refresh" that ends a      *)
(* request changes rules of Kvas, which are no state of this model.        *)
(***************************************************************************)
EXTENDS Naturals, Sequences, SequencesExt

CONSTANTS
  Device,    \* addresses a rule may name, as NormalizeIP writes them
  Edited,    \* those of them the tabs make requests about
  InitConf,  \* the lists kvas.conf may hold at first
  Tabs,      \* browser tabs that edit the rules
  None,      \* no value
  RouteKey,  \* routeKeys: the kinds of rule and the keys of their lists
  Exclude,   \* the one of them for devices that go past the tunnel
  MaxFaults  \* bound on failures of files and commands

ASSUME RoutesAssumption ==
  /\ None \notin Device
  /\ Edited \subseteq Device
  /\ Exclude \in RouteKey
  /\ InitConf \subseteq [RouteKey -> Seq(Device)]
  /\ MaxFaults \in Nat

VARIABLES
  conf,   \* conf[k]: the list of key k in kvas.conf
  req,    \* req[t]: the request of tab t
  faults  \* failures the environment may still cause

File == [RouteKey -> Seq(Device)]

\* at: "others" while the address is taken out of the other lists in turn,
\* "read" and "write" inside Conf.Set(key, value), which goes on to then.
\* data is the file as Set read it.
Request == [at: {"idle", "others", "read", "write"}, type: RouteKey,
            ip: Device \cup {None}, items: Seq(Device), todo: SUBSET RouteKey,
            key: RouteKey, value: Seq(Device), data: File]

Blank == [k \in RouteKey |-> <<>>]
NoRequest == [at |-> "idle", type |-> Exclude, ip |-> None, items |-> <<>>,
              todo |-> {}, key |-> Exclude, value |-> <<>>, data |-> Blank]

RoutesTyped ==
  /\ \A k \in RouteKey : \A i \in DOMAIN conf[k] : conf[k][i] \in Device
  /\ \A t \in Tabs : req[t].at \in {"idle", "others", "read", "write"}

Fault == faults > 0 /\ faults' = faults - 1

\* remove: the list goes through the loop, the address is left out.
Without(items, ip) ==
  LET out[n \in 0..Len(items)] ==
        IF n = 0 THEN <<>>
        ELSE IF items[n] = ip THEN out[n - 1] ELSE Append(out[n - 1], items[n])
  IN  out[Len(items)]

-----------------------------------------------------------------------------

RouteAdd_OthersLeft(t, type, ip) ==
  /\ req[t].at = "idle"
  /\ ~Contains(conf[type], ip)
  /\ req' = [req EXCEPT ![t] =
       [NoRequest EXCEPT !.at = "others", !.type = type, !.ip = ip,
          !.items = conf[type]]]
  /\ UNCHANGED <<conf, faults>>

\* An address of a list that has it is nothing to do.  The list is read here
\* and written, longer by the address, after the other lists are done.
RouteAdd(t, type, ip) ==
  /\ req[t].at = "idle"
  /\ ~Contains(conf[type], ip)
  /\ req' = [req EXCEPT ![t] =
       [NoRequest EXCEPT !.at = "others", !.type = type, !.ip = ip,
          !.items = conf[type], !.todo = RouteKey \ {type}]]
  /\ UNCHANGED <<conf, faults>>

RouteDel(t, type, ip) ==
  /\ req[t].at = "idle"
  /\ Contains(conf[type], ip)
  /\ req' = [req EXCEPT ![t] =
       [NoRequest EXCEPT !.at = "read", !.type = type, !.ip = ip, !.key = type,
          !.value = Without(conf[type], ip)]]
  /\ UNCHANGED <<conf, faults>>

\* One turn of the loop over routeKeys, a map: the order is anybody's guess.
ClearOther(t, k) ==
  /\ req[t].at = "others"
  /\ k \in req[t].todo
  /\ IF Contains(conf[k], req[t].ip)
     THEN req' = [req EXCEPT ![t].todo = @ \ {k}, ![t].at = "read", ![t].key = k,
                             ![t].value = Without(conf[k], req[t].ip)]
     ELSE req' = [req EXCEPT ![t].todo = @ \ {k}]
  /\ UNCHANGED <<conf, faults>>

OthersCleared_ListLost(t) ==
  /\ req[t].at = "others"
  /\ req[t].todo = {}
  /\ req' = [req EXCEPT ![t].at = "read", ![t].key = req[t].type,
                        ![t].value = <<req[t].ip>>]
  /\ UNCHANGED <<conf, faults>>

OthersCleared(t) ==
  /\ req[t].at = "others"
  /\ req[t].todo = {}
  /\ req' = [req EXCEPT ![t].at = "read", ![t].key = req[t].type,
                        ![t].value = Append(req[t].items, req[t].ip)]
  /\ UNCHANGED <<conf, faults>>

SetRead(t) ==
  /\ req[t].at = "read"
  /\ req' = [req EXCEPT ![t].at = "write", ![t].data = conf]
  /\ UNCHANGED <<conf, faults>>

SetWrite(t) ==
  /\ req[t].at = "write"
  /\ conf' = [req[t].data EXCEPT ![req[t].key] = req[t].value]
  /\ req' = [req EXCEPT ![t] = IF req[t].key = req[t].type THEN NoRequest
                               ELSE [@ EXCEPT !.at = "others", !.value = <<>>,
                                             !.data = Blank]]
  /\ UNCHANGED faults

\* WriteFileAtomic fails and the request ends: what it wrote before stays.
SetFails(t) ==
  /\ req[t].at = "write"
  /\ Fault
  /\ req' = [req EXCEPT ![t] = NoRequest]
  /\ UNCHANGED conf

RouteStep(t) ==
  \/ \E k \in RouteKey : ClearOther(t, k)
  \/ OthersCleared(t)
  \/ SetRead(t)
  \/ SetWrite(t)
  \/ SetFails(t)

RouteRequest(t) ==
  \E type \in RouteKey, ip \in Edited : RouteAdd(t, type, ip) \/ RouteDel(t, type, ip)

-----------------------------------------------------------------------------

\* An address is in one list at most, also between the writes of a request
\* and after a failed write or a restart in the middle of it: handleRouteAdd
\* takes it out of the other lists before it puts it in (routes.go:70).  This
\* is for tabs that take turns.
OneList ==
  \A j, k \in RouteKey : \A ip \in Device :
    Contains(conf[j], ip) /\ Contains(conf[k], ip) => j = k

\* A request touches the rules of its own address only, for tabs that take
\* turns (joinPlus of the list as it was read).
OthersKept ==
  [][\A k \in RouteKey : \A ip \in Device :
       Contains(conf[k], ip) # Contains(conf'[k], ip) =>
         \E t \in Tabs : req[t].ip = ip]_conf
=============================================================================
