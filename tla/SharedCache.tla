----------------------------- MODULE SharedCache -----------------------------
(***************************************************************************)
(* What cacher_cache.h and cacher_admin.h promise a site's visitors and    *)
(* its administrator, with no rules, keys, directories, redirects or       *)
(* filters in sight: whose response may be repeated to whom, for how long, *)
(* and who may take which responses away.                                  *)
(***************************************************************************)
EXTENDS Naturals

CONSTANTS
    Workers,   \* requests that can be in progress at once
    Visits,    \* what clients ask for: a host, an address as text, and whether
               \* they are known (login) and show credentials in a header
    Nobody,    \* the visit of a worker without a request
    Codes,     \* the statuses the sites answer with
    Scopes     \* the sets of addresses an administrator may purge

VARIABLES
    cached,    \* the stored responses: a host, an address, a status and an expiry
    client,    \* each worker's visit, what it was served so far and its status
    clock

vars == <<cached, client, clock>>

Waiting == [visit |-> Nobody, phase |-> "idle", status |-> 0]

Init == cached = {} /\ client = [w \in Workers |-> Waiting] /\ clock = 0

Visit(w) == client[w].visit
SameTarget(c, d) == c.host = d.host /\ c.target = d.target

\* A request gets an answer, or gets on with the one it has.
Turn(w, from, to, code) ==
    /\ client[w].phase = from
    /\ client' = [client EXCEPT ![w] = [visit |-> Visit(w), phase |-> to, status |-> code]]
    /\ UNCHANGED clock

Arrive(w) ==
    /\ client[w].phase = "idle"
    /\ \E v \in Visits :
         client' = [client EXCEPT ![w] = [visit |-> v, phase |-> "open", status |-> 0]]
    /\ UNCHANGED <<cached, clock>>

\* Only a client nobody knows is asked to say who it is.
Refuse(w, code) ==
    /\ code = 401 => ~Visit(w).login
    /\ Turn(w, "open", "nothing", code)
    /\ UNCHANGED cached

\* A stored response to the same address of the same site, not yet expired.
Hit(w) ==
    /\ \E c \in cached : /\ SameTarget(c, Visit(w)) /\ c.until > clock
                         /\ Turn(w, "open", "cache", c.status)
    /\ UNCHANGED cached

Answer(w, code) == Turn(w, "open", "origin", code) /\ UNCHANGED cached

\* "no Authorization header": what credentials got is not for sharing.
Capture(w, code) == ~Visit(w).credentials /\ Turn(w, "open", "capture", code) /\ UNCHANGED cached

\* The response is stored, at most in place of others to the same address.
Store(w) ==
    /\ Turn(w, "capture", "origin", client[w].status)
    /\ \E c \in cached' : /\ SameTarget(c, Visit(w)) /\ c.status = client[w].status
                          /\ c.until > clock
                          /\ cached' \subseteq cached \cup {c}
    /\ \A c \in cached \ cached' : SameTarget(c, Visit(w))

Abandon(w) == Turn(w, "capture", "origin", client[w].status) /\ UNCHANGED cached

\* "every operation here is scoped to the requesting host"; an error means that
\* nothing was taken away.
Drop(w, gone) ==
    /\ Visit(w).login
    /\ \E code \in {200, 400, 404} :
         Turn(w, "open", "admin", code) /\ (code # 200 => cached' = cached)
    /\ cached' = {c \in cached : c.host = Visit(w).host => c \notin gone}

Purge(w, targets) == Drop(w, {c \in cached : c.target \in targets})
Reset(w)          == Drop(w, cached)

Leave(w) ==
    /\ client[w].phase \in {"nothing", "cache", "origin", "admin"}
    /\ client' = [client EXCEPT ![w] = Waiting]
    /\ UNCHANGED <<cached, clock>>

Tick == clock' = clock + 1 /\ UNCHANGED <<cached, client>>

Next ==
    \/ \E w \in Workers :
         \/ Arrive(w)
         \/ \E code \in {401, 403} : Refuse(w, code)
         \/ \E code \in Codes : Answer(w, code) \/ Capture(w, code)
         \/ \E targets \in Scopes : Purge(w, targets)
         \/ Hit(w) \/ Store(w) \/ Abandon(w) \/ Reset(w) \/ Leave(w)
    \/ Tick

Spec == Init /\ [][Next]_vars
=============================================================================
