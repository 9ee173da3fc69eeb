------------------------------ MODULE CertSync -----------------------------
(***************************************************************************)
(* The certificate of the load balancers.  Each controller runs cron in    *)
(* letsencrypt-lego, HAProxy, and sshd beside HAProxy.  The cron job of    *)
(* the controller that has the virtual IP obtains or renews a certificate; *)
(* its hook then visits the controllers one after the other: it mirrors    *)
(* the lego directory there, puts the certificate into an incoming file    *)
(* and runs update-loadbalancer-cert, which loads it into the memory of    *)
(* HAProxy by a transaction and then replaces the file HAProxy reads when  *)
(* it starts.                                                              *)
(*                                                                         *)
(* A failed copy is not noticed and a failed update only ends the visit;   *)
(* neither is tried again before the next renewal.  Controllers and        *)
(* HAProxy stop and start, and the virtual IP moves, at any time.          *)
(*                                                                         *)
(* The internal and the external certificate take the same way; this is    *)
(* one of them.                                                            *)
(***************************************************************************)
EXTENDS Naturals, Sequences, SequencesExt

CONSTANTS
    Haproxies,      \* the controllers, in the order of --haproxies-ssh
    NoCert,         \* no file, no transaction
    Torn,           \* a file whose writing was cut short
    LooksLocal,     \* host -> the hosts whose address is part of one of its own
    MaxCerts,       \* bound: certificates issued
    MaxOutages      \* bound: hosts stopped, HAProxies restarted, moves of the IP

Hosts == Range(Haproxies)

ASSUME CertSyncAssumption ==
    /\ Haproxies \in Seq(Hosts) /\ IsInjective(Haproxies)
    /\ MaxCerts \in Nat /\ MaxOutages \in Nat
    /\ NoCert \notin Nat /\ Torn \notin Nat /\ NoCert # Torn
    /\ LooksLocal \in [Hosts -> SUBSET Hosts]
    /\ \A h \in Hosts : h \in LooksLocal[h]

\* 0 is the certificate HAProxy was deployed with.
Cert == 0..MaxCerts

VARIABLES
    vip,            \* the host with the virtual IP
    up,             \* the hosts that are up
    issued,         \* the last certificate
    lego,           \* host -> the certificate in /etc/letsencrypt/lego
    incoming,       \* host -> /var/lib/haproxy/haproxy.pem
    transaction,    \* host -> what was set and not committed in HAProxy
    memory,         \* host -> what HAProxy serves
    disk,           \* host -> /etc/haproxy/certificates/haproxy.pem
    job,            \* host -> its cron job
    outages,        \* so far
    \* history
    missed,         \* the hosts whose last visit went wrong somewhere
    overlap         \* two jobs ran at the same time

certs == <<lego, incoming, transaction, memory, disk>>
vars == <<vip, up, issued, certs, job, outages, missed, overlap>>

\* "ok" is history: nothing of this visit went wrong.
Job == [pc : {"idle", "next", "lego", "pem", "set", "verify", "commit",
              "write", "remove"},
        todo : Suffixes(Haproxies), host : Hosts, ok : BOOLEAN]

TypeOK ==
    /\ vip \in Hosts /\ up \subseteq Hosts
    /\ issued \in Cert
    /\ lego \in [Hosts -> Cert \cup {NoCert}]
    /\ incoming \in [Hosts -> Cert \cup {NoCert}]
    /\ transaction \in [Hosts -> Cert \cup {NoCert}]
    /\ memory \in [Hosts -> Cert \cup {Torn}]
    /\ disk \in [Hosts -> Cert \cup {Torn}]
    /\ job \in [Hosts -> Job]
    /\ outages \in 0..MaxOutages
    /\ missed \subseteq Hosts /\ overlap \in BOOLEAN

Init ==
    /\ vip \in Hosts /\ up = Hosts
    /\ issued = 0
    /\ lego = [h \in Hosts |-> NoCert]
    /\ incoming = [h \in Hosts |-> NoCert]
    /\ transaction = [h \in Hosts |-> NoCert]
    /\ memory = [h \in Hosts |-> 0]
    /\ disk = [h \in Hosts |-> 0]
    /\ job = [h \in Hosts |-> [pc |-> "idle", todo |-> <<>>, host |-> h, ok |-> TRUE]]
    /\ outages = 0
    /\ missed = {} /\ overlap = FALSE

-----------------------------------------------------------------------------
(***************************************************************************)
(* letsencrypt-certificates: passive without the virtual IP.  lego runs    *)
(* the hook only when it got a certificate.                                *)
(***************************************************************************)
Active(n) == vip = n /\ n \in up /\ job[n].pc = "idle"

Obtain(n) ==
    /\ Active(n)
    /\ issued < MaxCerts /\ issued' = issued + 1
    /\ lego' = [lego EXCEPT ![n] = issued + 1]
    /\ job' = [job EXCEPT ![n] = [@ EXCEPT !.pc = "next", !.todo = Haproxies]]
    /\ overlap' = (overlap \/ \E m \in Hosts : job[m].pc # "idle")
    /\ UNCHANGED <<vip, up, incoming, transaction, memory, disk, missed,
                   outages>>

\* Domains were added: the files are removed, and then lego fails.
ObtainFails(n) ==
    /\ Active(n)
    /\ lego' = [lego EXCEPT ![n] = NoCert]
    /\ UNCHANGED <<vip, up, issued, incoming, transaction, memory, disk, job,
                   missed, overlap, outages>>

-----------------------------------------------------------------------------
(***************************************************************************)
(* sync-and-update-certificate: a visit after the other.                   *)
(***************************************************************************)
At(n, pc) == job[n].pc = pc

Step(n, from, to) ==
    /\ At(n, from)
    /\ job[n].host \in up
    /\ job' = [job EXCEPT ![n].pc = to]

NextHost(n) ==
    LET h == Head(job[n].todo) IN
    /\ At(n, "next") /\ job[n].todo # <<>>
    /\ job' = [job EXCEPT ![n] =
                 [pc |-> IF h \in LooksLocal[n] THEN "pem" ELSE "lego",
                  todo |-> Tail(@.todo), host |-> h, ok |-> TRUE]]
    /\ UNCHANGED <<vip, up, issued, certs, missed, overlap, outages>>

\* Mutation: the loop ends whatever is left of it.
HookStops(n) ==
    /\ At(n, "next")
    /\ job' = [job EXCEPT ![n].pc = "idle"]
    /\ UNCHANGED <<vip, up, issued, certs, missed, overlap, outages>>

HookDone(n) ==
    /\ At(n, "next") /\ job[n].todo = <<>>
    /\ job' = [job EXCEPT ![n].pc = "idle"]
    /\ UNCHANGED <<vip, up, issued, certs, missed, overlap, outages>>

\* rsync of the lego directory, with --delete
RsyncLego(n) ==
    /\ Step(n, "lego", "pem")
    /\ lego' = [lego EXCEPT ![job[n].host] = lego[n]]
    /\ UNCHANGED <<vip, up, issued, incoming, transaction, memory, disk,
                   missed, overlap, outages>>

\* rsync of the certificate; the receiver renames it into its place.
RsyncPem(n) ==
    /\ Step(n, "pem", "set")
    /\ lego[n] # NoCert
    /\ incoming' = [incoming EXCEPT ![job[n].host] = lego[n]]
    /\ UNCHANGED <<vip, up, issued, lego, transaction, memory, disk, missed,
                   overlap, outages>>

\* Nobody looks at the exit code of rsync.
RsyncFails(n) ==
    /\ job[n].pc \in {"lego", "pem"}
    /\ job' = [job EXCEPT ![n].pc = IF @ = "lego" THEN "pem" ELSE "set",
                          ![n].ok = FALSE]
    /\ UNCHANGED <<vip, up, issued, certs, missed, overlap, outages>>

-----------------------------------------------------------------------------
(***************************************************************************)
(* update-loadbalancer-cert on the host, over ssh.                         *)
(***************************************************************************)
SetCert(n) ==
    LET h == job[n].host IN
    /\ Step(n, "set", "verify")
    /\ incoming[h] # NoCert /\ memory[h] # Torn
    /\ transaction' = [transaction EXCEPT ![h] = incoming[h]]
    /\ UNCHANGED <<vip, up, issued, lego, incoming, memory, disk, missed,
                   overlap, outages>>

\* the fingerprint of the file and that of the transaction
Verify(n) ==
    LET h == job[n].host IN
    /\ Step(n, "verify", "commit")
    /\ incoming[h] = transaction[h]
    /\ UNCHANGED <<vip, up, issued, certs, missed, overlap, outages>>

Commit(n) ==
    LET h == job[n].host IN
    /\ Step(n, "commit", "write")
    /\ transaction[h] # NoCert
    /\ memory' = [memory EXCEPT ![h] = transaction[h]]
    /\ transaction' = [transaction EXCEPT ![h] = NoCert]
    /\ UNCHANGED <<vip, up, issued, lego, incoming, disk, missed, overlap, outages>>

\* Mutation: the incoming file is taken away whether it is there or not.
MoveToDisk(n) ==
    LET h == job[n].host IN
    /\ Step(n, "write", "remove")
    /\ disk' = [disk EXCEPT ![h] = incoming[h]]
    /\ UNCHANGED <<vip, up, issued, lego, incoming, transaction, memory,
                   missed, overlap, outages>>

\* Mutation: the certificate is only loaded.
OnlyInMemory(n) ==
    /\ Step(n, "write", "remove")
    /\ UNCHANGED <<vip, up, issued, certs, missed, overlap, outages>>

\* The backup, and the copy of what is in the incoming file by now.
WriteToDisk(n) ==
    LET h == job[n].host IN
    /\ Step(n, "write", "remove")
    /\ disk' = [disk EXCEPT ![h] = IF incoming[h] = NoCert THEN @
                                   ELSE incoming[h]]
    /\ UNCHANGED <<vip, up, issued, lego, incoming, transaction, memory,
                   missed, overlap, outages>>

\* cp fails, and the script goes on.
WriteFails(n) ==
    LET h == job[n].host IN
    /\ At(n, "write") /\ h \in up
    /\ disk' \in {disk, [disk EXCEPT ![h] = Torn]}
    /\ job' = [job EXCEPT ![n].pc = "remove", ![n].ok = FALSE]
    /\ UNCHANGED <<vip, up, issued, lego, incoming, transaction, memory,
                   missed, overlap, outages>>

RemoveIncoming(n) ==
    LET h == job[n].host IN
    /\ Step(n, "remove", "next")
    /\ incoming' = [incoming EXCEPT ![h] = NoCert]
    /\ missed' = IF job[n].ok THEN missed \ {h} ELSE missed \cup {h}
    /\ UNCHANGED <<vip, up, issued, lego, transaction, memory, disk, overlap,
                   outages>>

Updates(n) == job[n].pc \in {"set", "verify", "commit", "write", "remove"}

\* The file a writing job that stops may leave behind.
WriteCut(jobs) ==
    disk' \in {disk} \cup
              {[disk EXCEPT ![job[n].host] = Torn] : n \in {m \in jobs : At(m, "write")}}

\* The update exits with 1, or the connection breaks.
UpdateFails(n) ==
    /\ Updates(n)
    /\ job' = [job EXCEPT ![n].pc = "next"]
    /\ WriteCut({n})
    /\ missed' = missed \cup {job[n].host}
    /\ UNCHANGED <<vip, up, issued, lego, incoming, transaction, memory,
                   overlap, outages>>

-----------------------------------------------------------------------------
(***************************************************************************)
(* The hosts.  HAProxy loads the file when it starts.                      *)
(***************************************************************************)
Outage == outages < MaxOutages /\ outages' = outages + 1

LoadFromDisk(h) ==
    /\ memory' = [memory EXCEPT ![h] = disk[h]]
    /\ transaction' = [transaction EXCEPT ![h] = NoCert]

\* A job between its commit and its write has loaded the certificate in vain:
\* it does not look again.
RestartHaproxy(h) ==
    /\ Outage /\ h \in up
    /\ LoadFromDisk(h)
    /\ job' = [n \in Hosts |->
                  IF At(n, "write") /\ job[n].host = h
                  THEN [job[n] EXCEPT !.ok = FALSE] ELSE job[n]]
    /\ UNCHANGED <<vip, up, issued, lego, incoming, disk, missed, overlap>>

\* A job on the host ends with it, and the rest of its visits are not made;
\* a job that updates the host goes on with the next one.
HostDown(h) ==
    LET visitors == {n \in Hosts \ {h} : Updates(n) /\ job[n].host = h}
    IN  /\ Outage /\ h \in up
        /\ up' = up \ {h}
        /\ job' = [n \in Hosts |->
                     CASE n = h -> [job[n] EXCEPT !.pc = "idle"]
                       [] n \in visitors -> [job[n] EXCEPT !.pc = "next"]
                       [] OTHER -> job[n]]
        /\ missed' = missed \cup (IF visitors = {} THEN {} ELSE {h})
             \cup (IF At(h, "idle") THEN {} ELSE Range(job[h].todo))
             \cup (IF job[h].pc \in {"idle", "next"} THEN {} ELSE {job[h].host})
        /\ WriteCut({h} \cup visitors)
        /\ UNCHANGED <<vip, issued, lego, incoming, transaction, memory, overlap>>

HostUp(h) ==
    /\ h \notin up
    /\ up' = up \cup {h}
    /\ LoadFromDisk(h)
    /\ UNCHANGED <<vip, issued, lego, incoming, disk, job, missed, overlap, outages>>

MoveVip ==
    /\ Outage
    /\ vip' \in Hosts \ {vip}
    /\ UNCHANGED <<up, issued, certs, job, missed, overlap>>

Visit(n) ==
    \/ NextHost(n) \/ HookDone(n)
    \/ RsyncLego(n) \/ RsyncPem(n) \/ RsyncFails(n)
    \/ SetCert(n) \/ Verify(n) \/ Commit(n)
    \/ WriteToDisk(n) \/ WriteFails(n) \/ RemoveIncoming(n) \/ UpdateFails(n)

Next ==
    \/ \E h \in Hosts :
          \/ Obtain(h) \/ ObtainFails(h) \/ Visit(h)
          \/ RestartHaproxy(h) \/ HostDown(h) \/ HostUp(h)
    \/ MoveVip

Spec == Init /\ [][Next]_vars

-----------------------------------------------------------------------------
(***************************************************************************)
(* Properties.                                                             *)
(***************************************************************************)

(***************************************************************************)
(* When no job runs and none ever overlapped another, every load balancer  *)
(* whose last visit went well serves the last certificate that was issued, *)
(* serves it again after a restart, and its host would renew that very     *)
(* certificate if it got the virtual IP; whatever happened to the others.  *)
(* The last part is not so of a host whose address is part of an address   *)
(* of the one that visited it: the hook takes it for its own.              *)
(***************************************************************************)
VisitedServesLast ==
    (\A n \in Hosts : At(n, "idle")) /\ ~overlap =>
        \A h \in Hosts \ missed :
            /\ memory[h] = issued /\ disk[h] = issued
            /\ \/ lego[h] \in {issued, NoCert}
               \/ \E n \in Hosts \ {h} : h \in LooksLocal[n]
            /\ incoming[h] = NoCert

(***************************************************************************)
(* HAProxy may be restarted at any time, also while another host is being  *)
(* visited, and serves what it served before.  The exceptions: it is being *)
(* visited, its last visit went wrong, or two jobs visited it at once.     *)
(***************************************************************************)
RestartIsHarmless ==
    \A h \in Hosts \ missed :
        \/ disk[h] = memory[h]
        \/ \E n \in Hosts : ~At(n, "idle") /\ job[n].host = h
        \/ overlap
=============================================================================
