--------------------------- MODULE CertSyncProofs ---------------------------
(***************************************************************************)
(* Proofs about the renewal of the certificate, for any number of load     *)
(* balancers and of renewals, and for any addresses, failures, restarts    *)
(* and moves of the virtual IP.                                            *)
(***************************************************************************)
EXTENDS CertSync, TLAPS, SequenceTheorems

-----------------------------------------------------------------------------
(***************************************************************************)
(* The invariant.  Once two jobs have overlapped, only the types and       *)
(* VisitedIsUp are kept.                                                   *)
(***************************************************************************)
OneJob ==
    ~overlap => \A m, n \in Hosts : ~At(m, "idle") /\ ~At(n, "idle") => m = n

\* Job n is at host h, or has yet to visit it.
Visits(n, h) == job[n].pc \notin {"idle", "next"} /\ job[n].host = h

IsDue(n, h) == Visits(n, h) \/ (~At(n, "idle") /\ h \in Range(job[n].todo))

\* Host h would go on from the last certificate.
HasLego(h) ==
    \/ lego[h] \in {issued, NoCert}
    \/ \E n \in Hosts \ {h} : h \in LooksLocal[n]

Serves(h) ==
    memory[h] = issued /\ disk[h] = issued /\ HasLego(h) /\ incoming[h] = NoCert

Served ==
    ~overlap => \A h \in Hosts \ missed : Serves(h) \/ \E n \in Hosts : IsDue(n, h)

Restartable ==
    ~overlap => \A h \in Hosts \ missed :
                   disk[h] = memory[h] \/ \E n \in Hosts : Visits(n, h)

\* A host that was down goes through "set" only after a failed copy.
VisitedIsUp ==
    \A n \in Hosts : job[n].pc \in {"verify", "commit", "write", "remove"} =>
                        job[n].host \in up

\* What a visit of host h that went well so far has done.
VisitDone(h, pc) ==
    /\ pc \in {"pem", "set", "verify", "commit", "write", "remove"} => HasLego(h)
    /\ pc \in {"set", "verify", "commit", "write"} => incoming[h] = issued
    /\ pc \in {"verify", "commit"} => transaction[h] \in {issued, NoCert}
    /\ pc \in {"write", "remove"} => memory[h] = issued
    /\ pc = "remove" => disk[h] = issued

VisitSoFar ==
    ~overlap => \A n \in Hosts : ~At(n, "idle") =>
                   /\ lego[n] = issued
                   /\ job[n].ok => VisitDone(job[n].host, job[n].pc)

CertInv ==
    TypeOK /\ OneJob /\ Served /\ Restartable /\ VisitedIsUp /\ VisitSoFar

-----------------------------------------------------------------------------
(***************************************************************************)
(* Types.                                                                  *)
(***************************************************************************)
\* The list of hosts, visited from its head.
LEMMA TodoFacts ==
    /\ Haproxies \in Suffixes(Haproxies) /\ <<>> \in Suffixes(Haproxies)
    /\ Range(Haproxies) = Hosts /\ Range(<<>>) = {}
    /\ \A s \in Suffixes(Haproxies) :
          /\ s \in Seq(Hosts) /\ Range(s) \subseteq Hosts
          /\ s # <<>> => /\ Head(s) \in Hosts
                         /\ Tail(s) \in Suffixes(Haproxies)
                         /\ Range(s) = {Head(s)} \cup Range(Tail(s))
<1>1. Haproxies \in Seq(Hosts) /\ Len(Haproxies) \in Nat
  BY CertSyncAssumption, LenProperties
<1>2. Haproxies \in Suffixes(Haproxies) /\ <<>> \in Suffixes(Haproxies)
  <2>1. CASE Haproxies = <<>>
    BY <2>1 DEF Suffixes
  <2>2. CASE Haproxies # <<>>
    <3>1. 1 \in 1..Len(Haproxies)
      BY <1>1, <2>2, EmptySeq
    <3>2. SubSeq(Haproxies, 1, Len(Haproxies)) = Haproxies
      BY <1>1, SubSeqFull
    <3> QED BY <3>1, <3>2 DEF Suffixes
  <2> QED BY <2>1, <2>2
<1>3. Range(Haproxies) = Hosts /\ Range(<<>>) = {}
  BY DEF Hosts, Range
<1>4. ASSUME NEW s \in Suffixes(Haproxies)
      PROVE  s \in Seq(Hosts) /\ Range(s) \subseteq Hosts
  <2>1. ASSUME NEW l \in 1..Len(Haproxies)
        PROVE  SubSeq(Haproxies, l, Len(Haproxies)) \in Seq(Hosts)
    <3>1. \A i \in l..Len(Haproxies) : Haproxies[i] \in Hosts
      BY <1>1, ElementOfSeq
    <3> QED BY <1>1, <3>1, SubSeqProperties
  <2>2. <<>> \in Seq(Hosts)
    BY EmptySeq
  <2>3. s \in Seq(Hosts)
    BY <2>1, <2>2 DEF Suffixes
  <2> QED BY <2>3, RangeOfSeq
<1>5. ASSUME NEW s \in Suffixes(Haproxies), s # <<>>
      PROVE  Tail(s) \in Suffixes(Haproxies)
  <2>1. PICK l \in 1..Len(Haproxies) : s = SubSeq(Haproxies, l, Len(Haproxies))
    BY <1>5 DEF Suffixes
  <2>2. Tail(s) = SubSeq(Haproxies, l + 1, Len(Haproxies))
    BY <1>1, <2>1, HeadTailOfSubSeq
  <2>3. CASE l = Len(Haproxies)
    <3>1. l + 1 \in Int /\ Len(Haproxies) \in Int /\ Len(Haproxies) < l + 1
      BY <1>1, <2>3
    <3> QED BY <1>2, <2>2, <3>1, SubSeqEmpty
  <2>4. CASE l # Len(Haproxies)
    <3>1. l + 1 \in 1..Len(Haproxies)
      BY <1>1, <2>4
    <3>2. SubSeq(Haproxies, l + 1, Len(Haproxies)) \in Suffixes(Haproxies)
      BY <3>1 DEF Suffixes
    <3> QED BY <2>2, <3>2
  <2> QED BY <2>3, <2>4
<1>6. ASSUME NEW s \in Seq(Hosts), s # <<>>
      PROVE  /\ Head(s) \in Hosts
             /\ Range(s) = {Head(s)} \cup Range(Tail(s))
  <2>1. /\ Head(s) \in Hosts /\ Tail(s) \in Seq(Hosts)
        /\ Len(Tail(s)) = Len(s) - 1 /\ Len(s) \in Nat \ {0}
        /\ \A i \in 1..Len(Tail(s)) : Tail(s)[i] = s[i + 1]
    BY <1>6, HeadTailProperties, EmptySeq
  <2>2. Head(s) = s[1]
    BY <1>6
  <2>3. /\ Range(s) = {s[i] : i \in 1..Len(s)}
        /\ Range(Tail(s)) = {Tail(s)[i] : i \in 1..Len(Tail(s))}
    BY <1>6, <2>1, RangeEquality
  <2>4. ASSUME NEW i \in 1..Len(s), i # 1
        PROVE  i - 1 \in 1..Len(Tail(s)) /\ Tail(s)[i - 1] = s[i]
    <3>1. i - 1 \in 1..Len(Tail(s)) /\ (i - 1) + 1 = i
      BY <2>1, <2>4
    <3> QED BY <2>1, <3>1
  <2>5. ASSUME NEW i \in 1..Len(Tail(s))
        PROVE  i + 1 \in 1..Len(s) /\ Tail(s)[i] = s[i + 1]
    <3>1. i + 1 \in 1..Len(s)
      BY <2>1
    <3> QED BY <2>1, <3>1
  <2>6. 1 \in 1..Len(s)
    BY <2>1
  <2>7. Range(s) \subseteq {Head(s)} \cup Range(Tail(s))
    <3>1. ASSUME NEW i \in 1..Len(s) PROVE s[i] \in {Head(s)} \cup Range(Tail(s))
      BY <2>2, <2>3, <2>4
    <3> QED BY <2>3, <3>1
  <2>8. {Head(s)} \cup Range(Tail(s)) \subseteq Range(s)
    BY <2>2, <2>3, <2>5, <2>6
  <2> QED BY <2>1, <2>7, <2>8
<1> QED BY <1>2, <1>3, <1>4, <1>5, <1>6

Pcs == {"idle", "next", "lego", "pem", "set", "verify", "commit", "write",
        "remove"}

\* What a step of a job writes of it.
JobMoves(n, pc, todo, host, ok) ==
    /\ job'[n] \in Job
    /\ job'[n].pc = pc /\ job'[n].todo = todo /\ job'[n].host = host
    /\ job'[n].ok = ok
    /\ \A m \in Hosts : m # n => job'[m] = job[m]
    /\ job' \in [Hosts -> Job]

LEMMA JobFacts ==
    ASSUME TypeOK, NEW n \in Hosts
    PROVE  /\ job[n] \in Job /\ job[n].pc \in Pcs /\ job[n].host \in Hosts
           /\ job[n].todo \in Suffixes(Haproxies) /\ job[n].ok \in BOOLEAN
           /\ \A pc \in Pcs : job' = [job EXCEPT ![n].pc = pc] =>
                 JobMoves(n, pc, job[n].todo, job[n].host, job[n].ok)
           /\ \A pc \in Pcs :
                 job' = [job EXCEPT ![n].pc = pc, ![n].ok = FALSE] =>
                 JobMoves(n, pc, job[n].todo, job[n].host, FALSE)
           /\ \A pc \in Pcs, todo \in Suffixes(Haproxies), h \in Hosts :
                 job' = [job EXCEPT ![n] = [pc |-> pc, todo |-> todo,
                                            host |-> h, ok |-> TRUE]] =>
                 JobMoves(n, pc, todo, h, TRUE)
           /\ \A pc \in Pcs, todo \in Suffixes(Haproxies) :
                 job' = [job EXCEPT ![n] = [job[n] EXCEPT !.pc = pc, !.todo = todo]] =>
                 JobMoves(n, pc, todo, job[n].host, job[n].ok)
<1>1. job \in [Hosts -> Job]
  BY DEF TypeOK
<1>2. /\ job[n] \in Job /\ job[n].pc \in Pcs /\ job[n].host \in Hosts
      /\ job[n].todo \in Suffixes(Haproxies) /\ job[n].ok \in BOOLEAN
  BY <1>1 DEF Job, Pcs
<1>3. ASSUME NEW r \in Job, job' = [job EXCEPT ![n] = r]
      PROVE  JobMoves(n, r.pc, r.todo, r.host, r.ok)
  <2>1. job' \in [Hosts -> Job] /\ job'[n] = r
    BY <1>1, <1>3
  <2>2. \A m \in Hosts : m # n => job'[m] = job[m]
    BY <1>1, <1>3
  <2> QED BY <2>1, <2>2 DEF JobMoves
<1>4. ASSUME NEW pc \in Pcs, job' = [job EXCEPT ![n].pc = pc]
      PROVE  JobMoves(n, pc, job[n].todo, job[n].host, job[n].ok)
  <2> DEFINE r == [job[n] EXCEPT !.pc = pc]
  <2>1. /\ r \in Job /\ r.pc = pc /\ r.todo = job[n].todo /\ r.host = job[n].host
        /\ r.ok = job[n].ok
    BY <1>2 DEF Job, Pcs
  <2> QED BY <1>3, <1>4, <2>1
<1>5. ASSUME NEW pc \in Pcs, job' = [job EXCEPT ![n].pc = pc, ![n].ok = FALSE]
      PROVE  JobMoves(n, pc, job[n].todo, job[n].host, FALSE)
  <2> DEFINE r == [job[n] EXCEPT !.pc = pc, !.ok = FALSE]
  <2>1. /\ r \in Job /\ r.pc = pc /\ r.todo = job[n].todo /\ r.host = job[n].host
        /\ r.ok = FALSE
    BY <1>2 DEF Job, Pcs
  <2>2. job' = [job EXCEPT ![n] = r]
    BY <1>1, <1>5
  <2> QED BY <1>3, <2>1, <2>2
<1>6. ASSUME NEW pc \in Pcs, NEW todo \in Suffixes(Haproxies), NEW h \in Hosts,
             job' = [job EXCEPT ![n] = [pc |-> pc, todo |-> todo,
                                        host |-> h, ok |-> TRUE]]
      PROVE  JobMoves(n, pc, todo, h, TRUE)
  <2> DEFINE r == [pc |-> pc, todo |-> todo, host |-> h, ok |-> TRUE]
  <2>1. r \in Job
    BY DEF Job, Pcs
  <2> QED BY <1>3, <1>6, <2>1
<1>7. ASSUME NEW pc \in Pcs, NEW todo \in Suffixes(Haproxies),
             job' = [job EXCEPT ![n] = [job[n] EXCEPT !.pc = pc, !.todo = todo]]
      PROVE  JobMoves(n, pc, todo, job[n].host, job[n].ok)
  <2> DEFINE r == [job[n] EXCEPT !.pc = pc, !.todo = todo]
  <2>1. /\ r \in Job /\ r.pc = pc /\ r.todo = todo /\ r.host = job[n].host
        /\ r.ok = job[n].ok
    BY <1>2 DEF Job, Pcs
  <2> QED BY <1>3, <1>7, <2>1
<1> QED BY <1>2, <1>4, <1>5, <1>6, <1>7

LEMMA StepFacts ==
    ASSUME TypeOK, NEW n \in Hosts, NEW from \in Pcs, NEW to \in Pcs,
           Step(n, from, to)
    PROVE  /\ job[n].pc = from /\ job[n].host \in up
           /\ JobMoves(n, to, job[n].todo, job[n].host, job[n].ok)
BY JobFacts DEF Step, At

\* What a stopping job leaves of the file it writes.
LEMMA CutFacts ==
    ASSUME TypeOK, NEW jobs \in SUBSET Hosts, WriteCut(jobs)
    PROVE  /\ disk' \in [Hosts -> Cert \cup {Torn}]
           /\ \A h \in Hosts : disk'[h] # disk[h] =>
                 \E n \in jobs : At(n, "write") /\ job[n].host = h
<1>1. disk \in [Hosts -> Cert \cup {Torn}]
  BY DEF TypeOK
<1>2. CASE disk' = disk
  BY <1>1, <1>2
<1>3. ASSUME NEW n \in jobs, At(n, "write"),
             disk' = [disk EXCEPT ![job[n].host] = Torn]
      PROVE  /\ disk' \in [Hosts -> Cert \cup {Torn}]
             /\ \A h \in Hosts : disk'[h] # disk[h] => job[n].host = h
  BY <1>1, <1>3
<1> QED BY <1>2, <1>3 DEF WriteCut

\* The jobs after a host stopped.
LEMMA DownFacts ==
    ASSUME TypeOK, NEW h \in Hosts, HostDown(h)
    PROVE  /\ job' \in [Hosts -> Job]
           /\ \A n \in Hosts :
                 /\ job'[n].todo = job[n].todo /\ job'[n].host = job[n].host
                 /\ job'[n].ok = job[n].ok
                 /\ \/ n = h /\ job'[n].pc = "idle"
                    \/ n # h /\ Updates(n) /\ job[n].host = h /\ job'[n].pc = "next"
                    \/ /\ n # h /\ ~(Updates(n) /\ job[n].host = h)
                       /\ job'[n].pc = job[n].pc
           /\ disk' \in [Hosts -> Cert \cup {Torn}]
           /\ \A x \in Hosts : disk'[x] # disk[x] =>
                 \E n \in Hosts : /\ At(n, "write") /\ job[n].host = x
                                  /\ n = h \/ x = h
<1> DEFINE visitors == {n \in Hosts \ {h} : Updates(n) /\ job[n].host = h}
           jobs == [n \in Hosts |->
                      CASE n = h -> [job[n] EXCEPT !.pc = "idle"]
                        [] n \in visitors -> [job[n] EXCEPT !.pc = "next"]
                        [] OTHER -> job[n]]
<1>1. job' = jobs /\ WriteCut({h} \cup visitors)
  BY DEF HostDown
<1>2. ASSUME NEW n \in Hosts
      PROVE  /\ jobs[n] \in Job
             /\ jobs[n].todo = job[n].todo /\ jobs[n].host = job[n].host
             /\ jobs[n].ok = job[n].ok
             /\ \/ n = h /\ jobs[n].pc = "idle"
                \/ n # h /\ n \in visitors /\ jobs[n].pc = "next"
                \/ n # h /\ n \notin visitors /\ jobs[n].pc = job[n].pc
  <2>1. job[n] \in Job
    BY JobFacts
  <2>2. CASE n = h
    <3>1. jobs[n] = [job[n] EXCEPT !.pc = "idle"]
      BY <2>2
    <3> QED BY <2>1, <2>2, <3>1 DEF Job
  <2>3. CASE n # h /\ n \in visitors
    <3>1. jobs[n] = [job[n] EXCEPT !.pc = "next"]
      BY <2>3
    <3> QED BY <2>1, <2>3, <3>1 DEF Job
  <2>4. CASE n # h /\ n \notin visitors
    <3>1. jobs[n] = job[n]
      BY <2>4
    <3> QED BY <2>1, <2>4, <3>1
  <2> QED BY <2>2, <2>3, <2>4
<1>3. jobs \in [Hosts -> Job]
  BY <1>2
<1>4. {h} \cup visitors \in SUBSET Hosts
  OBVIOUS
<1>5. /\ disk' \in [Hosts -> Cert \cup {Torn}]
      /\ \A x \in Hosts : disk'[x] # disk[x] =>
            \E n \in {h} \cup visitors : At(n, "write") /\ job[n].host = x
  BY <1>1, <1>4, CutFacts
<1> QED BY <1>1, <1>2, <1>3, <1>5

LEMMA TypeStep ==
    ASSUME TypeOK, [Next]_vars
    PROVE  TypeOK'
<1> USE DEF TypeOK, certs
<1>1. ASSUME NEW n \in Hosts, Obtain(n) PROVE TypeOK'
  <2>1. issued' \in Cert /\ lego' \in [Hosts -> Cert \cup {NoCert}]
    BY <1>1, CertSyncAssumption DEF Obtain, Cert
  <2>2. job' \in [Hosts -> Job]
    <3>1. job' = [job EXCEPT ![n] = [job[n] EXCEPT !.pc = "next", !.todo = Haproxies]]
      BY <1>1 DEF Obtain
    <3>2. "next" \in Pcs /\ Haproxies \in Suffixes(Haproxies)
      BY TodoFacts DEF Pcs
    <3> QED BY <3>1, <3>2, JobFacts DEF JobMoves
  <2>3. overlap' \in BOOLEAN
    BY <1>1 DEF Obtain
  <2> QED BY <1>1, <2>1, <2>2, <2>3 DEF Obtain
<1>2. ASSUME NEW n \in Hosts, ObtainFails(n) PROVE TypeOK'
  BY <1>2 DEF ObtainFails
<1>3. ASSUME NEW n \in Hosts, NextHost(n) PROVE TypeOK'
  <2> DEFINE h == Head(job[n].todo)
             pc == IF h \in LooksLocal[n] THEN "pem" ELSE "lego"
  <2>1. job' = [job EXCEPT ![n] = [pc |-> pc, todo |-> Tail(job[n].todo),
                                   host |-> h, ok |-> TRUE]]
    BY <1>3 DEF NextHost
  <2>2. pc \in Pcs /\ h \in Hosts /\ Tail(job[n].todo) \in Suffixes(Haproxies)
    BY <1>3, TodoFacts, JobFacts DEF NextHost, Pcs
  <2>3. job' \in [Hosts -> Job]
    <3> HIDE DEF pc, h
    <3> QED BY <2>1, <2>2, JobFacts DEF JobMoves
  <2> QED BY <1>3, <2>3 DEF NextHost
<1>4. ASSUME NEW n \in Hosts, HookDone(n) PROVE TypeOK'
  <2>1. job' \in [Hosts -> Job]
    BY <1>4, JobFacts DEF HookDone, JobMoves, Pcs
  <2> QED BY <1>4, <2>1 DEF HookDone
<1>5. ASSUME NEW n \in Hosts, RsyncLego(n) PROVE TypeOK'
  BY <1>5, StepFacts DEF RsyncLego, JobMoves, Pcs
<1>6. ASSUME NEW n \in Hosts, RsyncPem(n) PROVE TypeOK'
  BY <1>6, StepFacts DEF RsyncPem, JobMoves, Pcs
<1>7. ASSUME NEW n \in Hosts, RsyncFails(n) PROVE TypeOK'
  <2>1. \E pc \in Pcs : job' = [job EXCEPT ![n].pc = pc, ![n].ok = FALSE]
    BY <1>7 DEF RsyncFails, Pcs
  <2>2. job' \in [Hosts -> Job]
    BY <2>1, JobFacts DEF JobMoves
  <2> QED BY <1>7, <2>2 DEF RsyncFails
<1>8. ASSUME NEW n \in Hosts, SetCert(n) PROVE TypeOK'
  <2>1. job[n].host \in Hosts /\ incoming[job[n].host] # NoCert
    BY <1>8, JobFacts DEF SetCert
  <2> QED BY <1>8, <2>1, StepFacts DEF SetCert, JobMoves, Pcs
<1>9. ASSUME NEW n \in Hosts, Verify(n) PROVE TypeOK'
  BY <1>9, StepFacts DEF Verify, JobMoves, Pcs
<1>10. ASSUME NEW n \in Hosts, Commit(n) PROVE TypeOK'
  <2>1. job[n].host \in Hosts /\ transaction[job[n].host] \in Cert
    BY <1>10, JobFacts DEF Commit
  <2> QED BY <1>10, <2>1, StepFacts DEF Commit, JobMoves, Pcs
<1>11. ASSUME NEW n \in Hosts, WriteToDisk(n) PROVE TypeOK'
  <2>1. job[n].host \in Hosts
    BY JobFacts
  <2>2. (IF incoming[job[n].host] = NoCert THEN disk[job[n].host]
         ELSE incoming[job[n].host]) \in Cert \cup {Torn}
    BY <2>1
  <2>3. disk' \in [Hosts -> Cert \cup {Torn}]
    BY <1>11, <2>1, <2>2 DEF WriteToDisk
  <2> QED BY <1>11, <2>3, StepFacts DEF WriteToDisk, JobMoves, Pcs
<1>12. ASSUME NEW n \in Hosts, WriteFails(n) PROVE TypeOK'
  <2>1. job' \in [Hosts -> Job]
    BY <1>12, JobFacts DEF WriteFails, JobMoves, Pcs
  <2> QED BY <1>12, <2>1 DEF WriteFails
<1>13. ASSUME NEW n \in Hosts, RemoveIncoming(n) PROVE TypeOK'
  <2>1. missed' \subseteq Hosts
    BY <1>13, JobFacts DEF RemoveIncoming
  <2> QED BY <1>13, <2>1, StepFacts DEF RemoveIncoming, JobMoves, Pcs
<1>14. ASSUME NEW n \in Hosts, UpdateFails(n) PROVE TypeOK'
  <2>1. job' \in [Hosts -> Job]
    BY <1>14, JobFacts DEF UpdateFails, JobMoves, Pcs
  <2>2. disk' \in [Hosts -> Cert \cup {Torn}]
    <3>1. {n} \in SUBSET Hosts
      OBVIOUS
    <3> QED BY <1>14, <3>1, CutFacts DEF UpdateFails
  <2>3. missed' \subseteq Hosts
    BY <1>14, JobFacts DEF UpdateFails
  <2> QED BY <1>14, <2>1, <2>2, <2>3 DEF UpdateFails
<1>15. ASSUME NEW h \in Hosts, RestartHaproxy(h) PROVE TypeOK'
  <2>1. job' \in [Hosts -> Job]
    <3>1. ASSUME NEW n \in Hosts PROVE [job[n] EXCEPT !.ok = FALSE] \in Job
      <4>1. job[n] \in Job
        BY JobFacts
      <4> HIDE DEF TypeOK
      <4> QED BY <4>1 DEF Job
    <3>2. \A n \in Hosts : (IF At(n, "write") /\ job[n].host = h
                            THEN [job[n] EXCEPT !.ok = FALSE] ELSE job[n]) \in Job
      BY <3>1
    <3> QED BY <1>15, <3>2 DEF RestartHaproxy
  <2> QED BY <1>15, <2>1, CertSyncAssumption DEF RestartHaproxy, LoadFromDisk, Outage
<1>16. ASSUME NEW h \in Hosts, HostDown(h) PROVE TypeOK'
  <2>1. missed' \subseteq Hosts
    <3>1. Range(job[h].todo) \subseteq Hosts /\ job[h].host \in Hosts
      BY TodoFacts, JobFacts
    <3> QED BY <1>16, <3>1 DEF HostDown
  <2>2. job' \in [Hosts -> Job] /\ disk' \in [Hosts -> Cert \cup {Torn}]
    BY <1>16, DownFacts
  <2>3. /\ up' = up \ {h} /\ outages < MaxOutages /\ outages' = outages + 1
        /\ UNCHANGED <<vip, issued, lego, incoming, transaction, memory, overlap>>
    BY <1>16 DEF HostDown, Outage
  <2> QED BY <2>1, <2>2, <2>3, CertSyncAssumption
<1>17. ASSUME NEW h \in Hosts, HostUp(h) PROVE TypeOK'
  BY <1>17 DEF HostUp, LoadFromDisk
<1>18. CASE MoveVip
  BY <1>18, CertSyncAssumption DEF MoveVip, Outage
<1>19. CASE UNCHANGED vars
  BY <1>19 DEF vars
<1> QED BY <1>1, <1>2, <1>3, <1>4, <1>5, <1>6, <1>7, <1>8, <1>9, <1>10, <1>11,
           <1>12, <1>13, <1>14, <1>15, <1>16, <1>17, <1>18, <1>19
        DEF Next, Visit

-----------------------------------------------------------------------------
(***************************************************************************)
(* Who runs.                                                               *)
(***************************************************************************)
\* A visit is a job's own affair.
LEMMA VisitFacts ==
    ASSUME TypeOK, NEW n \in Hosts, Visit(n)
    PROVE  /\ ~At(n, "idle") /\ \A m \in Hosts : m # n => job'[m] = job[m]
           /\ UNCHANGED <<vip, up, issued, overlap>>
           /\ job'[n].pc \in {"verify", "commit", "write", "remove"} =>
                 job[n].host \in up /\ job'[n].host = job[n].host
<1> USE DEF JobMoves, Pcs
<1>1. CASE NextHost(n)
  <2> DEFINE h == Head(job[n].todo)
             pc == IF h \in LooksLocal[n] THEN "pem" ELSE "lego"
  <2>1. /\ job' = [job EXCEPT ![n] = [pc |-> pc, todo |-> Tail(job[n].todo),
                                      host |-> h, ok |-> TRUE]]
        /\ At(n, "next") /\ UNCHANGED <<vip, up, issued, overlap>>
    BY <1>1 DEF NextHost
  <2>2. job \in [Hosts -> Job]
    BY DEF TypeOK
  <2>3. job'[n].pc = pc /\ \A m \in Hosts : m # n => job'[m] = job[m]
    BY <2>1, <2>2
  <2> QED BY <2>1, <2>3 DEF At
<1>2. CASE HookDone(n)
  BY <1>2, JobFacts DEF HookDone, At
<1>3. CASE RsyncLego(n)
  BY <1>3, StepFacts DEF RsyncLego, At
<1>4. CASE RsyncPem(n)
  BY <1>4, StepFacts DEF RsyncPem, At
<1>5. CASE RsyncFails(n)
  <2>1. /\ job[n].pc \in {"lego", "pem"} /\ UNCHANGED <<vip, up, issued, overlap>>
        /\ \E pc \in {"pem", "set"} :
              job' = [job EXCEPT ![n].pc = pc, ![n].ok = FALSE]
    BY <1>5 DEF RsyncFails
  <2> QED BY <2>1, JobFacts DEF At
<1>6. CASE SetCert(n)
  BY <1>6, StepFacts DEF SetCert, At
<1>7. CASE Verify(n)
  BY <1>7, StepFacts DEF Verify, At
<1>8. CASE Commit(n)
  BY <1>8, StepFacts DEF Commit, At
<1>9. CASE WriteToDisk(n)
  BY <1>9, StepFacts DEF WriteToDisk, At
<1>10. CASE WriteFails(n)
  BY <1>10, JobFacts DEF WriteFails, At
<1>11. CASE RemoveIncoming(n)
  BY <1>11, StepFacts DEF RemoveIncoming, At
<1>12. CASE UpdateFails(n)
  BY <1>12, JobFacts DEF UpdateFails, Updates, At
<1> QED BY <1>1, <1>2, <1>3, <1>4, <1>5, <1>6, <1>7, <1>8, <1>9, <1>10, <1>11,
           <1>12 DEF Visit

LEMMA RestartFacts ==
    ASSUME TypeOK, NEW h \in Hosts, RestartHaproxy(h), NEW n \in Hosts
    PROVE  /\ job'[n].pc = job[n].pc /\ job'[n].todo = job[n].todo
           /\ job'[n].host = job[n].host
           /\ job'[n].ok => /\ job[n].ok
                            /\ ~(At(n, "write") /\ job[n].host = h)
<1>1. job'[n] = IF At(n, "write") /\ job[n].host = h
                THEN [job[n] EXCEPT !.ok = FALSE] ELSE job[n]
  BY DEF RestartHaproxy
<1>2. job[n] \in Job
  BY JobFacts
<1> QED BY <1>1, <1>2 DEF Job

LEMMA OneJobStep ==
    ASSUME TypeOK, OneJob, [Next]_vars
    PROVE  OneJob'
<1>1. ASSUME overlap' = overlap,
             \A n \in Hosts : job'[n].pc # "idle" => job[n].pc # "idle"
      PROVE  OneJob'
  BY <1>1 DEF OneJob, At
<1>2. ASSUME NEW n \in Hosts, Obtain(n) PROVE OneJob'
  <2>1. job' = [job EXCEPT ![n] = [job[n] EXCEPT !.pc = "next", !.todo = Haproxies]]
    BY <1>2 DEF Obtain
  <2>2. job \in [Hosts -> Job]
    BY DEF TypeOK
  <2>3. \A m \in Hosts : m # n => job'[m] = job[m]
    BY <2>1, <2>2
  <2>4. ~overlap' => \A m \in Hosts : job[m].pc = "idle"
    BY <1>2 DEF Obtain
  <2> QED BY <2>3, <2>4 DEF OneJob, At
<1>3. ASSUME NEW n \in Hosts, Visit(n) PROVE OneJob'
  BY <1>1, <1>3, VisitFacts DEF At
<1>4. ASSUME NEW h \in Hosts, RestartHaproxy(h) PROVE OneJob'
  BY <1>1, <1>4, RestartFacts DEF RestartHaproxy
<1>5. ASSUME NEW h \in Hosts, HostDown(h) PROVE OneJob'
  <2>1. overlap' = overlap
    BY <1>5 DEF HostDown
  <2>2. \A n \in Hosts : job'[n].pc # "idle" => job[n].pc # "idle"
    BY <1>5, DownFacts DEF Updates
  <2> QED BY <1>1, <2>1, <2>2
<1>6. ASSUME NEW h \in Hosts, ObtainFails(h) \/ HostUp(h) PROVE OneJob'
  BY <1>1, <1>6 DEF ObtainFails, HostUp
<1>7. CASE MoveVip \/ UNCHANGED vars
  BY <1>1, <1>7 DEF MoveVip, vars
<1> QED BY <1>2, <1>3, <1>4, <1>5, <1>6, <1>7 DEF Next

LEMMA VisitedIsUpStep ==
    ASSUME TypeOK, VisitedIsUp, [Next]_vars
    PROVE  VisitedIsUp'
<1> DEFINE late == {"verify", "commit", "write", "remove"}
<1>1. ASSUME up \subseteq up',
             \A n \in Hosts : job'[n].pc \in late =>
                                 job[n].pc \in late /\ job'[n].host = job[n].host
      PROVE  VisitedIsUp'
  BY <1>1 DEF VisitedIsUp
<1>2. ASSUME NEW n \in Hosts, Obtain(n) PROVE VisitedIsUp'
  <2>1. JobMoves(n, "next", Haproxies, job[n].host, job[n].ok)
    BY <1>2, JobFacts, TodoFacts DEF Obtain, Pcs
  <2> QED BY <1>1, <1>2, <2>1 DEF JobMoves, Obtain
<1>3. ASSUME NEW n \in Hosts, Visit(n) PROVE VisitedIsUp'
  BY <1>3, VisitFacts DEF VisitedIsUp
<1>4. ASSUME NEW h \in Hosts, RestartHaproxy(h) PROVE VisitedIsUp'
  BY <1>1, <1>4, RestartFacts DEF RestartHaproxy
<1>5. ASSUME NEW h \in Hosts, HostDown(h) PROVE VisitedIsUp'
  <2>1. up' = up \ {h}
    BY <1>5 DEF HostDown
  <2>2. \A n \in Hosts : job'[n].pc \in late =>
           /\ job[n].pc \in late /\ job'[n].host = job[n].host
           /\ job[n].host # h
    BY <1>5, DownFacts DEF Updates
  <2> QED BY <2>1, <2>2 DEF VisitedIsUp
<1>6. ASSUME NEW h \in Hosts, ObtainFails(h) \/ HostUp(h) PROVE VisitedIsUp'
  BY <1>1, <1>6 DEF ObtainFails, HostUp
<1>7. CASE MoveVip \/ UNCHANGED vars
  BY <1>1, <1>7 DEF MoveVip, vars
<1> QED BY <1>2, <1>3, <1>4, <1>5, <1>6, <1>7 DEF Next

-----------------------------------------------------------------------------
(***************************************************************************)
(* The visits.                                                             *)
(***************************************************************************)
\* What every step of the visit of one host has in common.
Visiting(n) ==
    /\ overlap' = overlap /\ issued' = issued /\ missed' = missed
    /\ job[n].pc \notin {"idle", "next"} /\ job'[n].pc \notin {"idle", "next"}
    /\ job'[n].host = job[n].host /\ job'[n].todo = job[n].todo
    /\ \A m \in Hosts : m # n => job'[m] = job[m]
    /\ \A x \in Hosts : x # job[n].host =>
          /\ memory'[x] = memory[x] /\ disk'[x] = disk[x]
          /\ lego'[x] = lego[x] /\ incoming'[x] = incoming[x]

LEMMA VisitingKeeps ==
    ASSUME Served, Restartable, NEW n \in Hosts, Visiting(n)
    PROVE  Served' /\ Restartable'
<1>1. \A m, x \in Hosts : (IsDue(m, x) => IsDue(m, x)') /\ (Visits(m, x) => Visits(m, x)')
  BY DEF Visiting, IsDue, Visits, At
<1>2. Visits(n, job[n].host)' /\ IsDue(n, job[n].host)
  BY DEF Visiting, IsDue, Visits
<1>3. \A x \in Hosts : x # job[n].host /\ Serves(x) => Serves(x)'
  BY DEF Visiting, Serves, HasLego
<1>4. Served'
  BY <1>1, <1>2, <1>3 DEF Served, Visiting
<1>5. Restartable'
  BY <1>1, <1>2 DEF Restartable, Visiting
<1> QED BY <1>4, <1>5

LEMMA VisitGoal ==
    ASSUME CertInv, NEW n \in Hosts, Visit(n),
           ~overlap => /\ lego'[n] = issued
                       /\ job'[n].ok => VisitDone(job[n].host, job[n].pc)'
    PROVE  VisitSoFar'
<1>1. \A m \in Hosts : m # n => job'[m] = job[m]
  BY VisitFacts DEF CertInv
<1>2. ~overlap => \A m \in Hosts : m # n => At(m, "idle")
  BY VisitFacts DEF CertInv, OneJob
<1> QED BY <1>1, <1>2, VisitFacts DEF CertInv, VisitSoFar, At

\* The state at the beginning of a step of job n.
LEMMA VisitNow ==
    ASSUME CertInv, NEW n \in Hosts, Visit(n), ~overlap
    PROVE  /\ lego[n] = issued /\ issued # NoCert
           /\ job[n].ok => VisitDone(job[n].host, job[n].pc)
           /\ job[n].host \in Hosts
<1>1. issued # NoCert
  BY CertSyncAssumption DEF CertInv, TypeOK, Cert
<1> QED BY <1>1, VisitFacts, JobFacts DEF CertInv, VisitSoFar

Kept == Served /\ Restartable /\ VisitSoFar

LEMMA FilesSent ==
    ASSUME CertInv, NEW n \in Hosts, RsyncLego(n) \/ RsyncPem(n) \/ RsyncFails(n)
    PROVE  Kept'
<1> USE DEF JobMoves, Pcs
<1>0. Visit(n) /\ TypeOK
  BY DEF Visit, CertInv
<1>1. CASE RsyncLego(n)
  <2>1. /\ job[n].pc = "lego" /\ JobMoves(n, "pem", job[n].todo, job[n].host, job[n].ok)
    BY <1>0, <1>1, StepFacts DEF RsyncLego
  <2>2. /\ lego' = [lego EXCEPT ![job[n].host] = lego[n]]
        /\ UNCHANGED <<issued, incoming, transaction, memory, disk, missed, overlap>>
    BY <1>1 DEF RsyncLego
  <2>3. Visiting(n)
    BY <1>0, <2>1, <2>2 DEF Visiting, TypeOK
  <2>4. ~overlap => lego'[n] = issued /\ lego'[job[n].host] = issued
    BY <1>0, <2>2, VisitNow DEF TypeOK
  <2>5. ~overlap => VisitDone(job[n].host, job[n].pc)'
    BY <2>1, <2>2, <2>4 DEF VisitDone, HasLego
  <2> QED BY <1>0, <2>3, <2>4, <2>5, VisitingKeeps, VisitGoal DEF Kept, CertInv
<1>2. CASE RsyncPem(n)
  <2>1. /\ job[n].pc = "pem" /\ JobMoves(n, "set", job[n].todo, job[n].host, job[n].ok)
    BY <1>0, <1>2, StepFacts DEF RsyncPem
  <2>2. /\ incoming' = [incoming EXCEPT ![job[n].host] = lego[n]]
        /\ UNCHANGED <<issued, lego, transaction, memory, disk, missed, overlap>>
    BY <1>2 DEF RsyncPem
  <2>3. Visiting(n)
    BY <1>0, <2>1, <2>2 DEF Visiting, TypeOK
  <2>4. ~overlap => /\ lego'[n] = issued /\ incoming'[job[n].host] = issued
    BY <1>0, <2>2, VisitNow DEF TypeOK
  <2>5. ~overlap /\ job[n].ok => HasLego(job[n].host)'
    BY <1>0, <2>1, <2>2, VisitNow DEF VisitDone, HasLego
  <2>6. ~overlap /\ job[n].ok => VisitDone(job[n].host, job[n].pc)'
    BY <2>1, <2>2, <2>4, <2>5 DEF VisitDone
  <2> QED BY <1>0, <2>1, <2>3, <2>4, <2>6, VisitingKeeps, VisitGoal DEF Kept, CertInv
<1>3. CASE RsyncFails(n)
  <2>1. /\ job[n].pc \in {"lego", "pem"}
        /\ \E pc \in {"pem", "set"} :
              job' = [job EXCEPT ![n].pc = pc, ![n].ok = FALSE]
        /\ UNCHANGED <<issued, lego, incoming, transaction, memory, disk, missed,
                       overlap>>
    BY <1>3 DEF RsyncFails, certs
  <2>2. PICK pc \in {"pem", "set"} : JobMoves(n, pc, job[n].todo, job[n].host, FALSE)
    <3>1. PICK pc \in {"pem", "set"} :
             job' = [job EXCEPT ![n].pc = pc, ![n].ok = FALSE]
      BY <2>1
    <3>2. pc \in Pcs
      OBVIOUS
    <3> HIDE DEF JobMoves, Pcs
    <3>3. JobMoves(n, pc, job[n].todo, job[n].host, FALSE)
      BY <1>0, <3>1, <3>2, JobFacts
    <3> QED BY <3>3
  <2>3. Visiting(n)
    BY <2>1, <2>2 DEF Visiting
  <2>4. (~overlap => lego'[n] = issued) /\ ~job'[n].ok
    BY <1>0, <2>1, <2>2, VisitNow
  <2> QED BY <1>0, <2>3, <2>4, VisitingKeeps, VisitGoal DEF Kept, CertInv
<1> QED BY <1>1, <1>2, <1>3

LEMMA CertUpdated ==
    ASSUME CertInv, NEW n \in Hosts,
           SetCert(n) \/ Verify(n) \/ Commit(n) \/ WriteToDisk(n) \/ WriteFails(n)
    PROVE  Kept'
<1> USE DEF JobMoves, Pcs
<1> DEFINE h == job[n].host
<1>0. Visit(n) /\ TypeOK /\ h \in Hosts
  BY JobFacts DEF Visit, CertInv
<1>1. ASSUME Visiting(n), UNCHANGED lego,
             ~overlap /\ job'[n].ok => VisitDone(job[n].host, job[n].pc)'
      PROVE  Kept'
  BY <1>0, <1>1, VisitNow, VisitingKeeps, VisitGoal DEF Kept, CertInv
<1>2. CASE SetCert(n)
  <2>1. /\ job[n].pc = "set" /\ JobMoves(n, "verify", job[n].todo, h, job[n].ok)
    BY <1>0, <1>2, StepFacts DEF SetCert
  <2>2. /\ transaction' = [transaction EXCEPT ![h] = incoming[h]]
        /\ UNCHANGED <<issued, lego, incoming, memory, disk, missed, overlap>>
    BY <1>2 DEF SetCert
  <2>3. Visiting(n)
    BY <2>1, <2>2 DEF Visiting
  <2>4. transaction'[h] = incoming[h]
    BY <1>0, <2>2 DEF TypeOK
  <2>5. ~overlap /\ job[n].ok => VisitDone(job[n].host, job[n].pc)'
    BY <1>0, <2>1, <2>2, <2>4, VisitNow DEF VisitDone, HasLego
  <2> QED BY <1>1, <2>1, <2>2, <2>3, <2>5
<1>3. CASE Verify(n)
  <2>1. /\ job[n].pc = "verify" /\ JobMoves(n, "commit", job[n].todo, h, job[n].ok)
    BY <1>0, <1>3, StepFacts DEF Verify
  <2>2. UNCHANGED <<issued, lego, incoming, transaction, memory, disk, missed, overlap>>
    BY <1>3 DEF Verify, certs
  <2>3. Visiting(n)
    BY <2>1, <2>2 DEF Visiting
  <2>4. ~overlap /\ job[n].ok => VisitDone(job[n].host, job[n].pc)'
    BY <1>0, <2>1, <2>2, VisitNow DEF VisitDone, HasLego
  <2> QED BY <1>1, <2>1, <2>2, <2>3, <2>4
<1>4. CASE Commit(n)
  <2>1. /\ job[n].pc = "commit" /\ JobMoves(n, "write", job[n].todo, h, job[n].ok)
    BY <1>0, <1>4, StepFacts DEF Commit
  <2>2. /\ transaction[h] # NoCert
        /\ memory' = [memory EXCEPT ![h] = transaction[h]]
        /\ UNCHANGED <<issued, lego, incoming, disk, missed, overlap>>
    BY <1>4 DEF Commit
  <2>3. memory'[h] = transaction[h] /\ \A x \in Hosts : x # h => memory'[x] = memory[x]
    BY <1>0, <2>2 DEF TypeOK
  <2>4. Visiting(n)
    BY <2>1, <2>2, <2>3 DEF Visiting
  <2>5. ~overlap /\ job[n].ok => VisitDone(job[n].host, job[n].pc)'
    BY <1>0, <2>1, <2>2, <2>3, VisitNow DEF VisitDone, HasLego
  <2> QED BY <1>1, <2>1, <2>2, <2>4, <2>5
<1>5. CASE WriteToDisk(n)
  <2>1. /\ job[n].pc = "write" /\ JobMoves(n, "remove", job[n].todo, h, job[n].ok)
    BY <1>0, <1>5, StepFacts DEF WriteToDisk
  <2>2. /\ disk' = [disk EXCEPT ![h] = IF incoming[h] = NoCert THEN disk[h]
                                       ELSE incoming[h]]
        /\ UNCHANGED <<issued, lego, incoming, memory, missed, overlap>>
    BY <1>5 DEF WriteToDisk
  <2>3. /\ incoming[h] # NoCert => disk'[h] = incoming[h]
        /\ \A x \in Hosts : x # h => disk'[x] = disk[x]
    BY <1>0, <2>2 DEF TypeOK
  <2>4. Visiting(n)
    BY <2>1, <2>2, <2>3 DEF Visiting
  <2>5. ~overlap /\ job[n].ok => VisitDone(job[n].host, job[n].pc)'
    BY <1>0, <2>1, <2>2, <2>3, VisitNow DEF VisitDone, HasLego
  <2> QED BY <1>1, <2>1, <2>2, <2>4, <2>5
<1>6. CASE WriteFails(n)
  <2>1. /\ job[n].pc = "write" /\ JobMoves(n, "remove", job[n].todo, h, FALSE)
    BY <1>0, <1>6, JobFacts DEF WriteFails, At
  <2>2. /\ disk' \in {disk, [disk EXCEPT ![h] = Torn]}
        /\ UNCHANGED <<issued, lego, incoming, memory, missed, overlap>>
    BY <1>6 DEF WriteFails
  <2>3. \A x \in Hosts : x # h => disk'[x] = disk[x]
    BY <1>0, <2>2 DEF TypeOK
  <2>4. Visiting(n)
    BY <2>1, <2>2, <2>3 DEF Visiting
  <2> QED BY <1>1, <2>1, <2>2, <2>4
<1> QED BY <1>2, <1>3, <1>4, <1>5, <1>6

\* A visit begins or ends.
LEMMA VisitEnds ==
    ASSUME CertInv, NEW n \in Hosts,
           NextHost(n) \/ HookDone(n) \/ RemoveIncoming(n) \/ UpdateFails(n)
    PROVE  Kept'
<1> USE DEF JobMoves, Pcs
<1> DEFINE h == job[n].host
<1>0. Visit(n) /\ TypeOK /\ h \in Hosts
  BY JobFacts DEF Visit, CertInv
<1>1. CASE NextHost(n)
  <2> DEFINE s == job[n].todo
             x == Head(s)
             pc == IF x \in LooksLocal[n] THEN "pem" ELSE "lego"
  <2>1. /\ job[n].pc = "next" /\ s # <<>>
        /\ job' = [job EXCEPT ![n] = [pc |-> pc, todo |-> Tail(s),
                                      host |-> x, ok |-> TRUE]]
        /\ UNCHANGED <<issued, lego, incoming, transaction, memory, disk, missed,
                       overlap>>
    BY <1>1 DEF NextHost, At, certs
  <2>2. /\ x \in Hosts /\ Tail(s) \in Suffixes(Haproxies)
        /\ Range(s) = {x} \cup Range(Tail(s))
    <3>1. s \in Suffixes(Haproxies)
      BY <1>0, JobFacts
    <3> HIDE DEF s
    <3> QED BY <2>1, <3>1, TodoFacts DEF x
  <2>3. JobMoves(n, pc, Tail(s), x, TRUE)
    <3>1. pc \in Pcs
      OBVIOUS
    <3>2. Tail(s) \in Suffixes(Haproxies) /\ x \in Hosts
      BY <2>2
    <3>3. job' = [job EXCEPT ![n] = [pc |-> pc, todo |-> Tail(s),
                                     host |-> x, ok |-> TRUE]]
      BY <2>1
    <3> HIDE DEF pc, x, s, JobMoves, Pcs
    <3> QED BY <1>0, <3>1, <3>2, <3>3, JobFacts
  <2>4. pc \in {"pem", "lego"}
    OBVIOUS
  <2>5. \A m, y \in Hosts : /\ IsDue(m, y) => IsDue(m, y)'
                            /\ Visits(m, y) => Visits(m, y)'
    <3> HIDE DEF pc, x, s
    <3>1. \A y \in Hosts : IsDue(n, y) => y \in Range(s)
      BY <2>1 DEF IsDue, Visits, s
    <3>2. \A y \in Range(s) : IsDue(n, y)'
      BY <2>2, <2>3, <2>4 DEF IsDue, Visits, At
    <3>3. \A y \in Hosts : ~Visits(n, y)
      BY <2>1 DEF Visits
    <3>4. \A m, y \in Hosts : m # n => /\ IsDue(m, y) => IsDue(m, y)'
                                       /\ Visits(m, y) => Visits(m, y)'
      BY <2>3 DEF IsDue, Visits, At
    <3> QED BY <3>1, <3>2, <3>3, <3>4
  <2>6. Served' /\ Restartable'
    BY <2>1, <2>5 DEF Served, Restartable, Serves, HasLego, CertInv
  <2>7. ~overlap => VisitDone(job[n].host, job[n].pc)'
    <3>1. ASSUME pc = "pem", lego[n] = issued PROVE HasLego(x)
      <4>1. x \in LooksLocal[n]
        BY <3>1
      <4> HIDE DEF x
      <4> QED BY <3>1, <4>1 DEF HasLego
    <3> HIDE DEF pc, x, s
    <3> QED BY <1>0, <2>1, <2>3, <2>4, <3>1, VisitNow DEF VisitDone, HasLego
  <2>8. ~overlap => lego'[n] = issued
    BY <1>0, <2>1, VisitNow
  <2> QED BY <1>0, <2>6, <2>7, <2>8, VisitGoal DEF Kept
<1>2. CASE HookDone(n)
  <2>1. /\ job[n].pc = "next" /\ job[n].todo = <<>>
        /\ JobMoves(n, "idle", <<>>, h, job[n].ok)
        /\ UNCHANGED <<issued, lego, incoming, transaction, memory, disk, missed,
                       overlap>>
    BY <1>0, <1>2, JobFacts DEF HookDone, At, certs
  <2>2. \A m, y \in Hosts : /\ IsDue(m, y) => IsDue(m, y)'
                            /\ Visits(m, y) => Visits(m, y)'
    BY <2>1, TodoFacts DEF IsDue, Visits, At
  <2>3. Served' /\ Restartable'
    BY <2>1, <2>2 DEF Served, Restartable, Serves, HasLego, CertInv
  <2>4. VisitDone(job[n].host, job[n].pc)' /\ (~overlap => lego'[n] = issued)
    BY <1>0, <2>1, VisitNow DEF VisitDone
  <2> QED BY <1>0, <2>3, <2>4, VisitGoal DEF Kept
<1>3. ASSUME job'[n].pc = "next", job'[n].todo = job[n].todo,
             job'[n].host = h,
             \A m \in Hosts : m # n => job'[m] = job[m],
             UNCHANGED <<issued, lego, overlap>>,
             missed \ {h} \subseteq missed',
             \A x \in Hosts : x # h => /\ incoming'[x] = incoming[x]
                                       /\ memory'[x] = memory[x]
                                       /\ disk'[x] = disk[x],
             ~overlap => h \in missed' \/ Serves(h)'
      PROVE  Kept'
  <2>1. job[n].pc # "idle"
    BY <1>0, VisitFacts DEF At
  <2>2. \A m, y \in Hosts : y # h => /\ IsDue(m, y) => IsDue(m, y)'
                                     /\ Visits(m, y) => Visits(m, y)'
    BY <1>3, <2>1 DEF IsDue, Visits, At
  <2>3. \A y \in Hosts : y # h /\ Serves(y) => Serves(y)'
    BY <1>3 DEF Serves, HasLego
  <2>4. Serves(h)' => memory'[h] = disk'[h]
    BY <1>3 DEF Serves
  <2>5. \A y \in Hosts \ missed' : y = h \/ y \in Hosts \ missed
    BY <1>3
  <2>6. Served'
    BY <1>3, <2>2, <2>3, <2>5 DEF Served, CertInv
  <2>7. Restartable'
    BY <1>3, <2>2, <2>4, <2>5 DEF Restartable, CertInv
  <2>8. VisitDone(job[n].host, job[n].pc)' /\ (~overlap => lego'[n] = issued)
    BY <1>0, <1>3, VisitNow DEF VisitDone
  <2> QED BY <1>0, <2>6, <2>7, <2>8, VisitGoal DEF Kept
<1>4. CASE RemoveIncoming(n)
  <2>1. /\ job[n].pc = "remove" /\ JobMoves(n, "next", job[n].todo, h, job[n].ok)
    BY <1>0, <1>4, StepFacts DEF RemoveIncoming
  <2>2. /\ incoming' = [incoming EXCEPT ![h] = NoCert]
        /\ missed' = IF job[n].ok THEN missed \ {h} ELSE missed \cup {h}
        /\ UNCHANGED <<issued, lego, memory, disk, overlap>>
    BY <1>4 DEF RemoveIncoming
  <2>3. /\ incoming'[h] = NoCert
        /\ \A x \in Hosts : x # h => incoming'[x] = incoming[x]
    BY <1>0, <2>2 DEF TypeOK
  <2>4. ~overlap /\ job[n].ok => Serves(h)'
    BY <1>0, <2>1, <2>2, <2>3, VisitNow DEF VisitDone, Serves, HasLego
  <2>5. ~overlap => h \in missed' \/ Serves(h)'
    BY <2>2, <2>4
  <2> QED BY <1>3, <2>1, <2>2, <2>3, <2>5
<1>5. CASE UpdateFails(n)
  <2>1. JobMoves(n, "next", job[n].todo, h, job[n].ok)
    BY <1>0, <1>5, JobFacts DEF UpdateFails
  <2>2. /\ WriteCut({n}) /\ missed' = missed \cup {h}
        /\ UNCHANGED <<issued, lego, incoming, memory, overlap>>
    BY <1>5 DEF UpdateFails
  <2>3. \A x \in Hosts : x # h => disk'[x] = disk[x]
    <3>1. {n} \in SUBSET Hosts
      OBVIOUS
    <3> QED BY <1>0, <2>2, <3>1, CutFacts
  <2> QED BY <1>3, <2>1, <2>2, <2>3
<1> QED BY <1>1, <1>2, <1>4, <1>5

-----------------------------------------------------------------------------
(***************************************************************************)
(* Renewals.                                                               *)
(***************************************************************************)
LEMMA Obtained ==
    ASSUME CertInv, NEW n \in Hosts, Obtain(n)
    PROVE  Kept'
<1> USE DEF CertInv
<1>0. JobMoves(n, "next", Haproxies, job[n].host, job[n].ok)
  <2>1. job' = [job EXCEPT ![n] = [job[n] EXCEPT !.pc = "next", !.todo = Haproxies]]
    BY DEF Obtain
  <2>2. "next" \in Pcs /\ Haproxies \in Suffixes(Haproxies)
    BY TodoFacts DEF Pcs
  <2> QED BY <2>1, <2>2, JobFacts
<1>1. /\ JobMoves(n, "next", Haproxies, job[n].host, job[n].ok)
      /\ lego' = [lego EXCEPT ![n] = issued + 1] /\ issued' = issued + 1
      /\ UNCHANGED <<incoming, memory, disk, missed>>
      /\ ~overlap' => ~overlap /\ \A m \in Hosts : At(m, "idle")
  BY <1>0 DEF Obtain, At
<1>2. \A x \in Hosts : IsDue(n, x)'
  BY <1>1, TodoFacts DEF JobMoves, IsDue, At
<1>3. Served'
  BY <1>2 DEF Served
<1>4. ~overlap' => \A m, x \in Hosts : ~Visits(m, x)
  BY <1>1 DEF Visits, At
<1>5. Restartable'
  BY <1>1, <1>4 DEF Restartable
<1>6. lego'[n] = issued'
  BY <1>1 DEF TypeOK
<1>7. VisitSoFar'
  BY <1>1, <1>6 DEF VisitSoFar, VisitDone, JobMoves, At
<1> QED BY <1>3, <1>5, <1>7 DEF Kept

LEMMA NotObtained ==
    ASSUME CertInv, NEW n \in Hosts, ObtainFails(n)
    PROVE  Kept'
<1> USE DEF CertInv
<1>1. /\ At(n, "idle") /\ lego' = [lego EXCEPT ![n] = NoCert]
      /\ UNCHANGED <<issued, incoming, transaction, memory, disk, job, missed, overlap>>
  BY DEF ObtainFails, Active, At
<1>2. lego'[n] = NoCert /\ \A x \in Hosts : x # n => lego'[x] = lego[x]
  BY <1>1 DEF TypeOK
<1>3. \A x \in Hosts : HasLego(x) => HasLego(x)'
  BY <1>1, <1>2 DEF HasLego
<1>4. Served'
  BY <1>1, <1>3 DEF Served, Serves, IsDue, Visits, At
<1>5. Restartable'
  BY <1>1 DEF Restartable, Visits
<1>6. ASSUME ~overlap, NEW m \in Hosts, ~At(m, "idle")
      PROVE  /\ lego'[m] = issued'
             /\ job[m].ok => VisitDone(job[m].host, job[m].pc)'
  <2>1. m # n /\ job[m].host \in Hosts
    BY <1>1, <1>6, JobFacts
  <2>2. /\ lego[m] = issued
        /\ job[m].ok => VisitDone(job[m].host, job[m].pc)
    BY <1>6 DEF VisitSoFar
  <2> QED BY <1>1, <1>2, <1>3, <2>1, <2>2 DEF VisitDone
<1>7. VisitSoFar'
  BY <1>1, <1>6 DEF VisitSoFar, At
<1> QED BY <1>4, <1>5, <1>7 DEF Kept

-----------------------------------------------------------------------------
(***************************************************************************)
(* Outages.                                                                *)
(***************************************************************************)
\* HAProxy of host h serves what its file has.
LEMMA Loaded ==
    ASSUME CertInv, NEW h \in Hosts, LoadFromDisk(h),
           UNCHANGED <<issued, lego, incoming, disk, missed, overlap>>,
           \A n \in Hosts :
              /\ job'[n].pc = job[n].pc /\ job'[n].todo = job[n].todo
              /\ job'[n].host = job[n].host
              /\ job'[n].ok => job[n].ok
              /\ job'[n].ok /\ job[n].pc = "write" => job[n].host # h
    PROVE  Kept'
<1> USE DEF CertInv
<1>1. /\ memory'[h] = disk[h] /\ transaction'[h] = NoCert
      /\ \A x \in Hosts : x # h => /\ memory'[x] = memory[x]
                                   /\ transaction'[x] = transaction[x]
  BY DEF LoadFromDisk, TypeOK
<1>2. \A n, x \in Hosts : /\ IsDue(n, x) => IsDue(n, x)'
                          /\ Visits(n, x) => Visits(n, x)'
  BY DEF IsDue, Visits, At
<1>3. \A x \in Hosts : Serves(x) => Serves(x)'
  BY <1>1 DEF Serves, HasLego
<1>4. Served' /\ Restartable'
  BY <1>1, <1>2, <1>3 DEF Served, Restartable
<1>5. ASSUME ~overlap, NEW n \in Hosts, ~At(n, "idle")'
      PROVE  /\ lego'[n] = issued'
             /\ job'[n].ok => VisitDone(job[n].host, job[n].pc)'
  <2>1. job[n].host \in Hosts
    BY JobFacts
  <2>2. /\ lego[n] = issued
        /\ job[n].ok => VisitDone(job[n].host, job[n].pc)
    BY <1>5 DEF VisitSoFar, At
  <2> QED BY <1>1, <2>1, <2>2 DEF VisitDone, HasLego
<1>6. VisitSoFar'
  BY <1>5 DEF VisitSoFar
<1> QED BY <1>4, <1>6 DEF Kept

LEMMA Stopped ==
    ASSUME CertInv, NEW h \in Hosts, HostDown(h)
    PROVE  Kept'
<1> USE DEF CertInv
<1>1. /\ UNCHANGED <<issued, lego, incoming, transaction, memory, overlap>>
      /\ missed \subseteq missed'
      /\ ~At(h, "idle") => Range(job[h].todo) \subseteq missed'
      /\ job[h].pc \notin {"idle", "next"} => job[h].host \in missed'
      /\ \A n \in Hosts : n # h /\ Updates(n) /\ job[n].host = h => h \in missed'
  BY DEF HostDown
<1>2. \A n \in Hosts :
         /\ job'[n].todo = job[n].todo /\ job'[n].host = job[n].host
         /\ job'[n].ok = job[n].ok
         /\ \/ n = h /\ job'[n].pc = "idle"
            \/ n # h /\ Updates(n) /\ job[n].host = h /\ job'[n].pc = "next"
            \/ /\ n # h /\ ~(Updates(n) /\ job[n].host = h)
               /\ job'[n].pc = job[n].pc
  BY DownFacts
<1>3. \A x \in Hosts : disk'[x] # disk[x] =>
         \E n \in Hosts : /\ At(n, "write") /\ job[n].host = x
                          /\ n = h \/ x = h
  BY DownFacts
<1>4. \A x \in Hosts \ missed' : disk'[x] = disk[x]
  BY <1>1, <1>3 DEF At, Updates
<1>5. \A n \in Hosts, x \in Hosts \ missed' : /\ IsDue(n, x) => IsDue(n, x)'
                                              /\ Visits(n, x) => Visits(n, x)'
  BY <1>1, <1>2 DEF IsDue, Visits, At, Updates
<1>6. \A x \in Hosts \ missed' : Serves(x) => Serves(x)'
  BY <1>1, <1>4 DEF Serves, HasLego
<1>7. Served' /\ Restartable'
  BY <1>1, <1>4, <1>5, <1>6 DEF Served, Restartable
<1>8. ASSUME ~overlap, NEW n \in Hosts, ~At(n, "idle")'
      PROVE  /\ lego'[n] = issued'
             /\ job'[n].ok => VisitDone(job[n].host, job[n].pc)'
  <2>1. n # h /\ ~At(n, "idle") /\ job[n].host \in Hosts
    BY <1>2, <1>8, JobFacts DEF At, Updates
  <2>2. /\ lego[n] = issued
        /\ job[n].ok => VisitDone(job[n].host, job[n].pc)
    BY <1>8, <2>1 DEF VisitSoFar
  <2>3. CASE job'[n].pc = "next"
    BY <1>1, <2>2, <2>3 DEF VisitDone
  <2>4. CASE job'[n].pc = job[n].pc
    <3>1. job[n].pc = "remove" => disk'[job[n].host] = disk[job[n].host]
      <4>1. \A m \in Hosts : At(m, "write") => m = n
        BY <1>8, <2>1 DEF OneJob, At
      <4> QED BY <1>3, <2>1, <4>1 DEF At
    <3> QED BY <1>1, <1>2, <2>2, <2>4, <3>1 DEF VisitDone, HasLego
  <2> QED BY <1>2, <2>1, <2>3, <2>4
<1>9. VisitSoFar'
  BY <1>1, <1>8 DEF VisitSoFar
<1> QED BY <1>7, <1>9 DEF Kept

-----------------------------------------------------------------------------
(***************************************************************************)
(* The theorems.                                                           *)
(***************************************************************************)
LEMMA KeptStep ==
    ASSUME CertInv, [Next]_vars
    PROVE  Kept'
<1>1. ASSUME NEW n \in Hosts, Visit(n) PROVE Kept'
  BY <1>1, FilesSent, CertUpdated, VisitEnds DEF Visit
<1>2. ASSUME NEW h \in Hosts, RestartHaproxy(h) PROVE Kept'
  <2>1. TypeOK /\ LoadFromDisk(h)
    BY <1>2 DEF RestartHaproxy, CertInv
  <2>2. UNCHANGED <<issued, lego, incoming, disk, missed, overlap>>
    BY <1>2 DEF RestartHaproxy
  <2> QED BY <1>2, <2>1, <2>2, Loaded, RestartFacts DEF At
<1>3. ASSUME NEW h \in Hosts, HostUp(h) PROVE Kept'
  <2>1. \A n \in Hosts : job[n].pc = "write" => job[n].host # h
    BY <1>3 DEF HostUp, CertInv, VisitedIsUp
  <2> QED BY <1>3, <2>1, Loaded DEF HostUp
<1>4. CASE MoveVip \/ UNCHANGED vars
  BY <1>4 DEF MoveVip, vars, certs, CertInv, Kept, Served, Serves, HasLego, IsDue,
              Visits, At, Restartable, VisitSoFar, VisitDone
<1> QED BY <1>1, <1>2, <1>3, <1>4, Obtained, NotObtained, Stopped DEF Next

LEMMA CertInit == Init => CertInv
<1> SUFFICES ASSUME Init PROVE CertInv
  OBVIOUS
<1>1. TypeOK
  <2>1. 0 \in Cert /\ 0 \in 0..MaxOutages
    BY CertSyncAssumption DEF Cert
  <2>2. job \in [Hosts -> Job]
    BY TodoFacts DEF Init, Job
  <2> QED BY <2>1, <2>2 DEF Init, TypeOK
<1>2. \A n \in Hosts : job[n].pc = "idle"
  BY DEF Init
<1>3. /\ OneJob /\ VisitedIsUp /\ VisitSoFar
  BY <1>2 DEF OneJob, VisitedIsUp, VisitSoFar, At
<1>4. Served /\ Restartable
  BY DEF Init, Served, Serves, HasLego, Restartable
<1> QED BY <1>1, <1>3, <1>4 DEF CertInv

\* Every variable of the renewal has its type: what HAProxy serves, and what
\* its file has, is a certificate or a torn file, never the absence of one.
THEOREM CertTypeCorrect == Spec => []TypeOK
<1>1. Init => TypeOK
  BY CertInit DEF CertInv
<1>2. TypeOK /\ [Next]_vars => TypeOK'
  BY TypeStep
<1> QED BY <1>1, <1>2, PTL DEF Spec

\* The invariant: what a visit has done so far, and who is still to be visited.
LEMMA CertInvAlways == Spec => []CertInv
<1>1. CertInv /\ [Next]_vars => CertInv'
  <2> SUFFICES ASSUME CertInv, [Next]_vars PROVE CertInv'
    OBVIOUS
  <2>1. TypeOK' /\ OneJob' /\ VisitedIsUp'
    BY TypeStep, OneJobStep, VisitedIsUpStep DEF CertInv
  <2> QED BY <2>1, KeptStep DEF CertInv, Kept
<1> QED BY <1>1, CertInit, PTL DEF Spec

\* After the hook (sync-and-update-certificate.sh), a host whose last visit
\* went well serves, keeps and would renew the last certificate.
THEOREM VisitedServe == Spec => []VisitedServesLast
<1>1. CertInv => VisitedServesLast
  BY DEF CertInv, VisitedServesLast, Served, Serves, HasLego, IsDue, Visits, At
<1> QED BY <1>1, CertInvAlways, PTL

\* HAProxy may restart at any time and serves what it served before, unless it
\* is being visited or its last visit went wrong.
THEOREM RestartsAreHarmless == Spec => []RestartIsHarmless
<1>1. CertInv => RestartIsHarmless
  BY DEF CertInv, RestartIsHarmless, Restartable, Visits, At
<1> QED BY <1>1, CertInvAlways, PTL
=============================================================================
