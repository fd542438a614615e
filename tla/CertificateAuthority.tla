------------------------ MODULE CertificateAuthority ------------------------
(***************************************************************************)
(* The files of the certificate authority (apps/server/lib/ca.js) and the  *)
(* processes that read and rewrite them: commands of the administrator     *)
(* (issue, issue-server, revoke), each of which may stop between any two   *)
(* file operations (a crash, a failing openssl, a full disk), and the      *)
(* tunnel server, which adds connected clients to the index of domains     *)
(* (MultiClientManager.ensureIssuedDomains).                               *)
(*                                                                         *)
(* One action is one file operation.  JSON files are replaced by rename,   *)
(* and a line is appended, at once; the counter is truncated first, then   *)
(* written.  Keys, names and dates are left out, and issued.txt, which is  *)
(* only listed.  Serials are numbers: the hexadecimal form TLS gives is    *)
(* converted wherever it meets these files.                                *)
(***************************************************************************)
EXTENDS Integers, FiniteSets

CONSTANTS Issuers, Revokers,  \* commands that may run at the same time
          Domains,
          MaxSerial           \* serials ever taken (a bound)

ASSUME AuthorityAssumption == MaxSerial \in Nat /\ Issuers \cap Revokers = {}

VARIABLES
  counter,  \* serial-counter.txt; 0 when it holds no number
  signed,   \* every certificate openssl has made (a history)
  certs,    \* certs.json
  index,    \* issued-domains.json: per domain, the serials
  crl,      \* crl.txt
  command,  \* per process: what it does next, and its variables
  server    \* the tunnel server: the index it is about to write

vars == <<counter, signed, certs, index, crl, command, server>>

Commands == Issuers \cup Revokers
Serials == 1 .. MaxSerial
(* overlap: issued with --allow-domain-overlap; tls: a server certificate. *)
Certificates == [serial : Serials, domains : SUBSET Domains, overlap : BOOLEAN,
                 tls : BOOLEAN]
Entries == [cert : Certificates, valid : BOOLEAN]
Indexes == [Domains -> SUBSET Serials]
Steps == {"idle", "check", "serial", "truncate", "advance", "sign", "save",
          "append", "mark", "marked", "load", "index"}
Idle == [step |-> "idle", serial |-> 0, domains |-> {}, overlap |-> FALSE,
         tls |-> FALSE, copy |-> {}]

TypeOK ==
  /\ counter \in 0 .. MaxSerial + 1
  /\ signed \subseteq Certificates
  /\ certs \subseteq Entries
  /\ index \in Indexes
  /\ crl \subseteq Serials
  /\ command \in [Commands -> [step : Steps, serial : 0 .. MaxSerial,
                               domains : SUBSET Domains, overlap : BOOLEAN,
                               tls : BOOLEAN, copy : SUBSET Entries]]
  /\ server \in [busy : BOOLEAN, index : Indexes]

NoIndex == [d \in Domains |-> {}]

(* initCA.                                                                 *)
Init ==
  /\ counter = 1 /\ signed = {} /\ certs = {} /\ crl = {}
  /\ index = NoIndex
  /\ command = [p \in Commands |-> Idle]
  /\ server = [busy |-> FALSE, index |-> NoIndex]

-----------------------------------------------------------------------------
At(p, step) == command[p].step = step
Goes(p, step) == command' = [command EXCEPT ![p].step = step]
Ends(p) == command' = [command EXCEPT ![p] = Idle]

(* The domains of D that the entries M keep from a new certificate.        *)
(* Mutant: the entry's status alone is trusted.                            *)
TakenByStatus(M, D) == D \cap UNION {e.cert.domains : e \in {f \in M : f.valid}}
(* Mutant: a certificate issued to overlap may itself be overlapped.       *)
TakenFromOthers(M, D) ==
  D \cap UNION {e.cert.domains :
          e \in {f \in M : f.valid /\ ~f.cert.overlap /\ f.cert.serial \notin crl}}

Taken(M, D) ==
  D \cap UNION {e.cert.domains : e \in {f \in M : f.valid /\ f.cert.serial \notin crl}}

(* issueClientCertificate: metadata is loaded first, and saved last.       *)
IssueLoad(p, D, overlap) ==
  /\ At(p, "idle")
  /\ command' = [command EXCEPT ![p] =
       [Idle EXCEPT !.step = "check", !.domains = D, !.overlap = overlap, !.copy = certs]]
  /\ UNCHANGED <<counter, signed, certs, index, crl, server>>

IssueCheck(p) ==
  /\ At(p, "check")
  /\ IF ~command[p].overlap /\ Taken(command[p].copy, command[p].domains) # {}
     THEN Ends(p) ELSE Goes(p, "serial")
  /\ UNCHANGED <<counter, signed, certs, index, crl, server>>

(* issueServerCertificate: no domains, no metadata.                        *)
IssueServer(p) ==
  /\ At(p, "idle")
  /\ command' = [command EXCEPT ![p].step = "serial", ![p].tls = TRUE]
  /\ UNCHANGED <<counter, signed, certs, index, crl, server>>

(* getNextSerial.  The counter is read, truncated and written.             *)
(* Mutant: a counter that holds no number is begun again.                  *)
ReadCounterOrOne(p) ==
  /\ At(p, "serial") /\ counter <= MaxSerial
  /\ command' = [command EXCEPT ![p].serial = IF counter = 0 THEN 1 ELSE counter,
                                ![p].step = "truncate"]
  /\ UNCHANGED <<counter, signed, certs, index, crl, server>>

ReadCounter(p) ==
  /\ At(p, "serial") /\ counter <= MaxSerial
  /\ command' = [command EXCEPT ![p].serial = counter, ![p].step = "truncate"]
  /\ UNCHANGED <<counter, signed, certs, index, crl, server>>

Truncate(p) ==
  /\ At(p, "truncate")
  /\ counter' = 0
  /\ Goes(p, "advance")
  /\ UNCHANGED <<signed, certs, index, crl, server>>

(* What is written: the number after, or no number after none.             *)
Following(n) == IF n = 0 THEN 0 ELSE n + 1
Advance(p) ==
  /\ At(p, "advance")
  /\ counter' = Following(command[p].serial)
  /\ Goes(p, "sign")
  /\ UNCHANGED <<signed, certs, index, crl, server>>

(* openssl refuses a serial that is no number.                             *)
CertOf(p) == [serial |-> command[p].serial, domains |-> command[p].domains,
              overlap |-> command[p].overlap, tls |-> command[p].tls]

Sign(p) ==
  /\ At(p, "sign")
  /\ signed' = IF command[p].serial = 0 THEN signed ELSE signed \cup {CertOf(p)}
  /\ IF command[p].serial = 0 \/ command[p].tls THEN Ends(p) ELSE Goes(p, "save")
  /\ UNCHANGED <<counter, certs, index, crl, server>>

Save(p) ==
  /\ At(p, "save")
  /\ certs' = command[p].copy \cup {[cert |-> CertOf(p), valid |-> TRUE]}
  /\ Goes(p, "load")
  /\ UNCHANGED <<counter, signed, index, crl, server>>

(* revokeCertificate: the revocation list first.  The serial is what the   *)
(* administrator typed.                                                    *)
RevokeAppend(p, s) ==
  /\ At(p, "idle")
  /\ crl' = crl \cup {s}
  /\ command' = [command EXCEPT ![p].serial = s, ![p].step = "mark"]
  /\ UNCHANGED <<counter, signed, certs, index, server>>

MarkLoad(p) ==
  /\ At(p, "mark")
  /\ command' = [command EXCEPT ![p].copy = certs, ![p].step = "marked"]
  /\ UNCHANGED <<counter, signed, certs, index, crl, server>>

Marked(M, s) == {IF e.cert.serial = s THEN [e EXCEPT !.valid = FALSE] ELSE e : e \in M}

MarkSave(p) ==
  /\ At(p, "marked")
  /\ certs' = Marked(command[p].copy, command[p].serial)
  /\ Goes(p, "load")
  /\ UNCHANGED <<counter, signed, index, crl, server>>

(* rebuildIssuedDomainIndex, the end of both.                              *)
(* Mutant: the counter is listed, which is one ahead of the serial.        *)
IndexOfNext(M) ==
  [d \in Domains |-> {e.cert.serial + 1 : e \in {f \in M : f.valid /\ d \in f.cert.domains}}]

IndexOf(M) ==
  [d \in Domains |-> {e.cert.serial : e \in {f \in M : f.valid /\ d \in f.cert.domains}}]

RebuildLoad(p) ==
  /\ At(p, "load")
  /\ command' = [command EXCEPT ![p].copy = certs, ![p].step = "index"]
  /\ UNCHANGED <<counter, signed, certs, index, crl, server>>

RebuildWrite(p) ==
  /\ At(p, "index")
  /\ index' = IndexOf(command[p].copy)
  /\ Ends(p)
  /\ UNCHANGED <<counter, signed, certs, crl, server>>

(* A command stops where it is.                                            *)
Crash(p) ==
  /\ ~At(p, "idle")
  /\ Ends(p)
  /\ UNCHANGED <<counter, signed, certs, index, crl, server>>

-----------------------------------------------------------------------------
(* The server's ensureIssuedDomains for a client that has connected, and   *)
(* its rebuildIndexFromCerts: a file is read, then the index is replaced.  *)
Ensured(serial, D) ==
  [d \in Domains |-> IF d \in D THEN index[d] \cup {serial} ELSE index[d]]

ServerPrepares(newIndex) ==
  /\ ~server.busy
  /\ server' = [busy |-> TRUE, index |-> newIndex]
  /\ UNCHANGED <<counter, signed, certs, index, crl, command>>

EnsureRead(c, D) ==
  /\ c.serial \notin crl /\ ~c.tls
  /\ D # {} /\ D \subseteq c.domains
  /\ Ensured(c.serial, D) # index
  /\ ServerPrepares(Ensured(c.serial, D))

RecoverRead == ServerPrepares(IndexOf(certs))

IndexWrite ==
  /\ server.busy
  /\ index' = server.index
  /\ server' = [busy |-> FALSE, index |-> NoIndex]
  /\ UNCHANGED <<counter, signed, certs, crl, command>>

ServerCrash ==
  /\ server.busy
  /\ server' = [busy |-> FALSE, index |-> NoIndex]
  /\ UNCHANGED <<counter, signed, certs, index, crl, command>>

Next ==
  \/ \E p \in Issuers :
       \/ \E D \in SUBSET Domains, overlap \in BOOLEAN : IssueLoad(p, D, overlap)
       \/ IssueCheck(p) \/ IssueServer(p) \/ ReadCounter(p) \/ Truncate(p)
       \/ Advance(p) \/ Sign(p) \/ Save(p)
  \/ \E p \in Revokers :
       \/ \E s \in Serials : RevokeAppend(p, s)
       \/ MarkLoad(p) \/ MarkSave(p)
  \/ \E p \in Commands : RebuildLoad(p) \/ RebuildWrite(p) \/ Crash(p)
  \/ \E c \in signed, D \in SUBSET Domains : EnsureRead(c, D)
  \/ RecoverRead \/ IndexWrite \/ ServerCrash

Spec == Init /\ [][Next]_vars

-----------------------------------------------------------------------------
(* No two certificates are made with the same serial, wherever commands    *)
(* have stopped: to revoke one would revoke, or spare, the other.          *)
UniqueSerials ==
  \A p \in Issuers : At(p, "sign") => \A c \in signed : c.serial # command[p].serial

(* Two recorded certificates in force share a domain only if the later one *)
(* was issued to overlap, whatever a revocation loses or restores by       *)
(* saving what it has loaded before.                                       *)
InForce == {e.cert : e \in {f \in certs : f.valid /\ f.cert.serial \notin crl}}
OneValid ==
  \A c1, c2 \in InForce :
    c1.serial < c2.serial /\ c1.domains \cap c2.domains # {} => c2.overlap

(* A domain whose certificates have all been revoked is free: the server   *)
(* does not answer for it (isIssuedDomain), and a new certificate for it   *)
(* is not refused, wherever the revocation has stopped.                    *)
IsIssuedDomain(d) == index[d] \ crl # {}
FreedDomains ==
  \A d \in Domains : IsIssuedDomain(d) \/ Taken(certs, {d}) # {} =>
    \E c \in signed : d \in c.domains /\ c.serial \notin crl
=============================================================================
