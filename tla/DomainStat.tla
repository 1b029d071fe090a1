----------------------------- MODULE DomainStat -----------------------------
(***************************************************************************)
(* Domain statistics (hw10).  The input is a sequence of lines; a line is  *)
(* of kind "empty", "bad" (JSON that does not parse), "long" (beyond the   *)
(* megabyte of the scanner's buffer) or "user", and the email of a user is *)
(* a sequence of the characters "@", ".", "g" and "G".                     *)
(***************************************************************************)
EXTENDS Integers, Sequences, FiniteSets, SequencesExt

VARIABLES
  lines, domain,   \* the arguments
  scanned,         \* the lines scanned so far
  result,          \* the map
  statistician     \* "scan", or how GetDomainStat ended: "nil" or "error"

statVars == <<lines, domain, scanned, result, statistician>>

Characters == {"@", ".", "g", "G"}
Line == [kind : {"empty", "bad", "long", "user"}, email : Seq(Characters)]

StatStart(ls, d) ==
  /\ lines = ls /\ domain = d
  /\ scanned = 0
  /\ result = [e \in {} |-> 0]
  /\ statistician = "scan"

----------------------------------------------------------------------------
(* GetDomainStat *)

LowerCase(s) == [i \in DOMAIN s |-> IF s[i] = "G" THEN "g" ELSE s[i]]

\* Mutant: the last "@" is taken.
FromLastAt(email) ==
  LET at == {i \in DOMAIN email : email[i] = "@"}
      atIdx == CHOOSE i \in at : \A j \in at : j <= i
  IN IF at = {} THEN <<>>
     ELSE LowerCase(SubSeq(email, atIdx + 1, Len(email)))

\* What stands behind the first "@"; empty when there is nothing.
EmailDomain(email) ==
  LET at == {i \in DOMAIN email : email[i] = "@"}
      atIdx == CHOOSE i \in at : \A j \in at : i <= j
  IN IF at = {} THEN <<>>
     ELSE LowerCase(SubSeq(email, atIdx + 1, Len(email)))

\* The domain asked for is not lower-cased.
Below(d) == IsSuffix(<<".">> \o domain, d)

Scanning == statistician = "scan" /\ scanned < Len(lines)
ThisLine == lines[scanned + 1]

SkipLine ==
  /\ Scanning
  /\ \/ ThisLine.kind = "empty"
     \/ ThisLine.kind = "user" /\ LET d == EmailDomain(ThisLine.email)
                                  IN d = <<>> \/ ~Below(d)
  /\ scanned' = scanned + 1
  /\ UNCHANGED <<lines, domain, result, statistician>>

CountLine ==
  /\ Scanning /\ ThisLine.kind = "user"
  /\ LET d == EmailDomain(ThisLine.email) IN
     /\ d # <<>> /\ Below(d)
     /\ result' = [e \in DOMAIN result \cup {d} |->
                     (IF e \in DOMAIN result THEN result[e] ELSE 0)
                       + (IF e = d THEN 1 ELSE 0)]
  /\ scanned' = scanned + 1
  /\ UNCHANGED <<lines, domain, statistician>>

\* Nothing is returned beside an error.
FailAtLine ==
  /\ Scanning /\ ThisLine.kind \in {"bad", "long"}
  /\ result' = [e \in {} |-> 0]
  /\ statistician' = "error"
  /\ UNCHANGED <<lines, domain, scanned>>

EndOfLines ==
  /\ statistician = "scan" /\ scanned = Len(lines)
  /\ statistician' = "nil"
  /\ UNCHANGED <<lines, domain, scanned, result>>

StatNext == SkipLine \/ CountLine \/ FailAtLine \/ EndOfLines

StatSpec ==
  /\ \E ls \in Seq(Line), d \in Seq(Characters) : StatStart(ls, d)
  /\ [][StatNext]_statVars

----------------------------------------------------------------------------
(* Property *)

\* An e-mail is a name without "@", an "@" and the domain.
HasDomain(line, d) ==
  /\ line.kind = "user"
  /\ \E i \in DOMAIN line.email :
       /\ line.email[i] = "@"
       /\ \A j \in 1 .. i - 1 : line.email[j] # "@"
       /\ LowerCase(SubSeq(line.email, i + 1, Len(line.email))) = d

\* Every part of a line that could be its domain.
Ends(line) ==
  {LowerCase(SubSeq(line.email, k, Len(line.email))) : k \in DOMAIN line.email}

\* A statistic has an entry for each domain below the one asked for that some
\* line has, with the number of these lines, in whatever case they are written;
\* a line that cannot be read spoils the whole.
StatIsRight ==
  /\ statistician = "error" =>
       \E i \in DOMAIN lines : lines[i].kind \in {"bad", "long"}
  /\ statistician = "nil" =>
       /\ \A i \in DOMAIN lines : lines[i].kind \notin {"bad", "long"}
       /\ \A d \in DOMAIN result :
            LET having == {i \in DOMAIN lines : HasDomain(lines[i], d)} IN
            /\ result[d] = Cardinality(having)
            /\ having # {} /\ Below(d)
       /\ \A i \in DOMAIN lines : \A d \in Ends(lines[i]) :
            HasDomain(lines[i], d) /\ Below(d) => d \in DOMAIN result
=============================================================================
