------------------------------ MODULE StatsReport ------------------------------
(***************************************************************************)
(* What becomes of one statistics report of a connection                   *)
(* (parse_rtc_stats): entries that do not change while the connection      *)
(* lives are rows of their own, written once, and everything else is one   *)
(* sample.  An entry is its type, its id and its other fields, each of     *)
(* which is a model value as far as rows are concerned.                    *)
(***************************************************************************)
EXTENDS Naturals, Sequences, Functions

SampleTypes == {"inbound-rtp", "outbound-rtp", "media-source", "remote-inbound-rtp",
                "remote-outbound-rtp", "data-channel", "transport", "candidate-pair",
                "peer-connection", "media-playout"}

(* The static types, in the order in which their rows are sent.             *)
StaticTypes == <<"codec", "local-candidate", "remote-candidate", "certificate">>

(* A codec is told apart by everything it says, as its table's UNIQUE       *)
(* constraint does; the others by their id alone.                           *)
Identity(e) == <<e.type, e.id, IF e.type = "codec" THEN e.fields ELSE "">>

(* The entries of a type nobody knows go.                                   *)
IsStatic(e) == \E k \in DOMAIN StaticTypes : StaticTypes[k] = e.type

Identities(report) == {Identity(e) : e \in {e \in Range(report) : IsStatic(e)}}

(* The static entries of a report whose rows were not sent before.          *)
Unseen(report, seen) ==
  {i \in DOMAIN report : IsStatic(report[i]) /\ Identity(report[i]) \notin seen}

(* The rows leave by type, and those of a type in the order of the report.  *)
Place(e) == CHOOSE k \in DOMAIN StaticTypes : StaticTypes[k] = e.type
Before(report, i, j) ==
  \/ Place(report[i]) < Place(report[j])
  \/ Place(report[i]) = Place(report[j]) /\ i <= j

(* A report without a row for the sample sends none.                        *)
HasRows(report) == \E e \in Range(report) : e.type \in SampleTypes

===============================================================================
