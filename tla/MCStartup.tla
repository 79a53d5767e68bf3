----------------------------- MODULE MCStartup -----------------------------
(* Configuration files for TLC: each service absent, off, on with each kind *)
(* of source, or without a key; the endpoint and the numbers given or not.  *)
EXTENDS Startup, TLC

Entry(on, source, dev) == [on |-> on, source |-> source, dev |-> dev]

Ptp4lEntries ==
  {Entry(TRUE, source, "eth0") : source \in {"subproccess", "journal", "subprocess", None}}
  \cup {Entry(FALSE, "subproccess", "eth0")}
Phc2sysEntries == {Entry(TRUE, "journal", None), Entry(TRUE, "subproccess", None)}
PpswatchEntries ==
  {Entry(TRUE, source, dev) : source \in {"subproccess", "journal"}, dev \in {"pps0", None}}

\* Functions from any of the services to one of its entries.
ServiceChoices ==
  {p @@ h @@ w :
     p \in {<<>>} \cup {"ptp4l" :> e : e \in Ptp4lEntries},
     h \in {<<>>} \cup {"phc2sys" :> e : e \in Phc2sysEntries},
     w \in {<<>>} \cup {"ppswatch" :> e : e \in PpswatchEntries}}

GoodNumbers == [n \in DOMAIN Meanings |-> "ok"]
AllNumbers ==
  {f \in [DOMAIN Meanings -> {"ok", "invalid", "forever", None}] :
     \A n \in DOMAIN Meanings : f[n] \in Meanings[n] \cup {None}}

FilesWith(services, endpoints, numbers) ==
  [readable : {TRUE}, services : services, endpoint : endpoints, numbers : numbers]

MCFiles ==
  FilesWith(ServiceChoices, {"tcp"}, {GoodNumbers})
  \cup FilesWith({"ppswatch" :> Entry(TRUE, "subproccess", "pps0")},
                 {"tcp", None}, AllNumbers)
  \cup [readable : {FALSE}, services : {<<>>}, endpoint : {None}, numbers : {GoodNumbers}]
=============================================================================
