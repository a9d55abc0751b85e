---------------------------- MODULE EvidenceLibrary ----------------------------
(***************************************************************************)
(* The documents an investigation can find: what the seed ingests          *)
(* (backend/app/rag/ingestion.py) and what a search may return             *)
(* (repositories/evidence_document_repository.py).  A document's text is   *)
(* the set of the keywords and root causes that occur in it, which is all  *)
(* the confidence score looks for.  Every ingested document is global      *)
(* (merchant_id NULL), so the merchant filter lets all of them through.    *)
(***************************************************************************)
EXTENDS Integers, Sequences, FiniteSets

RecordTypes == {"TRANSACTION", "SETTLEMENT", "INVOICE", "BANK_TRANSACTION"}
SourceTypes == RecordTypes \cup {"FINANCE_RULE", "HISTORICAL_CASE"}
TrustLevels == {"PRIMARY", "SECONDARY", "REFERENCE", "HISTORICAL"}

RuleDocument(name, words) ==
  [name |-> name, type |-> "FINANCE_RULE", trust |-> "REFERENCE", words |-> words]

\* The resolution of a case starts with the cause it was closed with.
CaseDocument(name, cause) ==
  [name |-> name, type |-> "HISTORICAL_CASE", trust |-> "HISTORICAL", words |-> {cause}]

FinanceRules == <<
  RuleDocument("RULE_FEE_001",
    {"amount", "deduction", "fee", "processing", "rate", "settlement"}),
  RuleDocument("RULE_SETTLE_001", {"delay", "settlement", "timing"}),
  RuleDocument("RULE_REFUND_001",
    {"amount", "fee", "processing", "refund", "reversal", "settlement"}),
  RuleDocument("RULE_FEE_002", {"amount", "difference", "fee", "mismatch"}),
  RuleDocument("RULE_DUP_001", {"duplicate", "same payment", "settlement"}),
  RuleDocument("RULE_INV_001", {"amount", "fee", "invoice", "missing"}) >>

HistoricalCases == <<
  CaseDocument("CASE_001", "FEE_VARIANCE"),
  CaseDocument("CASE_002", "DUPLICATE"),
  CaseDocument("CASE_003", "MISSING_SETTLEMENT"),
  CaseDocument("CASE_004", "REFUND_MISMATCH"),
  CaseDocument("CASE_005", "DATE_MISMATCH"),
  CaseDocument("CASE_006", "AMOUNT_MISMATCH") >>

DocumentNames == {FinanceRules[i].name : i \in 1..Len(FinanceRules)}
                   \cup {HistoricalCases[i].name : i \in 1..Len(HistoricalCases)}

\* The first documents of a list: each is committed on its own, so an ingestion
\* that fails keeps those before.
Ingested(documents, count) == {documents[i] : i \in 1..count}

\* One attempt covers both lists, the rules first: a rule that fails leaves no
\* case behind.
Seeding(rules, cases) ==
  /\ rules \in 0..Len(FinanceRules)
  /\ cases \in 0..Len(HistoricalCases)
  /\ cases > 0 => rules = Len(FinanceRules)

SeededLibrary(rules, cases) ==
  Ingested(FinanceRules, rules) \cup Ingested(HistoricalCases, cases)

----------------------------------------------------------------------------
\* The limit nearest of the documents of the wanted types (no type: of any),
\* by the distance of their embedding from that of the query.
SearchEvidence(library, distance, types, limit) ==
  LET eligible == IF types = {} THEN library ELSE {d \in library : d.type \in types}
  IN  {d \in eligible :
         Cardinality({e \in eligible : distance[e.name] < distance[d.name]}) < limit}

FinanceRulesFor(library, distance) ==
  SearchEvidence(library, distance, {"FINANCE_RULE"}, 6)

SimilarCases(library, distance) ==
  SearchEvidence(library, distance, {"HISTORICAL_CASE"}, 4)

\* The plan selects by its record types alone; rules and cases have searches of
\* their own.
PlannedEvidence(library, distance, plan) ==
  SearchEvidence(library, distance, plan \cap RecordTypes, 12)
===============================================================================
