------------------------------ MODULE MCPostings ------------------------------
EXTENDS Postings

CONSTANTS k1, k2, offsite, junk

P(key, sid, source, place, rank, salary, codes) ==
    [key |-> key, company |-> "acme", source_id |-> sid, sources |-> {source}, places |-> {place},
     rank |-> rank, length |-> rank, salary |-> salary, codes |-> codes, jd |-> codes \cap {offsite}]

\* One posting under its title, by mail, and under a drifted one, by its board, and
\* another that turns out to be the same; an upsert without a company.
SomePayloads ==
    {P(k1, None, "mail", "here", 1, None, {junk}), P(k1, 7, "board", "here", 3, 90, {offsite}),
     P(k2, 7, "board", "there", 3, None, {}),
     [P(k2, None, "mail", "here", 1, 80, {}) EXCEPT !.company = None]}
SomeKeys == {k1, k2}
SomeCodes == {offsite}
=============================================================================
