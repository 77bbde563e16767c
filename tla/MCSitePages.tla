------------------------------ MODULE MCSitePages ------------------------------
EXTENDS SitePages, TLC

CONSTANTS c1, c2, slug, page   \* two callers; the templates /:slug and /:page

MCCallers == {c1, c2}
MCPages == {"/index.html", slug, page}
MCRequests == {"/"}
MCExact == [r \in MCRequests |-> <<"/", "/index.html">>]
MCParams == [r \in MCRequests |-> {slug, page}]
MCLayouts == {"default"}
MCFields == {"head_content", "body_before_main"}
MCGiven == {MCFields, {"head_content"}}

Symmetric == Permutations(MCCallers) \cup Permutations({slug, page})
================================================================================
