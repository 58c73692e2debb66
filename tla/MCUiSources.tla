----------------------------- MODULE MCUiSources -----------------------------
(* Responses for UiSources: a catalog with a pager, a search bar and a button, *)
(* two views of one source, sources that are refreshed, buttons with a handler *)
(* of their own, with a source's and with none, and a plain text.              *)
EXTENDS UiSources

C(name, source, params, action) ==
    [name |-> name, source |-> source, params |-> params, action |-> action, says |-> None,
     payload |-> NoArgs, type |-> "ui.action.execute"]

Source(handler, args, refresh) == [handler |-> handler, args |-> args, refresh |-> refresh]

Action(source, handler, args, refreshes) ==
    [source |-> source, handler |-> handler, args |-> args, refreshes |-> refreshes]

\* A component that only says which source it is about.
Says(name, id, action) == [C(name, None, NoArgs, action) EXCEPT !.says = id]

\* A report has fewer entries than the source it stands in for.
ServiceEntries == [products |-> 4, finance |-> 4, report |-> 2, mail |-> 1]

Catalog ==
    [components |-> <<C("pagination", "catalog", NoArgs, None),
                      [C("searchBar", "catalog", NoArgs, None) EXCEPT !.type = "data.query"],
                      C("actionPanel", None, NoArgs, "add")>>,
     sources |-> [catalog |-> Source("products", NoArgs, "stale")],
     actions |-> "add" :> Action("catalog", None, [sort |-> "price"], {})]

TwoViews ==
    [components |-> <<C("pagination", "catalog", [q |-> "x"], None),
                      C("pagination", "catalog", NoArgs, None)>>,
     sources |-> [catalog |-> Source("products", NoArgs, "none")],
     actions |-> <<>>]

Live ==
    [components |-> <<C("pagination", "accounts", NoArgs, None),
                      C("searchBar", "catalog", NoArgs, None)>>,
     sources |-> [accounts |-> Source("finance", NoArgs, "load"), catalog |-> Source("products", [skip |-> 0], "open")],
     actions |-> <<>>]

Report ==
    [components |-> <<C("pagination", "catalog", NoArgs, None), Says("searchBar", "catalog", None),
                      C("actionPanel", "catalog", NoArgs, "report"), C("actionPanel", None, NoArgs, "mail")>>,
     sources |-> [catalog |-> Source("products", NoArgs, "none")],
     actions |-> ("report" :> Action("catalog", "report", NoArgs, {}))
              @@ ("mail" :> Action(None, "mail", NoArgs, {}))]

Text == [components |-> <<>>, sources |-> <<>>, actions |-> <<>>]

AllResponses == {Catalog, TwoViews, Live, Report, Text}

\* A button that changes the cart and refreshes the catalog.
Shop ==
    [components |-> <<C("pagination", "cart", NoArgs, None), C("pagination", "catalog", NoArgs, None),
                      C("actionPanel", None, NoArgs, "add")>>,
     sources |-> [cart |-> Source("products", NoArgs, "none"), catalog |-> Source("products", NoArgs, "none")],
     actions |-> "add" :> Action("cart", None, NoArgs, {"catalog"})]

ShopResponses == {Shop}

=============================================================================
