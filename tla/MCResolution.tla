---------------------------- MODULE MCResolution ----------------------------
(***************************************************************************)
(* Small worlds for Resolution.  Acme (XNAS) and Apex (XLON) both trade as   *)
(* "A"; Bravo is spelled "BR.B"; a call on Acme is restated from strike 4 to *)
(* strike 2.                                                                 *)
(***************************************************************************)
EXTENDS Resolution

McOperatingMIC == [m \in {"XNAS", "XNGS", "XLON"} |-> IF m = "XNGS" THEN "XNAS" ELSE m]
McMICCountry == [m \in {"XNAS", "XLON"} |-> IF m = "XNAS" THEN "US" ELSE "GB"]
McOccStrike == [v \in {"A4", "A2"} |-> IF v = "A4" THEN 4 ELSE 2]
McSqueezed == [v \in {"BR.B"} |-> "BRB"]

Id(type, dom, val) == [type |-> type, dom |-> dom, val |-> val]
Isin(v) == Id("ISIN", "", v)
Ticker(dom, v) == Id("MIC_TICKER", dom, v)
Figi(v) == Id("OPENFIGI_SHARE_CLASS", "", v)
Occ(v) == Id("OCC", "", v)

Truth ==
    [acme |-> {Isin("acme"), Ticker("XNAS", "A"), Ticker("XLON", "ACM"), Figi("acme")},
     apex |-> {Isin("apex"), Ticker("XLON", "A"), Figi("apex")},
     bravo |-> {Isin("bravo"), Ticker("XNAS", "BR.B")},
     call |-> {Occ("A4"), Occ("A2")}]
Facts ==
    [acme |-> [curs |-> {"USD", "GBP"}, class |-> "STOCK"], apex |-> [curs |-> {"GBP"}, class |-> "ETF"],
     bravo |-> [curs |-> {"USD"}, class |-> "STOCK"], call |-> [curs |-> {"USD"}, class |-> "OPTION"]]

Inst(class, mic, country, cur) == [class |-> class, mic |-> mic, country |-> country, cur |-> cur, cik |-> ""]
Answer(sec, inst, ids, under) == [ok |-> TRUE, sec |-> sec, inst |-> inst, ids |-> ids, under |-> under]
No(why) == [ok |-> FALSE, why |-> why]

\* A venue-level answer, a market-level one, and sparse ones.
AcmeFull == Answer("acme", Inst("STOCK", "XNGS", "", "USD"), <<Ticker("XNGS", "A"), Isin("acme")>>, <<>>)
AcmeMarket == Answer("acme", Inst("STOCK", "", "US", ""), <<Figi("acme")>>, <<>>)
AcmeVague == Answer("acme", Inst("UNKNOWN", "", "US", ""), <<Figi("acme")>>, <<>>)
AcmeFigi == Answer("acme", Inst("STOCK", "XNAS", "", ""), <<Figi("acme"), Isin("acme")>>, <<>>)
AcmeLondon == Answer("acme", Inst("STOCK", "XLON", "", "GBP"), <<Ticker("XLON", "ACM")>>, <<>>)
ApexFull == Answer("apex", Inst("ETF", "XLON", "", "GBP"), <<Ticker("XLON", "A"), Isin("apex")>>, <<>>)
ApexFigi == Answer("apex", Inst("ETF", "XLON", "", ""), <<Figi("apex")>>, <<>>)
ApexSparse == Answer("apex", Inst("", "", "", ""), <<Isin("apex"), Figi("apex")>>, <<>>)
BravoFull == Answer("bravo", Inst("STOCK", "XNAS", "", "USD"), <<Ticker("XNAS", "BR.B"), Isin("bravo")>>, <<>>)
CallFull == Answer("call", Inst("OPTION", "", "US", "USD"), <<Occ("A4")>>, <<Ticker("", "A")>>)

Plugin(knows, fails) == [kinds |-> {}, types |-> {}, knows |-> knows, fails |-> fails]
Of(plugin, types) == [plugin EXCEPT !.types = types]
RowOn(sec, desc, stated, cur, class) ==
    [sec |-> sec, desc |-> desc, stated |-> stated, cur |-> cur, class |-> class, kind |-> "",
     root |-> "", ref |-> <<>>, strike |-> 0, inst |-> Blank]
Txs(rows) == [kind |-> "txs", rows |-> rows]
Prices(rows) == [kind |-> "prices", rows |-> rows]

World(imports, often, plugins, offers, restates, declares) ==
    [store |-> <<>>, imports |-> imports, tries |-> often, plugins |-> plugins, offers |-> offers, restates |-> restates, declares |-> declares,
     truth |-> Truth, facts |-> Facts,
     wrote |-> [d \in {r.desc : r \in UNION {ToSet(imports[u].rows) : u \in DOMAIN imports}} |->
                  {r \in UNION {ToSet(imports[u].rows) : u \in DOMAIN imports} : r.desc = d}]]

\* A description and nothing else, offered a bare ticker, a wrong one, and a
\* ticker with a FIGI that may disagree; later uploads state the identifier.
Guesses ==
    World(<<Txs(<<RowOn("acme", "ACME ORD", <<>>, "USD", "")>>), Txs(<<RowOn("acme", "ACME ORD", <<Isin("acme")>>, "", "STOCK")>>)>>, 2,
          <<Plugin({AcmeFull, ApexFull}, {No("not found")}), Plugin({AcmeMarket, ApexSparse}, {No("timeout")})>>,
          {<<>>, <<Ticker("", "A")>>, <<Ticker("XLON", "A")>>, <<Ticker("NOWHERE", "A"), Figi("apex")>>, <<Id("TICKER", "", "A")>>},
          {}, 0)

\* A ticker without a venue names two companies; prices first, an ISIN later.
Listings ==
    World(<<Prices(<<RowOn("acme", "", <<Ticker("XNAS", "A")>>, "", "")>>),
            Txs(<<RowOn("acme", "ACME", <<Isin("acme")>>, "USD", "STOCK"), RowOn("apex", "APEX", <<Ticker("XLON", "A")>>, "", "")>>)>>, 2,
          <<Plugin({AcmeFull, ApexFull}, {No("timeout")}), Plugin({AcmeFigi, ApexFigi}, {No("error")})>>,
          {<<>>, <<Ticker("XNAS", "A")>>, <<Ticker("XLON", "A")>>}, {}, 1)

Archive(rows) == [kind |-> "archive", rows |-> rows]
Option == [RowOn("call", "ACME C4", <<Occ("A4")>>, "USD", "OPTION") EXCEPT !.root = "A"]
Filed(row, inst, ref, strike) == [row EXCEPT !.inst = inst, !.ref = ref, !.strike = strike]

\* A broker's line first, then its identifiers, then a file under a squeezed
\* ticker; the instruments are merged unless a declaration holds one.
Describing ==
    World(<<Txs(<<RowOn("bravo", "BRAVO B", <<>>, "USD", "")>>), Txs(<<RowOn("bravo", "BRAVO B", <<Isin("bravo")>>, "USD", "")>>),
            Prices(<<RowOn("bravo", "", <<Ticker("", "BRB")>>, "USD", ""), RowOn("bravo", "", <<Ticker("XNAS", "BR.B")>>, "USD", "STOCK")>>)>>, 2,
          <<Plugin({BravoFull}, {No("not found")})>>, {<<>>, <<Ticker("", "BRB")>>}, {}, 1)

\* A call on Acme, its underlying known by its ticker alone and by its ISIN
\* alone, the call restated meanwhile and restored from an archive.
Options ==
    World(<<Prices(<<RowOn("acme", "", <<Ticker("XNAS", "A")>>, "", ""), [Option EXCEPT !.stated = <<Occ("A2")>>, !.desc = ""]>>),
            Txs(<<Option, RowOn("acme", "ACME", <<Isin("acme")>>, "", "")>>),
            Archive(<<Filed(RowOn("acme", "ACME", <<Ticker("XNAS", "A"), Isin("acme")>>, "", ""), AcmeFull.inst, <<>>, 0),
                      Filed([Option EXCEPT !.desc = ""], CallFull.inst, <<Ticker("XNAS", "A")>>, 4)>>)>>, 2,
          <<Plugin({CallFull, AcmeFigi}, {No("timeout")})>>, {<<>>}, {[old |-> Occ("A4"), new |-> Occ("A2")]}, 0)

\* One company under two names: rows that state both, a row whose answer
\* merges them under an earlier row of the batch, a class that cannot be.
Clashes ==
    World(<<Prices(<<RowOn("acme", "", <<Ticker("XNAS", "A")>>, "", ""), RowOn("acme", "", <<Isin("acme")>>, "", "")>>),
            Txs(<<RowOn("acme", "ACME BOTH", <<Isin("acme"), Ticker("XNAS", "A")>>, "", "")>>),
            Txs(<<RowOn("acme", "ACME ISIN", <<Isin("acme")>>, "", ""), RowOn("acme", "ACME FIGI", <<Figi("acme")>>, "USD", "STOCK")>>),
            Txs(<<RowOn("acme", "ACME BOND", <<Isin("acme")>>, "", "FIXED_INCOME")>>),
            Archive(<<Filed([Option EXCEPT !.desc = ""], CallFull.inst, <<Ticker("XNAS", "A")>>, 4)>>)>>, 1,
          <<Of(Plugin({AcmeFull}, {No("error")}), {"STOCK", "ETF"})>>, {<<>>}, {}, 0)

\* Acme trades in London too: a guess at that line, where the source stated
\* dollars and no more of the class than that it is unknown, and the first
\* answer says nothing of the currency.
CrossListed ==
    World(<<Txs(<<RowOn("acme", "ACME PLC", <<Isin("acme")>>, "USD", "UNKNOWN")>>)>>, 2,
          <<Of(Plugin({AcmeMarket, AcmeVague}, {No("timeout")}), {"STOCK"}), Plugin({AcmeLondon, AcmeFull}, {No("not found")})>>,
          {<<>>, <<Ticker("XLON", "ACM")>>, <<Ticker("XNAS", "A")>>}, {}, 0)

\* A description one security was identified by and another is seen under.
Reused ==
    World(<<Txs(<<RowOn("acme", "ORD SHS", <<>>, "USD", "")>>), Txs(<<RowOn("apex", "ORD SHS", <<Isin("apex")>>, "", "")>>)>>, 2,
          <<Plugin({AcmeFull, ApexFull}, {No("timeout")})>>, {<<>>, <<Ticker("XNAS", "A")>>}, {}, 0)

\* A description two securities share, seen first without identifiers.
Shared ==
    World(<<Txs(<<RowOn("acme", "ORD SHS", <<>>, "", "")>>),
            Txs(<<RowOn("acme", "ORD SHS", <<Isin("acme")>>, "", ""), RowOn("apex", "ORD SHS", <<Isin("apex")>>, "", "")>>)>>, 1,
          <<Plugin({AcmeFull, ApexFull}, {})>>, {<<>>}, {}, 0)
SharedWorlds == [shared |-> Shared]

McWorlds == [guesses |-> Guesses, listings |-> Listings, described |-> Describing, options |-> Options, clashes |-> Clashes,
             crosslisted |-> CrossListed, reused |-> Reused]
=============================================================================
