--------------------------- MODULE MCPageSession ---------------------------
(* Constants of the runs `page` and `page_twins`. *)
EXTENDS PageSession

Plain == [kind |-> "text", text |-> 0, own |-> 0, name |-> "", label |-> "", detail |-> "",
          direct |-> TRUE, href |-> "", region |-> "main", inner |-> FALSE, within |-> None]
A(kind, text, own, name) ==
    [Plain EXCEPT !.kind = kind, !.text = text, !.own = own, !.name = name, !.label = name]

\* A link in the navigation and one in a heading to one place, a control of their name, a frame
\* that cannot be read, and a field in one that can, named by its label.
MCOrder == <<"image", "head", "title", "more", "frame", "field">>
MCLook ==
    [e \in Range(MCOrder) |->
        CASE e = "image" -> [A("control", 0, 2, "item") EXCEPT !.detail = "x", !.href = "/", !.region = "nav"]
          [] e = "head"  -> [A("heading", 0, 1, "") EXCEPT !.label = "item"]
          [] e = "title" -> [A("control", 0, 2, "item") EXCEPT !.href = "/", !.within = "head"]
          [] e = "more"  -> A("control", 0, 3, "item")
          [] e = "frame" -> A("frame", 2, 3, "")
          [] e = "field" -> [A("control", 5, 2, "field") EXCEPT !.direct = FALSE, !.inner = TRUE]]
MCStarts == {{"title", "more"}, {"title", "field"}}
MCReads == [mode : {"full", "main"}, offset : {0}, query : {""}]
             \union {[mode |-> "full", offset |-> 2, query |-> ""],
                     [mode |-> "full", offset |-> 0, query |-> "item"]}

\* The same page with details that the last two links share.
TwinsLook == [e \in Range(MCOrder) |->
                [MCLook[e] EXCEPT !.detail = IF e = "image" THEN "x" ELSE "y", !.href = ""]]
=============================================================================
