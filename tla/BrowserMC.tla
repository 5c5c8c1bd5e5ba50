------------------------------ MODULE BrowserMC ------------------------------
EXTENDS Browser
AFile(d, n, k) == [dir |-> d, name |-> n, kind |-> k, hidden |-> n = "._x"]
MTree == << <<>>, <<"a">>, <<"a", "b">>, <<"c">> >>
MSticks == { << AFile(<<>>, "1.mp4", "video"), AFile(<<>>, "._x", "image"), AFile(<<"a">>, "2.pdf", "pdf"),
                AFile(<<"a", "b">>, "3.png", "image"), AFile(<<"c">>, "4.doc", "office"),
                AFile(<<"c">>, "5.mp4", "video"), AFile(<<".Trashes">>, "6.mp4", "video") >>,
             << AFile(<<"a">>, "2.pdf", "pdf"), AFile(<<"a">>, "7.doc", "office"), AFile(<<"a">>, "8.png", "image"),
                AFile(<<"a">>, "9.txt", "other") >>,
             << AFile(<<"c">>, "4.doc", "office") >> }
=============================================================================
