-------------------------- MODULE MCSplashModeset --------------------------
(* Boards for TLC: up to three connectors, two CRTCs, small screens. *)
EXTENDS SplashModeset

Enc(bound, possible) == [crtc |-> bound, possible |-> possible]

Screen(hdmi, modes, encoder, encoders) ==
  [hdmi |-> hdmi, connected |-> TRUE, modes |-> modes, encoder |-> encoder, encoders |-> encoders]

Unplugged == [hdmi |-> TRUE, connected |-> FALSE, modes |-> <<>>, encoder |-> 0,
              encoders |-> <<Enc(0, {1, 2})>>]

Wide  == [w |-> 6, h |-> 4]
Tall  == [w |-> 2, h |-> 5]
Huge  == [w |-> 9, h |-> 8]
Small == [w |-> 2, h |-> 2]

Panel == Screen(FALSE, <<Wide>>, 1, <<Enc(1, {1, 2})>>)
Hdmi  == Screen(TRUE, <<Huge, Wide>>, 0, <<Enc(0, {1, 2})>>)

Board(a, b, c) == [cards |-> <<"absent", "denied", "other", "kms">>, conns |-> <<a, b, c>>]

MCBoards ==
  { Board(Panel, Hdmi, Unplugged),
    \* more screens than CRTCs, one of them portrait
    Board(Panel, Screen(FALSE, <<Tall>>, 0, <<Enc(0, {1, 2})>>), Hdmi),
    \* two connectors behind one CRTC, a second encoder for one of them
    Board(Unplugged, Panel, Screen(TRUE, <<Wide>>, 1, <<Enc(1, {1}), Enc(0, {2})>>)),
    \* the first takes the only CRTC that the second could have had
    Board(Screen(FALSE, <<Wide>>, 0, <<Enc(0, {1, 2})>>),
          Screen(FALSE, <<Tall>>, 0, <<Enc(0, {1})>>),
          Screen(TRUE, <<>>, 0, <<Enc(0, {2})>>)),
    \* a screen smaller than the built-in picture
    Board(Panel, Screen(TRUE, <<Small>>, 0, <<Enc(0, {2})>>), Unplugged),
    [cards |-> <<"other", "denied">>, conns |-> <<Panel, Hdmi, Unplugged>>] }

Run(n) == [run |-> TRUE, len |-> n]
Lit(n) == [run |-> FALSE, len |-> n]

\* Encodings of six pixels, eighteen bytes; of the last, the sixth pixel ends
\* two bytes past them.
MCRleData == { <<Run(4), Lit(2)>>, <<Lit(1), Run(4), Lit(1)>>, <<Lit(2), Lit(4)>> }

MCPictures == { [w |-> 4, h |-> 4], [w |-> 6, h |-> 5] }
=============================================================================
