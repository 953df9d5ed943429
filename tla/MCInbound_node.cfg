SPECIFICATION Spec
CONSTANTS
    c1 = c1  c2 = c2  c3 = c3  pull = pull  x = x  y = y
    None = None
    Conn = {c1, c2, c3}
    Pull = pull
    Address = {x, y}
    MaxConns <- TwoThenOne
    MaxStrikes <- OneAndOne
    Cap <- OneThenTwo
    MostConns = 2
    MostCap = 2
    LeastPerIP = 1
    MaxFile = 1
    Sizes = {1}
    MaxHidden = 1
    MaxGen = 2
SYMMETRY Alike
INVARIANTS TypeOK IInv Counted CapsHold StrikesBounded RoomBound
PROPERTY OneByOneFits
