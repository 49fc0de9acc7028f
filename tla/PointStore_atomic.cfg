SPECIFICATION FairSpec
CONSTANTS
    t1 = t1  t2 = t2  t3 = t3
    v0 = v0  v1 = v1
    f1 = f1  f2 = f2  f3 = f3
    r = r  w = w
    Thread = {r, w}
    NoThread = NoThread
    Table = {t1, t2, t3}
    Known = {t1, t2}
    Size <- Sizes
    Field <- Fields
    Value = {v0, v1}
    Zero = v0
    Missing = Missing
    Junk = Junk
    Cond = {f3, f2}
    BlockCond = {f1, f2}
    PointId = {0, 1}
    BlockId = {0}
    Block <- Blocks
    Num = {1, 2}
    TransId = {0, 1}
    Trans <- Table1
    Formula <- Formulas
INVARIANTS TypeOK OnlyStoredValues ReadsConsecutive
PROPERTIES BlocksAreAtomic LockReleased
