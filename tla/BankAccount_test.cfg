CONSTANTS
    agent = agent
    joe = joe
    atm1 = atm1
    atm2 = atm2
    Nobody = Nobody
    Agents = {agent}
    Joes = {joe}
    Atms = {atm1, atm2}
    Turns = 3
    Wage = 500
    Spending = 100
    Cash = 900
    Fee = 2
SPECIFICATION Spec
INVARIANT SeenAtomically
PROPERTIES ImplementsLedger
